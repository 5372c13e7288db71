------------------------------- MODULE Rules -------------------------------
(***************************************************************************)
(* internal/domain/user, the hasher and the list filter: what is accepted  *)
(* of what a caller sends, in which form it is kept, and what is said of   *)
(* the rest.  A text is a record of what the rules look at.                *)
(***************************************************************************)
EXTENDS Integers, Sequences

nameMaxRunes     == 100
emailMaxLen      == 254
passwordMinRunes == 8
bcryptMaxBytes   == 72
DefaultListLimit == 20
MaxListLimit     == 100

\* `runes` is what is left when the padding is trimmed.
NameText == [pad : BOOLEAN, runes : Nat]

\* Trimmed and in lower case, `runes` characters in `len` bytes.  Only an address with
\* a dot behind its @ has the form "addr"; a display name or a comment has not.
EmailText ==
  {e \in [pad : BOOLEAN, upper : BOOLEAN, runes : Nat, len : Nat,
          form : {"addr", "noDot", "junk"}] : e.runes <= e.len}

\* `common`: in commonPasswords, in whatever case.
PasswordText == [runes : Nat, width : 1..4, common : BOOLEAN]

Bytes(password) == password.runes * password.width

Issue(field, reason) == [field |-> field, reason |-> reason]

-----------------------------------------------------------------------------
(* Each rule: the normal form, and the issue if there is one. *)

normalizeName(name) == [name EXCEPT !.pad = FALSE]

\* Mutant: the longest name is refused.
NameIssuesUnder(name) ==
  IF name.runes \in 1 .. nameMaxRunes - 1 THEN <<>> ELSE <<Issue("name", "length")>>

NameIssues(name) ==
  IF name.runes \in 1..nameMaxRunes THEN <<>> ELSE <<Issue("name", "length")>>

\* Mutant: the case is kept.
NewEmailTrimmed(email) == [email EXCEPT !.pad = FALSE]

NewEmail(email) == [email EXCEPT !.pad = FALSE, !.upper = FALSE]

\* The limit is on bytes; its reason says characters.
EmailIssues(email) ==
  IF email.len = 0 THEN <<Issue("email", "empty")>>
  ELSE IF email.len > emailMaxLen THEN <<Issue("email", "too long")>>
  ELSE IF email.form # "addr" THEN <<Issue("email", "format")>>
  ELSE <<>>

ValidatePassword(password) ==
  IF password.runes < passwordMinRunes THEN <<Issue("password", "too short")>>
  ELSE IF password.common THEN <<Issue("password", "common")>>
  ELSE <<>>

\* BcryptHasher.Hash.
HashIssues(password) ==
  IF Bytes(password) > bcryptMaxBytes
  THEN <<Issue("password", "too many bytes")>> ELSE <<>>

\* Mutant: New returns at the first failure.
NewIssuesFirst(name, email, password) ==
  IF NameIssues(name) # <<>> THEN NameIssues(name)
  ELSE IF EmailIssues(email) # <<>> THEN EmailIssues(email)
  ELSE IF ValidatePassword(password) # <<>> THEN ValidatePassword(password)
  ELSE HashIssues(password)

\* New: every field is checked before the password is hashed.
NewIssues(name, email, password) ==
  LET invalid == NameIssues(name) \o EmailIssues(email) \o ValidatePassword(password)
  IN  IF invalid # <<>> THEN invalid ELSE HashIssues(password)

\* ListFilter.Resolve, of a limit that was sent.
LimitIssues(limit) ==
  CASE limit < 1            -> <<Issue("limit", "not positive")>>
    [] limit > MaxListLimit -> <<Issue("limit", "too large")>>
    [] OTHER -> <<>>
=============================================================================
