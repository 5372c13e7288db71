---------------------------- MODULE DialogueProofs ----------------------------
(***************************************************************************)
(* Theorems about one client and its account over both adapters: that the  *)
(* two tell the same of every request and of every row, what a client that *)
(* corrects its form as it is told can be told again, and that what is     *)
(* stored is in normal form, for any texts, limits and units of time.      *)
(***************************************************************************)
EXTENDS Dialogue, SequenceTheorems, TLAPS

-----------------------------------------------------------------------------
(* The invariant. *)

AskType ==
  [verb : {"none", "register", "get", "update", "delete", "list", "login"}, id : Ids,
   name : Names \cup {None}, email : Emails \cup {None},
   password : Passwords \cup {None}, limit : Limits \cup {None, NotAnInteger}]

Typed ==
  /\ clock \in Nat
  /\ row \in LiveRow \cup {NoRow, [state |-> "deleted"]}
  /\ pc \in {"idle", "asking", "answered"}
  /\ ask \in AskType
  /\ pc # "idle" => ask.verb # "none"
  /\ ask.verb = "register" => ask.id = "mine"
  /\ ask.id = "empty" => ask.verb \in {"get", "update", "delete"}
  /\ ask.limit = NotAnInteger => ask.verb = "list"

IsForm(a) == a.verb \in {"register", "update"}

Items(s) == {s[i] : i \in DOMAIN s}

\* What REST may say is wrong with a form.
FormIssues(a) ==
  IF a.verb = "register"
  THEN {NewIssues(Filled(a).name, Filled(a).email, Filled(a).password)}
  ELSE {<<>>, UpdateIssues(a)}
         \cup (IF a.name = None /\ a.email = None THEN {<<Issue("body", "empty")>>} ELSE {})

\* The rules for one field find nothing in a form.
Passes(a, field) ==
  CASE field = "name" ->
         (a.verb = "update" /\ a.name = None) \/ NameIssues(Filled(a).name) = <<>>
    [] field = "email" ->
         (a.verb = "update" /\ a.email = None) \/ EmailIssues(Filled(a).email) = <<>>
    [] field = "password" ->
         a.verb = "update" \/ ValidatePassword(Filled(a).password) = <<>>

\* What was not complained of at first has been left as it was, and it was right.
Kept ==
  told # {} /\ "body" \notin Fields(told) =>
    /\ \A field \in {"name", "email", "password"} \ Fields(told) : Passes(ask, field)
    /\ ask.verb = "update" => ask.name # None \/ ask.email # None

Heeded == \A issue \in told : Obeys(ask, issue)

\* How a request for a row that is not the caller's is refused.
Denied == [verdict |-> "FORBIDDEN", issues |-> <<>>, user |-> None, meta |-> None,
           expires |-> None]

Replied ==
  pc = "answered" =>
    /\ IsForm(ask) => reply["rest"].issues \in FormIssues(ask)
    /\ ask.id # "empty" =>
         \A x \in CanCarry(ask), y \in CanCarry(ask) : reply[x] = reply[y]
    /\ ask.verb \in {"update", "delete"} /\ ask.id \in Foreign =>
         \A x \in Adapter : reply[x] = Denied

DialogueInv ==
  /\ Typed
  /\ told # {} => pc # "idle" /\ IsForm(ask)
  /\ Kept /\ Heeded /\ Replied
  /\ StoredIsNormal
  /\ SameRow
-----------------------------------------------------------------------------
(* Times: a stored one is cut to the millisecond, an answered one to the second. *)

LEMMA Division ==
  ASSUME NEW a \in Nat, NEW b \in Nat \ {0}
  PROVE  /\ a \div b \in Nat /\ a % b \in 0 .. b - 1
         /\ a = b * (a \div b) + (a % b)
OBVIOUS

LEMMA Remainder ==
  ASSUME NEW b \in Nat \ {0}, NEW q \in Nat, NEW r \in 0 .. b - 1
  PROVE  (b * q + r) % b = r
<1> DEFINE a == b * q + r
           p == a \div b
           s == a % b
<1>1. a \in Nat
  OBVIOUS
<1>2. p \in Nat /\ s \in 0 .. b - 1 /\ a = b * p + s
  BY <1>1, Division
<1> HIDE DEF p, s
<1>3. b * (p - q) = r - s
  BY <1>2
<1>4. p - q \in Int /\ r - s \in Int /\ r - s < b /\ r - s > -b
  BY <1>2
<1>5. p - q < 1
  BY <1>3, <1>4
<1>6. p - q > -1
  BY <1>3, <1>4
<1> QED
  BY <1>2, <1>3, <1>4, <1>5, <1>6 DEF s

LEMMA Cut ==
  ASSUME NEW b \in Nat \ {0}, NEW q \in Nat, NEW r \in 0 .. b - 1
  PROVE  CutTo(b * q + r, b) = b * q
<1>1. (b * q + r) % b = r
  BY Remainder
<1> QED
  BY <1>1 DEF CutTo

LEMMA CutType ==
  ASSUME NEW t \in Nat, NEW b \in Nat \ {0}
  PROVE  CutTo(t, b) \in Nat
<1>1. t \div b \in Nat /\ t % b \in 0 .. b - 1 /\ t = b * (t \div b) + (t % b)
  BY Division
<1>2. b * (t \div b) \in Nat
  BY <1>1
<1> QED
  BY <1>1, <1>2 DEF CutTo

\* Cutting to a unit first that the other is a multiple of makes no difference.
LEMMA CutTwice ==
  ASSUME NEW t \in Nat, NEW m \in Nat \ {0}, NEW s \in Nat \ {0}, s % m = 0
  PROVE  CutTo(CutTo(t, m), s) = CutTo(t, s)
<1> DEFINE k == s \div m
           q == t \div s
           r == t % s
           e == r % m
<1>1. k \in Nat /\ s = m * k
  BY Division
<1>2. q \in Nat /\ r \in 0 .. s - 1 /\ t = s * q + r
  BY Division
<1>3. e \in 0 .. m - 1 /\ e \in Nat /\ e =< r /\ r \div m \in Nat /\ r = m * (r \div m) + e
  <2>1. r \in Nat
    BY <1>2
  <2>2. r \div m \in Nat /\ e \in 0 .. m - 1 /\ r = m * (r \div m) + e
    BY <2>1, Division
  <2> HIDE DEF r, e
  <2>3. m * (r \div m) >= 0
    BY <2>2
  <2> QED
    BY <2>1, <2>2, <2>3
<1> DEFINE p == k * q + (r \div m)
<1>4. p \in Nat /\ t = m * p + e
  <2> HIDE DEF r, e, k, q
  <2>1. p \in Nat
    BY <1>1, <1>2, <1>3
  <2>2. m * p = m * (k * q) + m * (r \div m)
    BY <1>1, <1>2, <1>3
  <2>3. m * (k * q) = s * q
    BY <1>1, <1>2
  <2> QED
    BY <1>2, <1>3, <2>1, <2>2, <2>3
<1>5. CutTo(t, m) = m * p
  <2> HIDE DEF p, e
  <2> QED
    BY <1>3, <1>4, Cut
<1>6. CutTo(t, m) = s * q + (r - e) /\ r - e \in 0 .. s - 1
  <2> HIDE DEF p, e, r, q, k
  <2>1. m * p = t - e
    BY <1>3, <1>4
  <2> QED
    BY <1>2, <1>3, <1>5, <2>1
<1> HIDE DEF e, r, q
<1>7. CutTo(s * q + (r - e), s) = s * q
  BY <1>2, <1>6, Cut
<1>8. CutTo(t, s) = s * q
  BY <1>2, Cut
<1> QED
  BY <1>6, <1>7, <1>8

-----------------------------------------------------------------------------
(* Issues *)

Reasons ==
  [field : {"id", "body", "name", "email", "password"},
   reason : {"empty", "format", "length", "too long", "too short", "common",
             "too many bytes"}]

LEMMA ItemsOfNone == <<>> \in Seq(Reasons) /\ Items(<<>>) = {}
BY DEF Items

LEMMA ItemsOfOne ==
  ASSUME NEW i \in Reasons, NEW s, s = <<i>>
  PROVE  s \in Seq(Reasons) /\ s # <<>> /\ Items(s) = {i}
BY DEF Items

LEMMA ItemsOfConcat ==
  ASSUME NEW s \in Seq(Reasons), NEW t \in Seq(Reasons)
  PROVE  /\ s \o t \in Seq(Reasons)
         /\ Items(s \o t) = Items(s) \cup Items(t)
         /\ s \o t = <<>> <=> s = <<>> /\ t = <<>>
<1>1. s \o t \in Seq(Reasons) /\ (s \o t = <<>> <=> s = <<>> /\ t = <<>>)
  BY ConcatProperties, ConcatEqualIffEmpty
<1>2. Items(s \o t) = Items(s) \cup Items(t)
  <2> DEFINE u == s \o t
  <2>1. /\ DOMAIN s = 1 .. Len(s) /\ DOMAIN t = 1 .. Len(t) /\ DOMAIN u = 1 .. Len(s) + Len(t)
        /\ Len(s) \in Nat /\ Len(t) \in Nat
    BY <1>1, ConcatProperties, LenProperties
  <2>2. \A i \in 1 .. Len(s) + Len(t) : u[i] = IF i <= Len(s) THEN s[i] ELSE t[i - Len(s)]
    BY ConcatProperties
  <2> HIDE DEF u
  <2>3. ASSUME NEW i \in DOMAIN u  PROVE u[i] \in Items(s) \cup Items(t)
    <3>1. i \in 1 .. Len(s) + Len(t) /\ i \in Int
      BY <2>1
    <3>2. CASE i <= Len(s)
      <4>1. i \in DOMAIN s /\ u[i] = s[i]
        BY <2>1, <2>2, <3>1, <3>2
      <4> QED
        BY <4>1 DEF Items
    <3>3. CASE ~(i <= Len(s))
      <4>1. i - Len(s) \in DOMAIN t /\ u[i] = t[i - Len(s)]
        BY <2>1, <2>2, <3>1, <3>3
      <4> QED
        BY <4>1 DEF Items
    <3> QED
      BY <3>2, <3>3
  <2>4. ASSUME NEW i \in DOMAIN s  PROVE s[i] \in Items(u)
    <3>1. i \in 1 .. Len(s) + Len(t) /\ i <= Len(s)
      BY <2>1
    <3>2. i \in DOMAIN u /\ u[i] = s[i]
      BY <2>1, <2>2, <3>1
    <3> QED
      BY <3>2 DEF Items
  <2>5. ASSUME NEW j \in DOMAIN t  PROVE t[j] \in Items(u)
    <3>1. j + Len(s) \in DOMAIN u /\ u[j + Len(s)] = t[j]
      BY <2>1, <2>2
    <3> QED
      BY <3>1 DEF Items
  <2>6. Items(u) \subseteq Items(s) \cup Items(t)
    BY <2>3 DEF Items
  <2>7. Items(s) \subseteq Items(u) /\ Items(t) \subseteq Items(u)
    BY <2>4, <2>5 DEF Items
  <2>8. Items(u) = Items(s) \cup Items(t)
    BY <2>6, <2>7
  <2> QED
    BY <2>8 DEF u
<1> QED
  BY <1>1, <1>2

LEMMA NameRule ==
  ASSUME NEW n \in NameText
  PROVE  /\ NameIssues(n) \in Seq(Reasons)
         /\ NameIssues(n) = <<>> <=> n.runes \in 1..nameMaxRunes
         /\ Items(NameIssues(n)) =
              IF n.runes \in 1..nameMaxRunes THEN {} ELSE {Issue("name", "length")}
<1>1. Issue("name", "length") \in Reasons
  BY DEF Issue, Reasons
<1>2. CASE n.runes \in 1..nameMaxRunes
  <2>1. NameIssues(n) = <<>>
    BY <1>2 DEF NameIssues
  <2> QED
    BY <1>2, <2>1, ItemsOfNone
<1>3. CASE n.runes \notin 1..nameMaxRunes
  <2>1. NameIssues(n) = <<Issue("name", "length")>>
    BY <1>3 DEF NameIssues
  <2> QED
    BY <1>1, <1>3, <2>1, ItemsOfOne
<1> QED
  BY <1>2, <1>3

LEMMA EmailRule ==
  ASSUME NEW e \in EmailText
  PROVE  /\ EmailIssues(e) \in Seq(Reasons)
         /\ EmailIssues(e) = <<>> <=>
              e.len # 0 /\ ~(e.len > emailMaxLen) /\ e.form = "addr"
         /\ Items(EmailIssues(e)) =
              IF e.len = 0 THEN {Issue("email", "empty")}
              ELSE IF e.len > emailMaxLen THEN {Issue("email", "too long")}
              ELSE IF e.form # "addr" THEN {Issue("email", "format")} ELSE {}
<1>1. /\ Issue("email", "empty") \in Reasons /\ Issue("email", "too long") \in Reasons
      /\ Issue("email", "format") \in Reasons
  BY DEF Issue, Reasons
<1>2. CASE e.len = 0
  <2>1. EmailIssues(e) = <<Issue("email", "empty")>>
    BY <1>2 DEF EmailIssues
  <2> QED
    BY <1>1, <1>2, <2>1, ItemsOfOne
<1>3. CASE e.len # 0 /\ e.len > emailMaxLen
  <2>1. EmailIssues(e) = <<Issue("email", "too long")>>
    BY <1>3 DEF EmailIssues
  <2> QED
    BY <1>1, <1>3, <2>1, ItemsOfOne
<1>4. CASE e.len # 0 /\ ~(e.len > emailMaxLen) /\ e.form # "addr"
  <2>1. EmailIssues(e) = <<Issue("email", "format")>>
    BY <1>4 DEF EmailIssues
  <2> QED
    BY <1>1, <1>4, <2>1, ItemsOfOne
<1>5. CASE e.len # 0 /\ ~(e.len > emailMaxLen) /\ e.form = "addr"
  <2>1. EmailIssues(e) = <<>>
    BY <1>5 DEF EmailIssues
  <2> QED
    BY <1>5, <2>1, ItemsOfNone
<1> QED
  BY <1>2, <1>3, <1>4, <1>5

LEMMA PasswordRule ==
  ASSUME NEW p \in PasswordText
  PROVE  /\ ValidatePassword(p) \in Seq(Reasons)
         /\ ValidatePassword(p) = <<>> <=> ~(p.runes < passwordMinRunes) /\ ~p.common
         /\ Items(ValidatePassword(p)) =
              IF p.runes < passwordMinRunes THEN {Issue("password", "too short")}
              ELSE IF p.common THEN {Issue("password", "common")} ELSE {}
<1>1. Issue("password", "too short") \in Reasons /\ Issue("password", "common") \in Reasons
  BY DEF Issue, Reasons
<1>2. CASE p.runes < passwordMinRunes
  <2>1. ValidatePassword(p) = <<Issue("password", "too short")>>
    BY <1>2 DEF ValidatePassword
  <2> QED
    BY <1>1, <1>2, <2>1, ItemsOfOne
<1>3. CASE ~(p.runes < passwordMinRunes) /\ p.common
  <2>1. ValidatePassword(p) = <<Issue("password", "common")>>
    BY <1>3 DEF ValidatePassword
  <2> QED
    BY <1>1, <1>3, <2>1, ItemsOfOne
<1>4. CASE ~(p.runes < passwordMinRunes) /\ ~p.common
  <2>1. ValidatePassword(p) = <<>>
    BY <1>4 DEF ValidatePassword
  <2> QED
    BY <1>4, <2>1, ItemsOfNone
<1> QED
  BY <1>2, <1>3, <1>4
-----------------------------------------------------------------------------
(* What a client may ask, and what an adapter decodes from it. *)

LEMMA AskFields ==
  ASSUME NEW a \in Asks
  PROVE  /\ a \in AskType
         /\ a.verb # "none"
         /\ a.verb = "register" => a.id = "mine"
         /\ a.id = "empty" => a.verb \in {"get", "update", "delete"}
         /\ a.limit = NotAnInteger => a.verb = "list"
BY DialogueAssumption DEF Asks, Forms, Bare, AskType, Ids

LEMMA FilledFields ==
  ASSUME NEW a \in AskType
  PROVE  LET f == Filled(a) IN
         /\ f.verb = a.verb /\ f.id = a.id /\ f.limit = a.limit
         /\ f.name = OrZero(a, "name") /\ f.email = OrZero(a, "email")
         /\ f.password = OrZero(a, "password")
         /\ f.name \in NameText /\ f.email \in EmailText /\ f.password \in PasswordText
         /\ a.name # None => f.name = a.name
         /\ a.email # None => f.email = a.email
         /\ a.password # None => f.password = a.password
<1>1. /\ OrZero(a, "name") \in NameText
      /\ a.name # None => OrZero(a, "name") = a.name
  <2>1. Zero.name \in NameText
    BY DEF Zero, NameText
  <2> QED
    BY <2>1, DialogueAssumption DEF OrZero, AskType
<1>2. /\ OrZero(a, "email") \in EmailText
      /\ a.email # None => OrZero(a, "email") = a.email
  <2>1. Zero.email \in EmailText
    BY DEF Zero, EmailText
  <2> QED
    BY <2>1, DialogueAssumption DEF OrZero, AskType
<1>3. /\ OrZero(a, "password") \in PasswordText
      /\ a.password # None => OrZero(a, "password") = a.password
  <2>1. Zero.password \in PasswordText
    BY DEF Zero, PasswordText
  <2> QED
    BY <2>1, DialogueAssumption DEF OrZero, AskType
<1>4. LET f == Filled(a) IN
      /\ f.verb = a.verb /\ f.id = a.id /\ f.limit = a.limit
      /\ f.name = OrZero(a, "name") /\ f.email = OrZero(a, "email")
      /\ f.password = OrZero(a, "password")
  BY DEF Filled, AskType
<1> QED
  BY <1>1, <1>2, <1>3, <1>4

\* New names every field it does not accept, and the hasher comes after it.
LEMMA NewIssuesOf ==
  ASSUME NEW n \in NameText, NEW e \in EmailText, NEW p \in PasswordText
  PROVE  LET invalid == Items(NameIssues(n)) \cup Items(EmailIssues(e))
                          \cup Items(ValidatePassword(p))
             none == NameIssues(n) = <<>> /\ EmailIssues(e) = <<>> /\ ValidatePassword(p) = <<>>
         IN  /\ ~none => /\ Items(NewIssues(n, e, p)) = invalid
                         /\ NewIssues(n, e, p) # <<>>
             /\ none => NewIssues(n, e, p) = HashIssues(p)
<1> DEFINE s == NameIssues(n)
           t == EmailIssues(e)
           u == ValidatePassword(p)
<1>1. s \in Seq(Reasons) /\ t \in Seq(Reasons) /\ u \in Seq(Reasons)
  BY NameRule, EmailRule, PasswordRule
<1>2. NewIssues(n, e, p) = IF (s \o t) \o u # <<>> THEN (s \o t) \o u ELSE HashIssues(p)
  BY DEF NewIssues
<1> HIDE DEF s, t, u
<1> DEFINE v == s \o t
<1>3. /\ v \in Seq(Reasons) /\ Items(v) = Items(s) \cup Items(t)
      /\ v = <<>> <=> s = <<>> /\ t = <<>>
  BY <1>1, ItemsOfConcat
<1> HIDE DEF v
<1>4. Items(v \o u) = Items(v) \cup Items(u) /\ (v \o u = <<>> <=> v = <<>> /\ u = <<>>)
  BY <1>1, <1>3, ItemsOfConcat
<1> QED
  BY <1>2, <1>3, <1>4 DEF s, t, u, v

LEMMA UpdateIssuesOf ==
  ASSUME NEW a \in AskType
  PROVE  /\ UpdateIssues(a) \in Seq(Reasons)
         /\ Items(UpdateIssues(a)) = (IF a.name = None THEN {} ELSE Items(NameIssues(a.name)))
                               \cup (IF a.email = None THEN {} ELSE Items(EmailIssues(a.email)))
         /\ UpdateIssues(a) = <<>> <=> /\ a.name = None \/ NameIssues(a.name) = <<>>
                                       /\ a.email = None \/ EmailIssues(a.email) = <<>>
<1> DEFINE s == IF a.name = None THEN <<>> ELSE NameIssues(a.name)
           t == IF a.email = None THEN <<>> ELSE EmailIssues(a.email)
<1>1. /\ a.name # None => a.name \in NameText
      /\ a.email # None => a.email \in EmailText
  BY DialogueAssumption DEF AskType
<1>2. /\ s \in Seq(Reasons)
      /\ Items(s) = IF a.name = None THEN {} ELSE Items(NameIssues(a.name))
      /\ s = <<>> <=> (a.name = None \/ NameIssues(a.name) = <<>>)
  BY <1>1, NameRule, ItemsOfNone
<1>3. /\ t \in Seq(Reasons)
      /\ Items(t) = IF a.email = None THEN {} ELSE Items(EmailIssues(a.email))
      /\ t = <<>> <=> (a.email = None \/ EmailIssues(a.email) = <<>>)
  BY <1>1, EmailRule, ItemsOfNone
<1>4. UpdateIssues(a) = s \o t
  BY DEF UpdateIssues
<1> HIDE DEF s, t
<1> QED
  BY <1>2, <1>3, <1>4, ItemsOfConcat
-----------------------------------------------------------------------------
(* The use case *)

Rows == LiveRow \cup {NoRow, [state |-> "deleted"]}

Normal(w) ==
  w.state = "live" =>
    /\ NameIssues(w.name) = <<>> /\ ~w.name.pad
    /\ EmailIssues(w.email) = <<>> /\ ~w.email.pad /\ ~w.email.upper

\* A result leaves a row that is known to the client, if it is live, and in normal form.
Sound(r) ==
  /\ r.row \in Rows
  /\ r.user # None => r.user \in LiveRow /\ toUserResponse(r.row) = toUserResponse(r.user)
  /\ r.user = None => r.row = row \/ r.row.state # "live"
  /\ Normal(row) => Normal(r.row)

LEMMA RefusedIsSound ==
  ASSUME row \in Rows, NEW verdict, NEW issues
  PROVE  Sound(Refused(verdict, issues))
BY DEF Sound, Refused

LEMMA RowReadIsSound ==
  ASSUME row \in Rows, Live
  PROVE  Sound(Done(row, row))
<1>1. row \in LiveRow
  BY DEF Live, Rows, NoRow
<1> QED
  BY <1>1, DialogueAssumption DEF Sound, Done

LEMMA NormalForms ==
  /\ \A n \in NameText : /\ normalizeName(n) \in NameText /\ ~normalizeName(n).pad
                         /\ NameIssues(normalizeName(n)) = NameIssues(n)
  /\ \A e \in EmailText : /\ NewEmail(e) \in EmailText
                          /\ ~NewEmail(e).pad /\ ~NewEmail(e).upper
                          /\ EmailIssues(NewEmail(e)) = EmailIssues(e)
<1>1. ASSUME NEW n \in NameText
      PROVE  /\ normalizeName(n) \in NameText /\ ~normalizeName(n).pad
             /\ NameIssues(normalizeName(n)) = NameIssues(n)
  <2>1. normalizeName(n) \in NameText /\ normalizeName(n).runes = n.runes
    BY DEF normalizeName, NameText
  <2>2. ~normalizeName(n).pad
    BY DEF normalizeName, NameText
  <2> QED
    BY <2>1, <2>2 DEF NameIssues
<1>2. ASSUME NEW e \in EmailText
      PROVE  /\ NewEmail(e) \in EmailText
             /\ ~NewEmail(e).pad /\ ~NewEmail(e).upper
             /\ EmailIssues(NewEmail(e)) = EmailIssues(e)
  <2>1. NewEmail(e) \in EmailText /\ NewEmail(e).len = e.len /\ NewEmail(e).form = e.form
    BY DEF NewEmail, EmailText
  <2>2. ~NewEmail(e).pad /\ ~NewEmail(e).upper
    BY DEF NewEmail, EmailText
  <2> QED
    BY <2>1, <2>2 DEF EmailIssues
<1> QED
  BY <1>1, <1>2

\* Create answers with the entity, whose times are exact, and stores them cut.
LEMMA CreateIsSound ==
  ASSUME row \in Rows, clock \in Nat, NEW in,
         in.name \in NameText, in.email \in EmailText, in.password \in PasswordText
  PROVE  Sound(Create(in))
<1> DEFINE n == normalizeName(in.name)
           e == NewEmail(in.email)
           user == Entity(n, e, clock, clock)
           invalid == NewIssues(in.name, in.email, in.password)
<1>1. CASE invalid # <<>>
  BY <1>1, RefusedIsSound DEF Create, Invalid
<1>2. CASE invalid = <<>>
  <2>1. Create(in) = Done(Stored(user), user)
    BY <1>2 DEF Create
  <2>2. n \in NameText /\ ~n.pad /\ e \in EmailText /\ ~e.pad /\ ~e.upper
    BY NormalForms
  <2>3. NameIssues(n) = <<>> /\ EmailIssues(e) = <<>>
    BY <1>2, NewIssuesOf, NormalForms DEF HashIssues
  <2> HIDE DEF n, e
  <2>4. user \in LiveRow
    BY <2>2 DEF Entity, LiveRow
  <2>5. CutTo(clock, Milli) \in Nat
    BY CutType, DialogueAssumption
  <2>6. Stored(user) = Entity(n, e, CutTo(clock, Milli), CutTo(clock, Milli))
    <3>1. user = [state |-> "live", name |-> n, email |-> e, created |-> clock,
                  updated |-> clock]
      BY DEF Entity
    <3> HIDE DEF user
    <3>2. user.created = clock /\ user.updated = clock
      BY <3>1
    <3>3. Stored(user) = [user EXCEPT !.created = CutTo(clock, Milli),
                                      !.updated = CutTo(clock, Milli)]
      BY <3>2 DEF Stored
    <3> QED
      BY <3>1, <3>3 DEF Entity
  <2>7. Stored(user) \in LiveRow
    BY <2>2, <2>5, <2>6 DEF Entity, LiveRow
  <2>8. toUserResponse(Stored(user)) = toUserResponse(user)
    <3>1. CutTo(CutTo(clock, Milli), Second) = CutTo(clock, Second)
      BY CutTwice, DialogueAssumption
    <3> QED
      BY <2>6, <3>1 DEF toUserResponse, formatTime, Entity
  <2>9. Normal(Stored(user))
    BY <2>2, <2>3, <2>6 DEF Normal, Entity
  <2>10. user # None
    BY <2>4, DialogueAssumption
  <2> HIDE DEF user
  <2> QED
    BY <2>1, <2>4, <2>7, <2>8, <2>9, <2>10 DEF Sound, Done, Rows
<1> QED
  BY <1>1, <1>2

LEMMA FindIsSound ==
  ASSUME row \in Rows, NEW id
  PROVE  Sound(Find(id))
<1>1. CASE id = "mine" /\ Live
  <2>1. Find(id) = Done(row, row)
    BY <1>1 DEF Find
  <2> QED
    BY <1>1, <2>1, RowReadIsSound
<1>2. CASE id = "other"
  <2>1. Find(id) = Done(row, None)
    BY <1>2 DEF Find
  <2> QED
    BY <2>1 DEF Sound, Done
<1>3. CASE ~(id = "mine" /\ Live) /\ id # "other"
  BY <1>3, RefusedIsSound DEF Find, Invalid
<1> QED
  BY <1>1, <1>2, <1>3

LEMMA AmendIsSound ==
  ASSUME row \in Rows, clock \in Nat, NEW in \in AskType, in.id = "mine"
  PROVE  Sound(Amend(in))
<1>1. CASE in.name = None /\ in.email = None
  BY <1>1, RefusedIsSound DEF Amend, Invalid
<1>2. CASE ~(in.name = None /\ in.email = None) /\ Find(in.id).verdict # "ok"
  BY <1>2, FindIsSound DEF Amend
<1>3. CASE ~(in.name = None /\ in.email = None) /\ Find(in.id).verdict = "ok"
           /\ UpdateIssues(in) # <<>>
  BY <1>3, RefusedIsSound DEF Amend, Invalid
<1>4. CASE ~(in.name = None /\ in.email = None) /\ Find(in.id).verdict = "ok"
           /\ UpdateIssues(in) = <<>>
  <2>1. Amend(in) = Done(Patched(in), Patched(in))
    BY <1>4 DEF Amend
  <2>2. row \in LiveRow
    <3>1. Live
      BY <1>4 DEF Find, Refused
    <3> QED
      BY <3>1 DEF Live, Rows, NoRow
  <2> DEFINE n == IF in.name = None THEN row.name ELSE normalizeName(in.name)
             e == IF in.email = None THEN row.email ELSE NewEmail(in.email)
             w == Patched(in)
  <2>3. /\ n \in NameText /\ e \in EmailText
        /\ Normal(row) => /\ NameIssues(n) = <<>> /\ ~n.pad
                          /\ EmailIssues(e) = <<>> /\ ~e.pad /\ ~e.upper
    <3>1. row.name \in NameText /\ row.email \in EmailText /\ row.state = "live"
      BY <2>2 DEF LiveRow
    <3>2. /\ in.name # None => in.name \in NameText /\ NameIssues(in.name) = <<>>
          /\ in.email # None => in.email \in EmailText /\ EmailIssues(in.email) = <<>>
      BY <1>4, UpdateIssuesOf, DialogueAssumption DEF AskType
    <3>3. CASE in.name = None /\ in.email # None
      BY <3>1, <3>2, <3>3, NormalForms DEF Normal
    <3>4. CASE in.name # None /\ in.email = None
      BY <3>1, <3>2, <3>4, NormalForms DEF Normal
    <3>5. CASE in.name # None /\ in.email # None
      BY <3>2, <3>5, NormalForms
    <3> QED
      BY <1>4, <3>3, <3>4, <3>5
  <2>4. CutTo(clock, Milli) \in Nat
    BY CutType, DialogueAssumption
  <2>5. w = [row EXCEPT !.name = n, !.email = e, !.updated = CutTo(clock, Milli)]
    BY DEF Patched
  <2> HIDE DEF n, e, w
  <2>6. w \in LiveRow /\ w.name = n /\ w.email = e
    BY <2>2, <2>3, <2>4, <2>5 DEF LiveRow
  <2>7. Normal(row) => Normal(w)
    BY <2>3, <2>6 DEF Normal
  <2>8. w # None
    BY <2>6, DialogueAssumption
  <2> QED
    BY <2>1, <2>6, <2>7, <2>8 DEF Sound, Done, Rows, w
<1> QED
  BY <1>1, <1>2, <1>3, <1>4

\* An update is sent as it is, and so is everything but a registration.
LEMMA Decoded ==
  ASSUME NEW a \in AskType
  PROVE  /\ \A x \in Adapter : Decode(x, a) = toInput(a)
         /\ toInput(a) = IF a.verb = "register" THEN Filled(a) ELSE a
         /\ toInput(a).verb = a.verb /\ toInput(a).id = a.id
<1>1. toInput(a) = IF a.verb = "register" THEN Filled(a) ELSE a
  BY DEF toInput
<1>2. toInput(a).verb = a.verb /\ toInput(a).id = a.id
  BY <1>1, FilledFields
<1> QED
  BY <1>1, <1>2 DEF Decode, toInput, toMessage

LEMMA UseCaseOf ==
  ASSUME NEW a \in AskType, a.verb # "none", NEW next
  PROVE  LET r == Handle(toInput(a), next) IN
         /\ a.verb = "register" => r = Create(Filled(a))
         /\ a.verb = "get"      => r = Get(a.id)
         /\ a.verb = "update"   => r = Update(a)
         /\ a.verb = "delete"   => r = Delete(a.id)
         /\ a.verb = "list"     => r = List(a, next)
         /\ a.verb = "login"    => r = Login
<1> DEFINE in == toInput(a)
<1>1. in.verb = a.verb /\ in = IF a.verb = "register" THEN Filled(a) ELSE a
  BY Decoded
<1> HIDE DEF in
<1>2. a.verb = "register" => Handle(in, next) = Create(Filled(a))
  BY <1>1 DEF Handle
<1>3. a.verb = "get" => Handle(in, next) = Get(a.id)
  BY <1>1 DEF Handle
<1>4. a.verb = "update" => Handle(in, next) = Update(a)
  BY <1>1 DEF Handle
<1>5. a.verb = "delete" => Handle(in, next) = Delete(a.id)
  BY <1>1 DEF Handle
<1>6. a.verb = "list" => Handle(in, next) = List(a, next)
  BY <1>1 DEF Handle
<1>7. a.verb = "login" => Handle(in, next) = Login
  BY <1>1 DEF Handle
<1> QED
  BY <1>2, <1>3, <1>4, <1>5, <1>6, <1>7 DEF in

LEMMA HandleIsSound ==
  ASSUME row \in Rows, clock \in Nat, NEW a \in AskType, a.verb # "none", NEW next
  PROVE  Sound(Handle(toInput(a), next))
<1> DEFINE r == Handle(toInput(a), next)
<1>1. CASE a.verb = "register"
  BY <1>1, UseCaseOf, FilledFields, CreateIsSound
<1>2. CASE a.verb = "get"
  BY <1>2, UseCaseOf, FindIsSound, RefusedIsSound DEF Get, EmptyId, Invalid
<1>3. CASE a.verb = "update"
  <2>1. Sound(EmptyId) /\ Sound(Forbidden)
    BY RefusedIsSound DEF EmptyId, Invalid, Forbidden
  <2> QED
    BY <1>3, <2>1, UseCaseOf, AmendIsSound DEF Update, requireSelf
<1>4. CASE a.verb = "delete"
  <2>1. Sound(EmptyId) /\ Sound(Forbidden) /\ Sound(Find(a.id))
    BY RefusedIsSound, FindIsSound DEF EmptyId, Invalid, Forbidden
  <2>2. Sound(Done([state |-> "deleted"], None))
    BY DEF Sound, Done, Rows, Normal
  <2> QED
    BY <1>4, <2>1, <2>2, UseCaseOf DEF Delete
<1>5. CASE a.verb = "list"
  <2> DEFINE limit == IF a.limit = None THEN DefaultListLimit ELSE a.limit
  <2>1. List(a, next) =
          IF LimitIssues(limit) # <<>> THEN Invalid(LimitIssues(limit))
          ELSE [Done(row, None) EXCEPT !.page = [limit |-> limit, next |-> next]]
    BY DEF List
  <2>2. Sound(Invalid(LimitIssues(limit)))
    BY RefusedIsSound DEF Invalid
  <2>3. Sound([Done(row, None) EXCEPT !.page = [limit |-> limit, next |-> next]])
    BY DEF Sound, Done
  <2> QED
    BY <1>5, <2>1, <2>2, <2>3, UseCaseOf
<1>6. CASE a.verb = "login"
  BY <1>6, UseCaseOf, RowReadIsSound, RefusedIsSound DEF Login
<1> QED
  BY <1>1, <1>2, <1>3, <1>4, <1>5, <1>6 DEF AskType

-----------------------------------------------------------------------------
(* The answers *)

LEMMA TwinAnswers ==
  ASSUME NEW a \in AskType, a.id # "empty", NEW next,
         NEW x \in CanCarry(a), NEW y \in CanCarry(a)
  PROVE  Answer(x, a, next) = Answer(y, a, next)
<1>1. Decode("rest", a) = Decode("grpc", a)
  BY Decoded DEF Adapter
<1>2. \A u : ToUser("rest", u) = ToUser("grpc", u)
  BY DEF ToUser, toUserResponse, toProto, formatTime
<1>3. \A p : ToMeta("rest", p) = ToMeta("grpc", p)
  BY DEF ToMeta, toListMeta, toListProto
<1>4. Serve("rest", a, next) = Serve("grpc", a, next) \/ a.limit = NotAnInteger
  BY <1>1 DEF Serve, listFilterIssues
<1>5. Answer("rest", a, next) = Answer("grpc", a, next) \/ a.limit = NotAnInteger
  BY <1>2, <1>3, <1>4 DEF Answer, Encode
<1> QED
  BY <1>5 DEF CanCarry, Adapter

\* Only a list is answered by the decoding alone.
LEMMA ServeOf ==
  ASSUME NEW x \in Adapter, NEW a \in AskType, NEW next
  PROVE  /\ a.limit # NotAnInteger /\ ~(x = "rest" /\ a.id = "empty") =>
              Serve(x, a, next) = Handle(toInput(a), next)
         /\ \/ Serve(x, a, next) = Handle(toInput(a), next)
            \/ \E verdict, issues : Serve(x, a, next) = Refused(verdict, issues)
<1>1. Decode(x, a) = toInput(a)
  BY Decoded
<1>2. CASE x = "rest" /\ a.id = "empty"
  BY <1>2 DEF Serve
<1>3. CASE ~(x = "rest" /\ a.id = "empty") /\ a.limit # NotAnInteger
  BY <1>1, <1>3 DEF Serve, listFilterIssues
<1>4. CASE ~(x = "rest" /\ a.id = "empty") /\ a.limit = NotAnInteger
  BY <1>1, <1>4 DEF Serve, Invalid
<1> QED
  BY <1>2, <1>3, <1>4

LEMMA AnswerOf ==
  ASSUME NEW x \in Adapter, NEW a \in AskType, NEW next
  PROVE  LET r == Serve(x, a, next)
         IN  /\ Answer(x, a, next) = Encode(x, a.verb, r)
             /\ Answer(x, a, next).issues = r.issues
             /\ Answer(x, a, next).user =
                  IF r.user = None THEN None ELSE toUserResponse(r.user)
<1>1. \A u : ToUser(x, u) = toUserResponse(u)
  BY DEF ToUser, toUserResponse, toProto, formatTime
<1> QED
  BY <1>1 DEF Answer, Encode

LEMMA ForeignAnswer ==
  ASSUME NEW x \in Adapter, NEW a \in AskType, a.verb \in {"update", "delete"},
         a.id \in Foreign, a.limit # NotAnInteger, NEW next
  PROVE  Answer(x, a, next) = Denied
<1>1. a.id \notin {"empty", "mine"}
  BY DEF Foreign
<1>2. Handle(toInput(a), next) = Forbidden
  BY <1>1, UseCaseOf DEF Update, Delete, requireID, requireSelf
<1>3. Answer(x, a, next) = Encode(x, a.verb, Forbidden)
  BY <1>1, <1>2, AnswerOf, ServeOf
<1> QED
  BY <1>3 DEF Encode, Forbidden, Refused, Denied

LEMMA FormAnswer ==
  ASSUME NEW a \in AskType, IsForm(a), NEW next, a.limit # NotAnInteger,
         a.verb = "register" => a.id = "mine"
  PROVE  Answer("rest", a, next).issues \in FormIssues(a)
<1>1. CASE a.verb = "register"
  <2>1. Answer("rest", a, next).issues = Create(Filled(a)).issues
    BY <1>1, AnswerOf, ServeOf, UseCaseOf DEF Adapter
  <2>2. Create(Filled(a)).issues =
          NewIssues(Filled(a).name, Filled(a).email, Filled(a).password)
    BY DEF Create, Invalid, Refused, Done
  <2> QED
    BY <1>1, <2>1, <2>2 DEF FormIssues
<1>2. CASE a.verb = "update" /\ a.id = "empty"
  BY <1>2, AnswerOf DEF Adapter, Serve, Refused, FormIssues
<1>3. CASE a.verb = "update" /\ a.id # "empty"
  <2>1. Answer("rest", a, next).issues = Update(a).issues
    BY <1>3, AnswerOf, ServeOf, UseCaseOf DEF Adapter
  <2>2. CASE a.id # "mine"
    BY <1>3, <2>1, <2>2 DEF Update, requireID, requireSelf, Forbidden, Refused, FormIssues
  <2>3. CASE a.id = "mine"
    <3>1. Update(a) = Amend(a)
      BY <2>3 DEF Update, requireID, requireSelf
    <3>2. Find(a.id).verdict # "ok" => Find(a.id).issues = <<>>
      BY <2>3 DEF Find, Refused, Done
    <3> QED
      BY <1>3, <2>1, <3>1, <3>2 DEF Amend, Invalid, Refused, Done, FormIssues
  <2> QED
    BY <2>2, <2>3
<1> QED
  BY <1>1, <1>2, <1>3 DEF IsForm
-----------------------------------------------------------------------------
(* What is wrong with a form, and what it takes to put it right. *)

TooManyBytes == Issue("password", "too many bytes")

\* The one issue that heeding does not remove.
Unheedable(a, issue) ==
  /\ issue = Issue("email", "too long")
  /\ a.email.runes <= emailMaxLen /\ emailMaxLen < a.email.len

LEMMA FieldOfIssue ==
  \A field, reason : /\ Issue(field, reason).field = field
                     /\ Issue(field, reason).reason = reason
BY DEF Issue

\* An issue is about its field, and a form that obeys it has nothing of the kind.
LEMMA NameIssueMeans ==
  ASSUME NEW a \in AskType, IsForm(a), ~(a.verb = "update" /\ a.name = None)
  PROVE  /\ \A i \in Items(NameIssues(Filled(a).name)) : i.field = "name" /\ ~Obeys(a, i)
         /\ Items(NameIssues(Filled(a).name)) = {} <=> Passes(a, "name")
<1> DEFINE n == Filled(a).name
           i == Issue("name", "length")
<1>1. n \in NameText
  BY FilledFields
<1>2. i.field = "name"
  BY FieldOfIssue
<1>3. Obeys(a, i) <=> n.runes \in 1..nameMaxRunes
  BY <1>2 DEF Obeys
<1>4. Passes(a, "name") <=> NameIssues(n) = <<>>
  BY DEF Passes
<1> HIDE DEF n, i
<1> QED
  BY <1>1, <1>2, <1>3, <1>4, NameRule DEF n, i

LEMMA EmailIssueMeans ==
  ASSUME NEW a \in AskType, IsForm(a), ~(a.verb = "update" /\ a.email = None)
  PROVE  /\ \A i \in Items(EmailIssues(Filled(a).email)) :
              i.field = "email" /\ (~Obeys(a, i) \/ Unheedable(a, i))
         /\ Items(EmailIssues(Filled(a).email)) = {} <=> Passes(a, "email")
<1> DEFINE e == Filled(a).email
<1>1. e \in EmailText /\ e.len \in Nat /\ e.runes \in Nat
  BY FilledFields DEF EmailText
<1>2. Passes(a, "email") <=> EmailIssues(e) = <<>>
  BY DEF Passes
<1>3. ASSUME NEW i, i.field = "email", Obeys(a, i)
      PROVE  /\ i.reason = "empty"    => e.len > 0
             /\ i.reason = "too long" => e.runes <= emailMaxLen
             /\ i.reason = "format"   => e.form = "addr"
  BY <1>3 DEF Obeys
<1>6. e.len # 0 => e = a.email
  <2>1. a.email # None => e = a.email
    BY FilledFields
  <2>2. a.email = None => e = Zero.email /\ Zero.email.len = 0
    BY FilledFields DEF OrZero, Zero
  <2> QED
    BY <2>1, <2>2
<1> HIDE DEF e
<1>4. ASSUME NEW i \in Items(EmailIssues(e))
      PROVE  i.field = "email" /\ (~Obeys(a, i) \/ Unheedable(a, i))
  <2>1. CASE e.len = 0 /\ i = Issue("email", "empty")
    <3>1. i.field = "email" /\ i.reason = "empty"
      BY <2>1, FieldOfIssue
    <3>2. ~(e.len > 0)
      BY <2>1
    <3> QED
      BY <1>3, <3>1, <3>2
  <2>2. CASE e.len > emailMaxLen /\ i = Issue("email", "too long")
    <3>1. i.field = "email" /\ i.reason = "too long"
      BY <2>2, FieldOfIssue
    <3>2. e = a.email /\ 254 < a.email.len
      <4>1. e.len > 254 /\ e.len \in Nat
        BY <1>1, <2>2 DEF emailMaxLen
      <4>2. e.len # 0
        BY <4>1
      <4>3. 254 < e.len
        BY <4>1
      <4> QED
        BY <1>6, <4>2, <4>3
    <3>3. CASE e.runes <= emailMaxLen
      <4>1. Unheedable(a, i)
        BY <2>2, <3>2, <3>3 DEF Unheedable, emailMaxLen
      <4> QED
        BY <3>1, <4>1
    <3>4. CASE ~(e.runes <= emailMaxLen)
      BY <1>3, <3>1, <3>4
    <3> QED
      BY <3>3, <3>4
  <2>3. CASE e.form # "addr" /\ i = Issue("email", "format")
    <3>1. i.field = "email" /\ i.reason = "format"
      BY <2>3, FieldOfIssue
    <3> QED
      BY <1>3, <2>3, <3>1
  <2>4. \/ e.len = 0 /\ i = Issue("email", "empty")
        \/ e.len > emailMaxLen /\ i = Issue("email", "too long")
        \/ e.form # "addr" /\ i = Issue("email", "format")
    BY <1>1, <1>4, EmailRule
  <2> QED
    BY <2>1, <2>2, <2>3, <2>4
<1>5. Items(EmailIssues(e)) = {} <=> EmailIssues(e) = <<>>
  BY <1>1, EmailRule
<1> QED
  BY <1>2, <1>4, <1>5 DEF e

LEMMA PasswordIssueMeans ==
  ASSUME NEW a \in AskType, a.verb = "register"
  PROVE  LET p == Filled(a).password IN
         /\ \A i \in Items(ValidatePassword(p)) : i.field = "password" /\ ~Obeys(a, i)
         /\ Items(ValidatePassword(p)) = {} <=> Passes(a, "password")
         /\ \A i \in Items(HashIssues(p)) : i = TooManyBytes /\ ~Obeys(a, i)
<1> DEFINE p == Filled(a).password
<1>1. p \in PasswordText /\ p.runes \in Nat /\ p.width \in 1..4
  BY FilledFields DEF PasswordText
<1>2. Bytes(p) \in Int
  BY <1>1 DEF Bytes
<1>3. Passes(a, "password") <=> ValidatePassword(p) = <<>>
  BY DEF Passes
<1>4. ASSUME NEW i, i.field = "password", Obeys(a, i)
      PROVE  /\ i.reason = "too short" => p.runes >= passwordMinRunes
             /\ i.reason = "common"    => ~p.common
             /\ i.reason = "too many bytes" => Bytes(p) <= bcryptMaxBytes
  BY <1>4 DEF Obeys
<1> HIDE DEF p
<1>5. ASSUME NEW i \in Items(ValidatePassword(p))  PROVE i.field = "password" /\ ~Obeys(a, i)
  <2>1. CASE p.runes < passwordMinRunes /\ i = Issue("password", "too short")
    <3>1. i.field = "password" /\ i.reason = "too short"
      BY <2>1, FieldOfIssue
    <3>2. ~(p.runes >= passwordMinRunes)
      <4>1. p.runes \in Int
        BY <1>1
      <4>2. p.runes < 8
        BY <2>1 DEF passwordMinRunes
      <4>3. ~(p.runes >= 8)
        BY <4>1, <4>2
      <4> QED
        BY <4>3 DEF passwordMinRunes
    <3> QED
      BY <1>4, <3>1, <3>2
  <2>2. CASE p.common /\ i = Issue("password", "common")
    <3>1. i.field = "password" /\ i.reason = "common"
      BY <2>2, FieldOfIssue
    <3> QED
      BY <1>4, <2>2, <3>1
  <2>3. \/ p.runes < passwordMinRunes /\ i = Issue("password", "too short")
        \/ p.common /\ i = Issue("password", "common")
    BY <1>1, <1>5, PasswordRule
  <2> QED
    BY <2>1, <2>2, <2>3
<1>6. Items(ValidatePassword(p)) = {} <=> ValidatePassword(p) = <<>>
  BY <1>1, PasswordRule
<1>7. ASSUME NEW i \in Items(HashIssues(p))  PROVE i = TooManyBytes /\ ~Obeys(a, i)
  <2>1. TooManyBytes \in Reasons
    BY DEF TooManyBytes, Issue, Reasons
  <2>2. CASE ~(Bytes(p) > bcryptMaxBytes)
    <3>1. HashIssues(p) = <<>>
      BY <2>2 DEF HashIssues
    <3> QED
      BY <1>7, <3>1, ItemsOfNone
  <2>3. CASE Bytes(p) > bcryptMaxBytes
    <3>1. HashIssues(p) = <<TooManyBytes>>
      BY <2>3 DEF HashIssues, TooManyBytes
    <3>2. i = TooManyBytes
      BY <1>7, <2>1, <3>1, ItemsOfOne
    <3>3. i.field = "password" /\ i.reason = "too many bytes"
      BY <3>2, FieldOfIssue DEF TooManyBytes
    <3>4. ~(Bytes(p) <= bcryptMaxBytes)
      BY <1>2, <2>3 DEF bcryptMaxBytes
    <3> QED
      BY <1>4, <3>2, <3>3, <3>4
  <2> QED
    BY <2>2, <2>3
<1> QED
  BY <1>3, <1>5, <1>6, <1>7 DEF p

LEMMA FormItems ==
  ASSUME NEW a \in AskType, IsForm(a), NEW s \in FormIssues(a)
  PROVE  /\ \A i \in Items(s) :
              /\ i.field \in {"name", "email", "password", "body"}
              /\ ~Obeys(a, i) \/ Unheedable(a, i)
              /\ i.field = "body" => a.verb = "update" /\ a.name = None /\ a.email = None
              /\ i.field # "body" /\ Passes(a, i.field) => i = TooManyBytes
         /\ Items(s) # {} /\ "body" \notin Fields(Items(s)) =>
              /\ \A field \in {"name", "email", "password"} \ Fields(Items(s)) :
                    Passes(a, field)
              /\ a.verb = "update" => Fields(Items(s)) \cap {"name", "email"} # {}
<1> DEFINE f == Filled(a)
           N == Items(NameIssues(f.name))
           E == Items(EmailIssues(f.email))
           P == Items(ValidatePassword(f.password))
           H == Items(HashIssues(f.password))
<1>1. CASE a.verb = "register"
  <2>1. s = NewIssues(f.name, f.email, f.password)
    BY <1>1 DEF FormIssues
  <2>2. /\ f.name \in NameText /\ f.email \in EmailText /\ f.password \in PasswordText
    BY FilledFields
  <2>3. /\ \A i \in N : i.field = "name" /\ ~Obeys(a, i)
        /\ N = {} <=> Passes(a, "name")
    BY <1>1, NameIssueMeans
  <2>4. /\ \A i \in E : i.field = "email" /\ (~Obeys(a, i) \/ Unheedable(a, i))
        /\ E = {} <=> Passes(a, "email")
    BY <1>1, EmailIssueMeans
  <2>5. /\ \A i \in P : i.field = "password" /\ ~Obeys(a, i)
        /\ P = {} <=> Passes(a, "password")
        /\ \A i \in H : i = TooManyBytes /\ ~Obeys(a, i)
    BY <1>1, PasswordIssueMeans
  <2>6. /\ N = {} <=> NameIssues(f.name) = <<>>
        /\ E = {} <=> EmailIssues(f.email) = <<>>
        /\ P = {} <=> ValidatePassword(f.password) = <<>>
    BY <1>1, <2>3, <2>4, <2>5 DEF Passes
  <2>7. \/ Items(s) = N \cup E \cup P
        \/ Items(s) = H /\ N = {} /\ E = {} /\ P = {}
    BY <2>1, <2>2, <2>6, NewIssuesOf
  <2>8. TooManyBytes.field = "password"
    BY FieldOfIssue DEF TooManyBytes
  <2> HIDE DEF f, N, E, P, H
  <2>9. CASE Items(s) = N \cup E \cup P
    BY <1>1, <2>3, <2>4, <2>5, <2>9 DEF Fields
  <2>10. CASE Items(s) = H /\ N = {} /\ E = {} /\ P = {}
    BY <1>1, <2>3, <2>4, <2>5, <2>8, <2>10 DEF Fields
  <2> QED
    BY <2>7, <2>9, <2>10
<1>2. CASE a.verb = "update" /\ s = UpdateIssues(a)
  <2>1. /\ a.name # None => a.name = f.name
        /\ a.email # None => a.email = f.email
    BY FilledFields
  <2> DEFINE U == IF a.name = None THEN {} ELSE N
             V == IF a.email = None THEN {} ELSE E
  <2>2. Items(s) = U \cup V
    BY <1>2, <2>1, UpdateIssuesOf
  <2>3. /\ \A i \in U : i.field = "name" /\ ~Obeys(a, i)
        /\ U = {} <=> Passes(a, "name")
    BY <1>2, NameIssueMeans DEF Passes
  <2>4. /\ \A i \in V : i.field = "email" /\ (~Obeys(a, i) \/ Unheedable(a, i))
        /\ V = {} <=> Passes(a, "email")
    BY <1>2, EmailIssueMeans DEF Passes
  <2>5. Passes(a, "password")
    BY <1>2 DEF Passes
  <2> HIDE DEF U, V
  <2> QED
    BY <1>2, <2>2, <2>3, <2>4, <2>5 DEF Fields
<1>3. CASE s = <<>>
  BY <1>3, ItemsOfNone
<1>4. CASE /\ a.verb = "update" /\ a.name = None /\ a.email = None
           /\ s = <<Issue("body", "empty")>>
  <2>1. Issue("body", "empty") \in Reasons /\ Issue("body", "empty").field = "body"
    BY DEF Issue, Reasons
  <2>2. Items(s) = {Issue("body", "empty")}
    BY <1>4, <2>1, ItemsOfOne
  <2>3. ~Obeys(a, Issue("body", "empty"))
    BY <1>4, <2>1 DEF Obeys
  <2> QED
    BY <1>4, <2>1, <2>2, <2>3 DEF Fields
<1> QED
  BY <1>1, <1>2, <1>3, <1>4 DEF FormIssues, IsForm
-----------------------------------------------------------------------------
(* The invariant holds throughout. *)

LEMMA DialogueInit == Init => DialogueInv
<1> SUFFICES ASSUME Init PROVE DialogueInv
  OBVIOUS
<1>1. Typed
  BY DialogueAssumption DEF Init, Typed, Blank, AskType, Ids
<1>2. told = {} /\ pc = "idle" /\ row = NoRow /\ row.state # "live"
  BY DEF Init, NoRow
<1> QED
  BY <1>1, <1>2 DEF DialogueInv, Kept, Heeded, Replied, StoredIsNormal, SameRow, Live

LEMMA ViewOf ==
  ASSUME NEW u \in LiveRow
  PROVE  toUserResponse(u) \in UserView /\ toUserResponse(u) # None
<1>1. CutTo(u.created, Second) \in Nat /\ CutTo(u.updated, Second) \in Nat
  BY CutType, DialogueAssumption DEF LiveRow
<1>2. toUserResponse(u) \in UserView
  BY <1>1 DEF toUserResponse, formatTime, LiveRow, UserView
<1> QED
  BY <1>2, DialogueAssumption

\* What both adapters show of a row is what REST shows of it.
LEMMA SameRowMeans ==
  /\ SameRow <=> (row.state = "live" => toUserResponse(row) = known)
  /\ SameRow' <=> (row'.state = "live" => toUserResponse(row') = known')
BY DEF SameRow, Live, Adapter, ToUser, toUserResponse, toProto, formatTime

LEMMA NormalMeans ==
  /\ StoredIsNormal <=> Normal(row)
  /\ StoredIsNormal' <=> Normal(row')
BY DEF StoredIsNormal, Live, Normal

LEMMA ExchangeKeeps ==
  ASSUME DialogueInv, NEW x \in Adapter, Exchange(x)
  PROVE  DialogueInv'
<1>1. /\ pc = "asking" /\ ask \in AskType /\ ask.verb # "none" /\ row \in Rows /\ clock \in Nat
      /\ ask.verb = "register" => ask.id = "mine"
      /\ ask.id = "empty" => ask.verb \in {"get", "update", "delete"}
      /\ ask.limit = NotAnInteger => ask.verb = "list"
      /\ x \in CanCarry(ask) /\ "rest" \in CanCarry(ask) /\ CanCarry(ask) \subseteq Adapter
      /\ ask.verb # "list" => CanCarry(ask) = Adapter
  BY DEF DialogueInv, Typed, Exchange, Rows, CanCarry, Adapter
<1>2. PICK next \in {"", "cursor"} :
        /\ reply' = [y \in CanCarry(ask) |-> Answer(y, ask, next)]
        /\ row' = Serve(x, ask, next).row
  BY DEF Exchange
<1> DEFINE r == Serve(x, ask, next)
<1>3. Sound(r) /\ row' = r.row
  <2>1. Sound(Handle(toInput(ask), next))
    BY <1>1, HandleIsSound
  <2>2. \A verdict, issues : Sound(Refused(verdict, issues))
    BY <1>1, RefusedIsSound
  <2>3. \/ r = Handle(toInput(ask), next)
        \/ \E verdict, issues : r = Refused(verdict, issues)
    BY <1>1, ServeOf
  <2>4. row' = r.row
    BY <1>2
  <2> HIDE DEF r
  <2> QED
    BY <2>1, <2>2, <2>3, <2>4
<1>4. UNCHANGED <<clock, ask, told>> /\ pc' = "answered"
  BY DEF Exchange
<1>5. known' = IF reply'[x].user # None THEN reply'[x].user
               ELSE IF row' = row THEN known ELSE None
  BY DEF Exchange
<1>6. \A y \in CanCarry(ask) : reply'[y] = Answer(y, ask, next)
  BY <1>2
<1>7. Typed'
  BY <1>1, <1>3, <1>4 DEF Typed, DialogueInv, Sound, Rows
<1>8. (told # {} => pc # "idle" /\ IsForm(ask))'
  BY <1>4 DEF DialogueInv
<1>9. Kept' /\ Heeded'
  BY <1>4 DEF DialogueInv, Kept, Heeded
<1>10. Replied'
  <2>1. IsForm(ask) => reply'["rest"].issues \in FormIssues(ask)
    BY <1>1, <1>6, FormAnswer DEF IsForm
  <2>2. ask.id # "empty" =>
          \A y \in CanCarry(ask), z \in CanCarry(ask) : reply'[y] = reply'[z]
    BY <1>1, <1>6, TwinAnswers
  <2>3. ask.verb \in {"update", "delete"} /\ ask.id \in Foreign =>
          \A y \in Adapter : reply'[y] = Denied
    BY <1>1, <1>6, ForeignAnswer
  <2>4. CanCarry(ask') = CanCarry(ask) /\ FormIssues(ask') = FormIssues(ask)
        /\ (IsForm(ask') <=> IsForm(ask)) /\ ask' = ask
    BY <1>4
  <2> QED
    BY <2>1, <2>2, <2>3, <2>4, Zenon DEF Replied
<1>11. StoredIsNormal'
  BY <1>3, NormalMeans DEF DialogueInv, Sound
<1>12. SameRow'
  <2>1. reply'[x].user = IF r.user = None THEN None ELSE toUserResponse(r.user)
    <3>1. reply'[x] = Answer(x, ask, next)
      BY <1>1, <1>6
    <3>2. Answer(x, ask, next).user = IF r.user = None THEN None ELSE toUserResponse(r.user)
      BY <1>1, AnswerOf
    <3> QED
      BY <3>1, <3>2
  <2> HIDE DEF r
  <2>2. CASE r.user # None
    BY <1>3, <1>5, <2>1, <2>2, ViewOf, SameRowMeans DEF Sound
  <2>3. CASE r.user = None
    BY <1>3, <1>5, <2>1, <2>3, SameRowMeans DEF DialogueInv, Sound
  <2> QED
    BY <2>2, <2>3
<1> QED
  BY <1>7, <1>8, <1>9, <1>10, <1>11, <1>12 DEF DialogueInv

LEMMA CorrectKeeps ==
  ASSUME DialogueInv, Correct
  PROVE  DialogueInv'
<1> DEFINE s == reply["rest"].issues
           named == Fields(IssuesOf("rest"))
           Again(field, texts) ==
             IF field \in named THEN texts
             ELSE IF "body" \in named THEN texts \cup {None} ELSE {ask[field]}
<1>1. /\ pc = "answered" /\ IsForm(ask) /\ ask \in AskType /\ named # {}
      /\ told' = told \cup IssuesOf("rest") /\ pc' = "asking"
      /\ UNCHANGED <<clock, row, known>>
  BY DEF Correct, DialogueInv, Typed, IsForm
<1>2. s \in FormIssues(ask) /\ IssuesOf("rest") = Items(s)
  BY <1>1 DEF DialogueInv, Replied, IssuesOf, Items
<1>3. PICK name \in Again("name", Names), email \in Again("email", Emails),
           password \in IF ask.verb = "update" THEN {None} ELSE Again("password", Passwords) :
        /\ ask' = [ask EXCEPT !.name = name, !.email = email, !.password = password]
        /\ \A issue \in told' : Obeys(ask', issue)
  BY DEF Correct
<1>4. /\ name \in Names \cup {None} /\ email \in Emails \cup {None}
      /\ password \in Passwords \cup {None}
  BY <1>1, <1>3 DEF AskType
<1>5. /\ ask' \in AskType /\ ask'.verb = ask.verb /\ ask'.id = ask.id
      /\ ask'.limit = ask.limit
      /\ ask'.name = name /\ ask'.email = email /\ ask'.password = password
  BY <1>1, <1>3, <1>4 DEF AskType
<1>6. Typed'
  BY <1>1, <1>5 DEF DialogueInv, Typed
<1>7. (told # {} => pc # "idle" /\ IsForm(ask))'
  BY <1>1, <1>5 DEF IsForm
<1>8. Heeded'
  BY <1>3 DEF Heeded
<1>9. Replied'
  BY <1>1 DEF Replied
<1>10. StoredIsNormal' /\ SameRow'
  BY <1>1, NormalMeans, SameRowMeans DEF DialogueInv
<1>11. Kept'
  <2> SUFFICES ASSUME "body" \notin Fields(told')
               PROVE  /\ \A field \in {"name", "email", "password"} \ Fields(told') :
                            Passes(ask', field)
                      /\ ask'.verb = "update" => ask'.name # None \/ ask'.email # None
    BY DEF Kept
  <2>1. Fields(told') = Fields(told) \cup named
    BY <1>1 DEF Fields
  <2>2. /\ \A field \in {"name", "email", "password"} \ Fields(told') : Passes(ask, field)
        /\ ask.verb = "update" =>
             \/ named \cap {"name", "email"} # {}
             \/ ask.name # None \/ ask.email # None
    <3>1. CASE told = {}
      <4>1. Items(s) # {} /\ "body" \notin Fields(Items(s))
        BY <1>1, <1>2, <2>1 DEF Fields
      <4> QED
        BY <1>1, <1>2, <2>1, <4>1, FormItems
    <3>2. CASE told # {}
      BY <2>1, <3>2 DEF DialogueInv, Kept
    <3> QED
      BY <3>1, <3>2
  <2>3. /\ "name" \in named => name \in Names
        /\ "name" \notin named => name = ask.name
        /\ "email" \in named => email \in Emails
        /\ "email" \notin named => email = ask.email
        /\ ask.verb = "register" /\ "password" \notin named => password = ask.password
    BY <1>3, <2>1
  <2>4. ask'.verb = "update" => ask'.name # None \/ ask'.email # None
    BY <1>5, <2>2, <2>3, DialogueAssumption
  <2>5. ASSUME NEW field \in {"name", "email", "password"} \ Fields(told')
        PROVE  Passes(ask', field)
    <3>1. field \notin named /\ Passes(ask, field)
      BY <2>1, <2>2, <2>5
    <3>2. CASE field = "name"
      <4>1. Filled(ask').name = Filled(ask).name
        BY <1>1, <1>5, <2>3, <3>1, <3>2, FilledFields DEF OrZero
      <4> QED
        BY <1>5, <2>3, <3>1, <3>2, <4>1 DEF Passes
    <3>3. CASE field = "email"
      <4>1. Filled(ask').email = Filled(ask).email
        BY <1>1, <1>5, <2>3, <3>1, <3>3, FilledFields DEF OrZero
      <4> QED
        BY <1>5, <2>3, <3>1, <3>3, <4>1 DEF Passes
    <3>4. CASE field = "password" /\ ask.verb = "register"
      <4>1. Filled(ask').password = Filled(ask).password
        BY <1>1, <1>5, <2>3, <3>1, <3>4, FilledFields DEF OrZero
      <4> QED
        BY <1>5, <3>1, <3>4, <4>1 DEF Passes
    <3>5. CASE field = "password" /\ ask.verb = "update"
      BY <1>5, <3>5 DEF Passes
    <3> QED
      BY <1>1, <3>2, <3>3, <3>4, <3>5 DEF IsForm
  <2> QED
    BY <2>4, <2>5
<1> QED
  BY <1>6, <1>7, <1>8, <1>9, <1>10, <1>11 DEF DialogueInv

LEMMA DialogueNext == DialogueInv /\ [Next]_vars => DialogueInv'
<1> SUFFICES ASSUME DialogueInv, [Next]_vars PROVE DialogueInv'
  OBVIOUS
<1>1. ASSUME NEW a \in Asks, Begin(a)  PROVE DialogueInv'
  <2>1. /\ pc = "idle" /\ told = {} /\ ask' = a /\ pc' = "asking"
        /\ UNCHANGED <<clock, row, told, known>>
    BY <1>1 DEF Begin, DialogueInv
  <2>2. Typed'
    BY <2>1, AskFields DEF DialogueInv, Typed
  <2> QED
    BY <2>1, <2>2, NormalMeans, SameRowMeans DEF DialogueInv, Kept, Heeded, Replied
<1>2. ASSUME NEW x \in Adapter, Exchange(x)  PROVE DialogueInv'
  BY <1>2, ExchangeKeeps
<1>3. CASE Correct
  BY <1>3, CorrectKeeps
<1>4. CASE Leave
  <2>1. /\ told' = {} /\ ask' = Blank /\ pc' = "idle"
        /\ UNCHANGED <<clock, row, known>>
    BY <1>4 DEF Leave
  <2>2. Typed'
    BY <2>1, DialogueAssumption DEF DialogueInv, Typed, Blank, AskType, Ids
  <2> QED
    BY <2>1, <2>2, NormalMeans, SameRowMeans DEF DialogueInv, Kept, Heeded, Replied
<1>5. CASE Tick
  <2>1. /\ clock' \in Nat /\ UNCHANGED <<row, pc, ask, told, reply, known>>
    BY <1>5 DEF Tick, DialogueInv, Typed
  <2>2. Typed'
    BY <2>1 DEF DialogueInv, Typed
  <2> QED
    BY <2>1, <2>2, NormalMeans, SameRowMeans DEF DialogueInv, Kept, Heeded, Replied
<1>6. CASE UNCHANGED vars
  <2>1. UNCHANGED <<clock, row, pc, ask, told, reply, known>>
    BY <1>6 DEF vars
  <2>2. Typed'
    BY <2>1 DEF DialogueInv, Typed
  <2> QED
    BY <2>1, <2>2, NormalMeans, SameRowMeans DEF DialogueInv, Kept, Heeded, Replied
<1> QED
  BY <1>1, <1>2, <1>3, <1>4, <1>5, <1>6 DEF Next

-----------------------------------------------------------------------------
(* The theorems *)

(* Whatever the client asks, leaves out and corrects: a form keeps what was right in it,
   heeds what it has been told, and each answer follows the rules (UserService's Create and
   Update, the dto and mapper of either adapter). *)
THEOREM ClientIsUnderstood == Spec => []DialogueInv
BY DialogueInit, DialogueNext, PTL DEF Spec

(* Both adapters answer a request alike, issue by issue (mapper.go, dto.go, ListFilter). *)
THEOREM StoriesAgree == Spec => []SameStory
<1>1. DialogueInv => SameStory
  BY DEF DialogueInv, Replied, SameStory
<1> QED
  BY <1>1, ClientIsUnderstood, PTL

(* What a client was told when it wrote is what either adapter tells it of the stored row,
   though the one is cut from exact times and the other from times MongoDB has cut already
   (formatTime, toProto; a user's document). *)
THEOREM RowsAgree == Spec => []SameRow
<1>1. DialogueInv => SameRow
  BY DEF DialogueInv
<1> QED
  BY <1>1, ClientIsUnderstood, PTL

(* What is stored passes the rules, trimmed and in lower case (NewEmail, normalizeName,
   Rename, ChangeEmail). *)
THEOREM RowsAreNormal == Spec => []StoredIsNormal
<1>1. DialogueInv => StoredIsNormal
  BY DEF DialogueInv
<1> QED
  BY <1>1, ClientIsUnderstood, PTL

(* A change of another's row is refused as one of nobody's is, whatever it asks
   (requireSelf before anything is read or validated). *)
THEOREM DenialSaysNothing == Spec => []ForeignIdsAlike
<1>1. DialogueInv => ForeignIdsAlike
  <2> SUFFICES ASSUME DialogueInv, pc = "answered", ask.verb \in {"update", "delete"},
                      ask.id \in Foreign, NEW x \in Adapter, NEW id \in Foreign
               PROVE  Answer(x, [ask EXCEPT !.id = id], "") = reply[x]
    BY DEF ForeignIdsAlike
  <2> DEFINE a == [ask EXCEPT !.id = id]
  <2>1. a \in AskType /\ a.verb = ask.verb /\ a.id = id /\ a.limit = ask.limit
    BY DEF DialogueInv, Typed, AskType, Ids, Foreign
  <2> HIDE DEF a
  <2>2. Answer(x, a, "") = Denied
    BY <2>1, ForeignAnswer DEF DialogueInv, Typed
  <2>3. reply[x] = Denied
    BY DEF DialogueInv, Replied
  <2> QED
    BY <2>2, <2>3 DEF a
<1> QED
  BY <1>1, ClientIsUnderstood, PTL

\* The issues of an answered form are those the rules may find in it.
LEMMA FormIsAnswered ==
  ASSUME DialogueInv, pc = "answered", told # {}
  PROVE  /\ IsForm(ask) /\ ask \in AskType
         /\ \E s \in FormIssues(ask) : IssuesOf("rest") = Items(s)
<1>1. IsForm(ask) /\ ask \in AskType
  BY DEF DialogueInv, Typed
<1>2. reply["rest"].issues \in FormIssues(ask)
  BY <1>1 DEF DialogueInv, Replied
<1> QED
  BY <1>1, <1>2 DEF IssuesOf, Items

(* A caller fixing a form hears of all that is wrong at once, but for the hasher's limit
   (New of the domain's user collects the issues; bcrypt's limit comes after it). *)
THEOREM ToldAllAtOnce == Spec => []AllAtOnce
<1>1. DialogueInv => AllAtOnce
  <2> SUFFICES ASSUME DialogueInv, pc = "answered", told # {},
                      NEW issue \in IssuesOf("rest"),
                      issue.field \notin Fields(told), "body" \notin Fields(told)
               PROVE  issue = Issue("password", "too many bytes")
    BY DEF AllAtOnce
  <2>1. PICK s \in FormIssues(ask) : IssuesOf("rest") = Items(s)
    BY FormIsAnswered
  <2>2. /\ issue.field \in {"name", "email", "password", "body"}
        /\ issue.field = "body" => ask.verb = "update" /\ ask.name = None /\ ask.email = None
        /\ issue.field # "body" /\ Passes(ask, issue.field) => issue = TooManyBytes
    BY <2>1, FormIsAnswered, FormItems
  <2>3. /\ \A field \in {"name", "email", "password"} \ Fields(told) : Passes(ask, field)
        /\ ask.verb = "update" => ask.name # None \/ ask.email # None
    BY DEF DialogueInv, Kept
  <2>4. issue.field # "body"
    BY <2>2, <2>3
  <2>5. Passes(ask, issue.field)
    BY <2>2, <2>3, <2>4
  <2> QED
    BY <2>2, <2>4, <2>5 DEF TooManyBytes
<1> QED
  BY <1>1, ClientIsUnderstood, PTL

(* A client that does as it is told is told one thing a second time at most: that its
   address is too long, when it is so in bytes and not in characters (the rules of
   email.go, user.go, password.go and the hasher). *)
THEOREM NothingIsToldTwice == Spec => []NothingToldTwice
<1>1. DialogueInv => NothingToldTwice
  <2> SUFFICES ASSUME DialogueInv, pc = "answered",
                      NEW issue \in IssuesOf("rest"), issue \in told
               PROVE  Unheedable(ask, issue)
    BY DEF NothingToldTwice, Unheedable
  <2>1. PICK s \in FormIssues(ask) : IssuesOf("rest") = Items(s)
    BY FormIsAnswered
  <2>2. ~Obeys(ask, issue) \/ Unheedable(ask, issue)
    BY <2>1, FormIsAnswered, FormItems
  <2>3. Obeys(ask, issue)
    BY DEF DialogueInv, Heeded
  <2> QED
    BY <2>2, <2>3
<1> QED
  BY <1>1, ClientIsUnderstood, PTL
=============================================================================
