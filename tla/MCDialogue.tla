----------------------------- MODULE MCDialogue -----------------------------
(* Small instances of Dialogue: texts on both sides of every limit. *)
EXTENDS Dialogue

Name(pad, runes) == [pad |-> pad, runes |-> runes]

MCNames == {Name(FALSE, 1), Name(TRUE, 0), Name(TRUE, 100), Name(FALSE, 101)}

Address(pad, upper, runes, len, form) ==
  [pad |-> pad, upper |-> upper, runes |-> runes, len |-> len, form |-> form]

MCEmails ==
  {Address(TRUE, TRUE, 5, 5, "addr"), Address(FALSE, FALSE, 254, 254, "addr"),
   Address(FALSE, FALSE, 255, 255, "addr"), Address(FALSE, FALSE, 254, 255, "addr"),
   Address(FALSE, TRUE, 5, 5, "noDot"), Address(FALSE, FALSE, 254, 254, "junk")}

Secret(runes, width, common) == [runes |-> runes, width |-> width, common |-> common]

MCPasswords ==
  {Secret(7, 4, FALSE), Secret(8, 1, TRUE), Secret(8, 1, FALSE),
   Secret(18, 4, FALSE), Secret(19, 4, FALSE), Secret(73, 1, FALSE)}

MCLimits == {-1, 0, 1, 100, 101}

\* The greatest value, and one that differs from it in the upper word only.
MCDraws == {767, 1023}
=============================================================================
