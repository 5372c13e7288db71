------------------------------ MODULE Dialogue ------------------------------
(***************************************************************************)
(* One client and its account, over REST and over gRPC.  The client fills  *)
(* in a form, is told what is wrong, corrects that and asks again; later   *)
(* it reads, changes and deletes its row.  Each request is put to both     *)
(* adapters, so that what they make of it can be compared: decoding        *)
(* (dto.go, mapper.go), the use case (UserService with the domain's rules) *)
(* and the answer.                                                         *)
(*                                                                         *)
(* Calls that race, fail or time out are UserManagement's and Transport's; *)
(* here a call is one step.  The clock is finer than the millisecond a     *)
(* stored time is cut to, and the second an answered one is.               *)
(***************************************************************************)
EXTENDS Rules, Ulid, FiniteSets

CONSTANTS
  Names, Emails, Passwords,  \* texts a client may send
  Limits,                    \* limits a client may send over either adapter
  NotAnInteger,              \* a limit that is no int: only a query string has one
  Milli, Second,             \* units of the clock
  AccessTTL,                 \* lifetime of an access token
  Draws,                     \* random values an identifier may get
  Epoch,                     \* the milliseconds at which the clock starts
  MaxClock,                  \* bound: the clock stops here
  None

\* The entity, or its document; and a user as an answer shows it.
LiveRow ==
  [state : {"live"}, name : NameText, email : EmailText, created : Nat, updated : Nat]
UserView == [name : NameText, email : EmailText, created : Nat, updated : Nat]

ASSUME DialogueAssumption ==
  /\ Names \subseteq NameText /\ Emails \subseteq EmailText
  /\ Passwords \subseteq PasswordText
  /\ None \notin Names /\ None \notin Emails /\ None \notin Passwords
  /\ Limits \subseteq Int /\ None \notin Limits /\ NotAnInteger \notin Limits \cup {None}
  /\ None \notin LiveRow /\ None \notin UserView
  /\ Milli \in Nat \ {0} /\ Second \in Nat \ {0} /\ Second % Milli = 0

VARIABLES
  clock,
  row,      \* the account's document in MongoDB
  pc,       \* the client: "idle", "asking" or "answered"
  ask,      \* what it asks
  told,     \* what the answers to its form have said is wrong, before this one
  reply,    \* adapter -> the answer
  known,    \* the account as the client has last been told it is
  drawn     \* the identifier drawn last

vars == <<clock, row, pc, ask, told, reply, known, drawn>>

Adapter == {"rest", "grpc"}

\* Whose id is asked for: the caller's, another user's, nobody's, no ObjectID, none.
Ids     == {"mine", "other", "nobody", "malformed", "empty"}
Foreign == {"other", "nobody", "malformed"}

\* None is a field that is not sent.
Blank == [verb |-> "none", id |-> "mine", name |-> None, email |-> None,
          password |-> None, limit |-> None]

Forms ==
  [verb : {"register"}, id : {"mine"}, name : Names \cup {None},
   email : Emails \cup {None}, password : Passwords \cup {None}, limit : {None}]
  \cup
  [verb : {"update"}, id : Ids, name : Names \cup {None},
   email : Emails \cup {None}, password : {None}, limit : {None}]

\* What has no body.
Bare(verbs, ids, limits) ==
  [verb : verbs, id : ids, name : {None}, email : {None}, password : {None}, limit : limits]

Asks ==
  Forms \cup Bare({"get", "delete"}, Ids, {None})
        \cup Bare({"list"}, {"mine"}, Limits \cup {None, NotAnInteger})
        \cup Bare({"login"}, {"mine"}, {None})

NoRow == [state |-> "none"]

Live == row.state = "live"

Init ==
  /\ clock = 0 /\ row = NoRow /\ pc = "idle" /\ ask = Blank
  /\ told = {} /\ reply = <<>> /\ known = None
  /\ drawn = [ms |-> 0, random |-> 0, text |-> NewULID(0, 0)]

-----------------------------------------------------------------------------
(* The use case, of what an adapter has decoded. *)

Refused(verdict, issues) ==
  [verdict |-> verdict, issues |-> issues, row |-> row, user |-> None, page |-> None]

Invalid(issues) == Refused("VALIDATION_ERROR", issues)

Forbidden == Refused("FORBIDDEN", <<>>)

Done(after, user) ==
  [verdict |-> "ok", issues |-> <<>>, row |-> after, user |-> user, page |-> None]

\* An entity, and what MongoDB makes of its times.
Entity(name, email, created, updated) ==
  [state |-> "live", name |-> name, email |-> email, created |-> created, updated |-> updated]

CutTo(t, unit) == t - (t % unit)

Stored(user) ==
  [user EXCEPT !.created = CutTo(@, Milli), !.updated = CutTo(@, Milli)]

\* The answer is the entity in memory, not what was stored.
Create(in) ==
  LET invalid == NewIssues(in.name, in.email, in.password)
      user == Entity(normalizeName(in.name), NewEmail(in.email), clock, clock)
  IN  IF invalid # <<>> THEN Invalid(invalid) ELSE Done(Stored(user), user)

requireID(id) == id # "empty"

requireSelf(id) == id = "mine"

EmptyId == Invalid(<<Issue("id", "empty")>>)

\* FindByID; another user's row is not looked into.
Find(id) ==
  CASE id = "malformed" -> Invalid(<<Issue("id", "format")>>)
    [] id = "other" \/ (id = "mine" /\ Live) -> Done(row, IF id = "mine" THEN row ELSE None)
    [] OTHER -> Refused("USER_NOT_FOUND", <<>>)

Get(id) == IF requireID(id) THEN Find(id) ELSE EmptyId

UpdateIssues(in) ==
  (IF in.name = None THEN <<>> ELSE NameIssues(in.name))
    \o (IF in.email = None THEN <<>> ELSE EmailIssues(in.email))

\* Rename and ChangeEmail on the entity read, and the fields sent patched.
Patched(in) ==
  [row EXCEPT !.name  = IF in.name = None THEN @ ELSE normalizeName(in.name),
              !.email = IF in.email = None THEN @ ELSE NewEmail(in.email),
              !.updated = CutTo(clock, Milli)]

\* Update, once the caller is known to be asking for its own row.
Amend(in) ==
  IF in.name = None /\ in.email = None THEN Invalid(<<Issue("body", "empty")>>)
  ELSE IF Find(in.id).verdict # "ok" THEN Find(in.id)
  ELSE IF UpdateIssues(in) # <<>> THEN Invalid(UpdateIssues(in))
  ELSE Done(Patched(in), Patched(in))

\* Mutant: the row is read before the caller is compared with it.
UpdateFindingFirst(in) ==
  IF ~requireID(in.id) THEN EmptyId
  ELSE IF Find(in.id).verdict # "ok" THEN Find(in.id)
  ELSE IF ~requireSelf(in.id) THEN Forbidden
  ELSE Amend(in)

Update(in) ==
  IF ~requireID(in.id) THEN EmptyId
  ELSE IF ~requireSelf(in.id) THEN Forbidden
  ELSE Amend(in)

Delete(id) ==
  IF ~requireID(id) THEN EmptyId
  ELSE IF ~requireSelf(id) THEN Forbidden
  ELSE IF ~Live THEN Find(id)
  ELSE Done([state |-> "deleted"], None)

\* A page is Paging's; here it is how much was asked for, and what comes next.
List(in, next) ==
  LET limit == IF in.limit = None THEN DefaultListLimit ELSE in.limit IN
  IF LimitIssues(limit) # <<>> THEN Invalid(LimitIssues(limit))
  ELSE [Done(row, None) EXCEPT !.page = [limit |-> limit, next |-> next]]

\* With the right password; the sessions are UserManagement's.
Login == IF Live THEN Done(row, row) ELSE Refused("INVALID_CREDENTIALS", <<>>)

Handle(in, next) ==
  CASE in.verb = "register" -> Create(in)
    [] in.verb = "get"      -> Get(in.id)
    [] in.verb = "update"   -> Update(in)
    [] in.verb = "delete"   -> Delete(in.id)
    [] in.verb = "list"     -> List(in, next)
    [] in.verb = "login"    -> Login

-----------------------------------------------------------------------------
(* What the adapters make of a request, and of the result. *)

\* Registering, a field that is not sent is the zero value; updating, it is nil.
Zero == [name     |-> [pad |-> FALSE, runes |-> 0],
         email    |-> [pad |-> FALSE, upper |-> FALSE, runes |-> 0, len |-> 0,
                      form |-> "junk"],
         password |-> [runes |-> 0, width |-> 1, common |-> FALSE]]

OrZero(a, field) == IF a[field] = None THEN Zero[field] ELSE a[field]

Filled(a) == [a EXCEPT !.name = OrZero(a, "name"), !.email = OrZero(a, "email"),
                       !.password = OrZero(a, "password")]

\* Mutant: updateUserRequest has strings, not pointers.
toInputUnsentEmpty(a) == IF a.verb \in {"register", "update"} THEN Filled(a) ELSE a

\* listFilterFrom returns early, and the use case does not run.
listFilterIssues(a) ==
  IF a.limit = NotAnInteger THEN <<Issue("limit", "not an integer")>> ELSE <<>>

\* The JSON bodies of dto.go, and the rest of listFilterFrom.
toInput(a) == IF a.verb = "register" THEN Filled(a) ELSE a

\* toCreateInput, UpdateUserRequest's optional fields, and toListFilter.
toMessage(a) == IF a.verb = "register" THEN Filled(a) ELSE a

Decode(x, a) == IF x = "rest" THEN toInput(a) ELSE toMessage(a)

formatTime(t) == CutTo(t, Second)

toUserResponse(u) ==
  [name |-> u.name, email |-> u.email,
   created |-> formatTime(u.created), updated |-> formatTime(u.updated)]

\* Mutant: the times are not truncated.
toProtoExact(u) ==
  [name |-> u.name, email |-> u.email, created |-> u.created, updated |-> u.updated]

toProto(u) ==
  [name |-> u.name, email |-> u.email,
   created |-> CutTo(u.created, Second), updated |-> CutTo(u.updated, Second)]

toListMeta(page) ==
  [limit |-> page.limit, has_more |-> page.next # "",
   next_cursor |-> IF page.next # "" THEN page.next ELSE None]

\* int32 holds every limit that Resolve lets through.
toListProto(page) ==
  [limit |-> page.limit, has_more |-> page.next # "",
   next_cursor |-> IF page.next # "" THEN page.next ELSE None]

ToUser(x, u) == IF x = "rest" THEN toUserResponse(u) ELSE toProto(u)

ToMeta(x, page) == IF x = "rest" THEN toListMeta(page) ELSE toListProto(page)

\* toSessionResponse, toSessionProto.
ExpiresIn == AccessTTL \div Second

Encode(x, verb, result) ==
  [verdict |-> result.verdict, issues |-> result.issues,
   user    |-> IF result.user = None THEN None ELSE ToUser(x, result.user),
   meta    |-> IF result.page = None THEN None ELSE ToMeta(x, result.page),
   expires |-> IF verb = "login" /\ result.verdict = "ok" THEN ExpiresIn ELSE None]

\* No route of the router has an empty id.
Serve(x, a, next) ==
  IF x = "rest" /\ a.id = "empty" THEN Refused("NOT_FOUND", <<>>)
  ELSE IF x = "rest" /\ listFilterIssues(a) # <<>> THEN Invalid(listFilterIssues(a))
  ELSE Handle(Decode(x, a), next)

Answer(x, a, next) == Encode(x, a.verb, Serve(x, a, next))

\* A ListUsersRequest has an int32, or no limit.
CanCarry(a) == IF a.limit = NotAnInteger THEN {"rest"} ELSE Adapter

-----------------------------------------------------------------------------
(* The client *)

Begin(a) ==
  /\ pc = "idle"
  /\ a.verb = "register" <=> row = NoRow
  /\ pc' = "asking" /\ ask' = a
  /\ UNCHANGED <<clock, row, told, reply, known, drawn>>

\* RequestID, loggingUnary: the identifier of a call that brings none.
Draw ==
  \/ UNCHANGED drawn
  \/ \E random \in Draws :
       LET ms == Epoch + clock \div Milli IN
       drawn' = [ms |-> ms, random |-> random, text |-> NewULID(ms, random)]

\* The call is made over `x`, and what the other would have answered is kept.
Exchange(x) ==
  /\ pc = "asking" /\ x \in CanCarry(ask)
  /\ \E next \in {"", "cursor"} :
       /\ ask.verb # "list" => next = ""
       /\ reply' = [y \in CanCarry(ask) |-> Answer(y, ask, next)]
       /\ row' = Serve(x, ask, next).row
  /\ known' = IF reply'[x].user # None THEN reply'[x].user
              ELSE IF row' = row THEN known ELSE None
  /\ pc' = "answered"
  /\ Draw
  /\ UNCHANGED <<clock, ask, told>>

IssuesOf(x) == {reply[x].issues[i] : i \in DOMAIN reply[x].issues}

Fields(issues) == {i.field : i \in issues}

\* Is what `issue` complains about right in `a`?
Obeys(a, issue) ==
  LET in == Filled(a)
      leftOut(field) == a.verb = "update" /\ a[field] = None
  IN  CASE issue.field = "name"  -> leftOut("name") \/ in.name.runes \in 1..nameMaxRunes
        [] issue.field = "email" ->
             \/ leftOut("email")
             \/ /\ issue.reason = "empty"    => in.email.len > 0
                /\ issue.reason = "too long" => in.email.runes <= emailMaxLen
                /\ issue.reason = "format"   => in.email.form = "addr"
        [] issue.field = "password" ->
             /\ issue.reason = "too short" => in.password.runes >= passwordMinRunes
             /\ issue.reason = "common"    => ~in.password.common
             /\ issue.reason = "too many bytes" => Bytes(in.password) <= bcryptMaxBytes
        [] issue.field = "body"  -> a.name # None \/ a.email # None
        [] OTHER -> FALSE

\* The fields named are filled in again, as all answers so far have asked for.
Correct ==
  LET named == Fields(IssuesOf("rest"))
      Again(field, texts) ==
        IF field \in named THEN texts
        ELSE IF "body" \in named THEN texts \cup {None} ELSE {ask[field]}
  IN  /\ pc = "answered" /\ ask.verb \in {"register", "update"} /\ named # {}
      /\ told' = told \cup IssuesOf("rest")
      /\ \E name \in Again("name", Names), email \in Again("email", Emails),
            password \in IF ask.verb = "update" THEN {None} ELSE Again("password", Passwords) :
           /\ ask' = [ask EXCEPT !.name = name, !.email = email, !.password = password]
           /\ \A issue \in told' : Obeys(ask', issue)
      /\ pc' = "asking" /\ reply' = <<>>
      /\ UNCHANGED <<clock, row, known, drawn>>

Leave ==
  /\ pc = "answered"
  /\ pc' = "idle" /\ ask' = Blank /\ told' = {} /\ reply' = <<>>
  /\ UNCHANGED <<clock, row, known, drawn>>

Tick ==
  /\ pc = "idle" /\ clock < MaxClock
  /\ clock' = clock + 1
  /\ UNCHANGED <<row, pc, ask, told, reply, known, drawn>>

Next ==
  \/ \E a \in Asks : Begin(a)
  \/ \E x \in Adapter : Exchange(x)
  \/ Correct \/ Leave \/ Tick

Spec == Init /\ [][Next]_vars

-----------------------------------------------------------------------------
(* "So REST and gRPC reject with the same reason" (ListFilter), "the two transports
   tell the same story" (mapper.go): whatever the caller sends or leaves out, both
   answer the same, issue by issue, and the same row, page and session.  An empty id
   is a message on gRPC alone, and a limit that is no integer a request on REST alone. *)
SameStory ==
  pc = "answered" /\ ask.id # "empty" =>
    \A x \in CanCarry(ask), y \in CanCarry(ask) : reply[x] = reply[y]

(* "The two transports never disagree about one row": what the client was told when
   it wrote, from an entity with exact times, is what either will tell it later of
   the stored one, with times cut to the millisecond. *)
SameRow == Live => \A x \in Adapter : ToUser(x, row) = known

(* "A caller fixing a form learns about all of them at once" (New): what is left as
   it was after a refusal is not what the next one is about.  The hasher's limit is
   the exception: it is only met when every other rule is. *)
AllAtOnce ==
  pc = "answered" /\ told # {} =>
    \A issue \in IssuesOf("rest") :
      \/ issue.field \in Fields(told)
      \/ "body" \in Fields(told)
      \/ issue = Issue("password", "too many bytes")

(* A client that does what the reasons say is refused for none of them twice: the
   rules say what they check, do not contradict each other, and a form ends.  One
   does not: an address of no more than 254 characters, but of more bytes, is
   "longer than 254 characters" however often it is corrected (NewEmail). *)
NothingToldTwice ==
  pc = "answered" =>
    \A issue \in IssuesOf("rest") \cap told :
      /\ issue = Issue("email", "too long")
      /\ ask.email.runes <= emailMaxLen /\ emailMaxLen < ask.email.len

(* Another's row, nobody's and no id at all are refused alike, whatever else is wrong
   with the request: "the answer must not double as an existence check". *)
ForeignIdsAlike ==
  pc = "answered" /\ ask.verb \in {"update", "delete"} /\ ask.id \in Foreign =>
    \A x \in Adapter, id \in Foreign :
      Answer(x, [ask EXCEPT !.id = id], "") = reply[x]

(* What is stored is in the form the rules leave alone, through every change: an
   address spelt another way cannot "slip past the unique index" (Email), and a
   client can send back what it was told. *)
StoredIsNormal ==
  Live => /\ NameIssues(row.name) = <<>> /\ ~row.name.pad
          /\ EmailIssues(row.email) = <<>> /\ ~row.email.pad /\ ~row.email.upper

(* "The values sort by time on their own": an identifier of a later millisecond is
   the greater string, and of the same one only when it begins alike; no two that
   differ in what they were drawn from are the same. *)
IdsSortByTime ==
  [][LET begins(id) == SubSeq(id.text, 1, Chars - 2 * ByteBits)
     IN  /\ drawn.ms < drawn'.ms => Before(drawn.text, drawn'.text)
         /\ drawn.ms = drawn'.ms <=> begins(drawn) = begins(drawn')
         /\ drawn.text = drawn'.text => drawn = drawn'
    ]_vars
=============================================================================
