-------------------------- MODULE HttpCommandProofs --------------------------
(***************************************************************************)
(* Proofs about HttpCommand, for any sites, timeouts and numbers of        *)
(* attempts and redirects, and about the client's table of commands.       *)
(***************************************************************************)
EXTENDS HttpCommand, ClientCommands, TLAPS, WellFoundedInduction

(***************************************************************************)
(* Payloads and tokens stay home.                                          *)
(***************************************************************************)
\* Away from home there is neither, on whichever hop; a stream is only ever
\* transferred by a command that has one.
HomeInv ==
  /\ StaysHome
  /\ site # Home => ~token /\ cmd.body = "none"
  /\ phase = "transfer" => cmd.body = "stream"

\* Sending to where the attempt is, with the body of the command or less.
LEMMA SendHome ==
  ASSUME HomeInv, NEW body, site # Home => body = "none", wire' = wire \cup {Request(body)}
  PROVE  StaysHome'
<1>1. ASSUME NEW r \in wire', r.site # Home PROVE ~r.token /\ r.body = "none"
  <2>1. CASE r \in wire
    BY <1>1, <2>1 DEF HomeInv, StaysHome
  <2>2. CASE r = Request(body)
    <3>1. r.site = site /\ r.body = body /\ r.token = token
      BY <2>2 DEF Request
    <3> QED
      BY <1>1, <3>1 DEF HomeInv
  <2> QED
    BY <2>1, <2>2
<1> QED
  BY <1>1 DEF StaysHome

\* A redirect that is not refused leads away only what may leave.
LEMMA RefusalFacts ==
  ASSUME NEW elsewhere \in BOOLEAN, Refusal(elsewhere) = None, elsewhere
  PROVE  ~token /\ cmd.body = "none"
<1>1. None \notin {"Credentials", "Body", "Payload", "TooMany"}
  BY TimesAssumption
<1> QED
  BY <1>1 DEF Refusal, Replayable, CarriesData

LEMMA HomeInductive == HomeInv /\ [Next]_vars => HomeInv'
<1> SUFFICES ASSUME HomeInv, [Next]_vars PROVE HomeInv'
  OBVIOUS
<1> USE DEF callVars, retryVars, historyVars
<1>1. ASSUME UNCHANGED <<cmd, token, wire>>, site' \in {site, Home}, phase' # "transfer"
      PROVE  HomeInv'
  BY <1>1 DEF HomeInv, StaysHome
<1>2. ASSUME UNCHANGED <<cmd, token, site>>, phase' # "transfer" \/ phase' = phase,
             \A r \in wire' : r \in wire
      PROVE  HomeInv'
  BY <1>2 DEF HomeInv, StaysHome
<1>3. CASE Start
  BY <1>1, <1>3 DEF Start, AttemptEnds
<1>4. CASE Hop
  BY <1>1, <1>4 DEF Hop, AttemptEnds
<1>5. CASE SendRequest
  <2>1. /\ wire' = wire \cup {Request(cmd.body)} /\ phase' = "answer"
        /\ UNCHANGED <<cmd, token, site>>
    BY <1>5 DEF SendRequest
  <2>2. StaysHome'
    BY <2>1, SendHome DEF HomeInv
  <2> QED
    BY <2>1, <2>2 DEF HomeInv
<1>6. CASE BeginTransfer
  BY <1>6 DEF BeginTransfer, HomeInv, StaysHome
<1>7. CASE EndTransfer
  <2>1. /\ wire' = wire \cup {Request(IF drained THEN "nothing" ELSE "stream")}
        /\ phase = "transfer" /\ phase' = "answer" /\ UNCHANGED <<cmd, token, site>>
    BY <1>7 DEF EndTransfer
  <2>2. site = Home
    BY <2>1 DEF HomeInv
  <2>3. StaysHome'
    BY <2>1, <2>2, SendHome
  <2> QED
    BY <2>1, <2>2, <2>3 DEF HomeInv
<1>8. CASE Tick
  BY <1>2, <1>8 DEF Tick
<1>9. CASE TimeOut \/ Break \/ ErrorHeader \/ ReadBody
  BY <1>1, <1>9 DEF TimeOut, Break, ErrorHeader, ReadBody, AttemptEnds
<1>10. CASE Redirected
  <2>1. UNCHANGED <<cmd, token, wire>>
    BY <1>10 DEF Redirected
  <2>2. CASE site' = site /\ phase' # "transfer"
    BY <1>1, <2>1, <2>2
  <2>3. CASE /\ Refusal(answer.to # site) = None /\ site' = answer.to /\ phase' = "hop"
    <3>1. site' # Home => ~token /\ cmd.body = "none"
      BY <2>3, RefusalFacts DEF HomeInv
    <3> QED
      BY <2>1, <2>3, <3>1 DEF HomeInv, StaysHome
  <2> QED
    BY <1>10, <2>2, <2>3 DEF Redirected, AttemptEnds
<1>11. CASE Headers
  BY <1>1, <1>11 DEF Headers, AttemptEnds
<1>12. CASE Wake
  BY <1>1, <1>12 DEF Wake
<1>13. CASE Cluster
  BY <1>2, <1>13 DEF Cluster, Execute, Redirect, Refuse, Deal
<1>14. CASE UNCHANGED vars
  BY <1>2, <1>14 DEF vars
<1> QED
  BY <1>3, <1>4, <1>5, <1>6, <1>7, <1>8, <1>9, <1>10, <1>11, <1>12, <1>13, <1>14
  DEF Next, Client

\* Whatever chain of redirects an attempt follows, neither the token nor a body
\* reaches an origin other than the one the command was sent to.
THEOREM NothingLeavesHome == Spec => []StaysHome
<1>1. Init => HomeInv
  BY DEF Init, HomeInv, StaysHome
<1>2. HomeInv => StaysHome
  BY DEF HomeInv
<1> QED
  BY <1>1, <1>2, HomeInductive, PTL DEF Spec

-----------------------------------------------------------------------------
(***************************************************************************)
(* Done once, and done when Ok.                                            *)
(***************************************************************************)
\* What the table of commands owes the retry loop: what must not be done twice
\* is repeated under a mutation id or not at all, and a stream, which cannot be
\* rewound, is uploaded and never repeated.
TableIsSafe ==
  \A p \in Profiles :
    /\ p.effect = "once" => p.repeatable \in {"WithMutationId", "Never", "Heavy"}
    /\ p.body = "stream" => p.form = "upload" /\ p.repeatable \in {"Never", "Heavy"}

CountersOK ==
  /\ cmd \in Profiles
  /\ attempt \in Nat \ {0} /\ attempt <= Allowed
  /\ phase = "sleep" => attempt < Allowed
  /\ effects \in 0..2
  /\ phase \in {"start", "hop", "request", "transfer", "answer", "body", "sleep", "done"}

\* Every request carries the body the command has: a stream is read once, in
\* the only request of its only attempt.
BodyOK ==
  /\ whole = TRUE
  /\ \A r \in wire : r.body = cmd.body
  /\ phase = "transfer" => cmd.body = "stream"
  /\ drained => cmd.body = "stream" /\ phase \in {"answer", "body", "done"}

\* An answer is about a request that was sent, and a success about one that was
\* carried out.
AnswerOK ==
  /\ phase \notin {"answer", "body"} => answer = None
  /\ phase = "body" => answer # None /\ answer.kind = "status"
  /\ answer # None /\ answer.kind = "status" /\ answer.outcome = "Ok" /\ cmd.effect # "none" =>
       effects > 0
  /\ answer # None /\ answer.kind = "header" => answer.outcome # "Ok"
  /\ result = "Ok" /\ cmd.effect # "none" => effects > 0

\* A command that is attempted once is on the wire or has taken effect, never
\* both, and neither while it may still be sent.
SingleOK ==
  Allowed = 1 =>
    /\ \A q, r \in wire : q = r
    /\ effects > 0 => wire = {} /\ effects = 1
    /\ phase \in {"start", "hop", "request", "transfer", "sleep"} => wire = {} /\ effects = 0
    /\ phase = "answer" /\ answer # None /\ answer.kind = "redirect" => wire = {} /\ effects = 0

MarkedOK == cmd.repeatable = "WithMutationId" => effects <= 1

DoneInv == CountersOK /\ BodyOK /\ AnswerOK /\ SingleOK /\ MarkedOK

LEMMA AllowedFacts ==
  /\ Allowed \in Nat \ {0}
  /\ cmd.repeatable \in {"Never", "Heavy"} => Allowed = 1
BY TimesAssumption DEF Allowed

\* The end of an attempt, from any of the places where it can end.
LEMMA EndInv ==
  ASSUME TableIsSafe, DoneInv, NEW outcome, AttemptEnds(outcome),
         UNCHANGED <<cmd, attempt, drained, wire, effects, whole>>,
         outcome = "Ok" /\ cmd.effect # "none" => effects > 0
  PROVE  DoneInv'
<1>1. \/ phase' = "done" /\ result' = outcome
      \/ phase' = "sleep" /\ result' = result /\ attempt < Allowed
  BY AllowedFacts DEF AttemptEnds, DoneInv, CountersOK
<1>2. answer' = None /\ Allowed' = Allowed
  BY DEF AttemptEnds, Allowed
<1>3. CountersOK'
  BY <1>1, <1>2 DEF DoneInv, CountersOK
<1>4. BodyOK'
  BY <1>1, AllowedFacts DEF DoneInv, BodyOK, CountersOK, TableIsSafe
<1>5. AnswerOK'
  BY <1>1, <1>2 DEF DoneInv, AnswerOK
<1>6. SingleOK'
  BY <1>1, <1>2 DEF DoneInv, SingleOK, CountersOK
<1>7. MarkedOK'
  BY DEF DoneInv, MarkedOK
<1> QED
  BY <1>3, <1>4, <1>5, <1>6, <1>7 DEF DoneInv

\* A step of the client before anything is sent.
LEMMA BeforeInv ==
  ASSUME DoneInv, UNCHANGED <<cmd, attempt, drained, wire, effects, whole, result>>,
         phase \in {"start", "hop", "request"}, answer' = answer,
         phase' \in {"start", "hop", "request", "transfer"},
         phase' = "transfer" => cmd.body = "stream"
  PROVE  DoneInv'
BY DEF DoneInv, CountersOK, BodyOK, AnswerOK, SingleOK, MarkedOK, Allowed

\* A request is sent, with the body of the command.
LEMMA SentInv ==
  ASSUME DoneInv, UNCHANGED <<cmd, attempt, effects, whole, result, answer>>,
         phase \in {"request", "transfer"}, phase' = "answer", NEW r,
         r.body = cmd.body, wire' = wire \cup {r}, drained' => cmd.body = "stream"
  PROVE  DoneInv'
<1>1. answer = None
  BY DEF DoneInv, AnswerOK
<1>2. CountersOK' /\ MarkedOK' /\ Allowed' = Allowed
  BY DEF DoneInv, CountersOK, MarkedOK, Allowed
<1>3. BodyOK' /\ AnswerOK'
  BY <1>1 DEF DoneInv, BodyOK, AnswerOK
<1>4. SingleOK'
  BY <1>1, <1>2 DEF DoneInv, SingleOK, CountersOK
<1> QED
  BY <1>2, <1>3, <1>4 DEF DoneInv

\* The cluster deals with a request, having carried it out or not.
LEMMA DealInv ==
  ASSUME DoneInv, NEW r \in wire, NEW a, Deal(r, a),
         a.kind = "redirect" => UNCHANGED effects,
         a.kind = "status" /\ a.outcome = "Ok" /\ cmd.effect # "none" => effects' > 0,
         a.kind = "header" => a.outcome # "Ok", a.kind \in {"redirect", "status", "header"},
         whole' = TRUE, effects' \in 0..2, effects' >= effects,
         MarkedOK', Allowed = 1 => effects' <= 1
  PROVE  DoneInv'
<1>1. /\ UNCHANGED <<cmd, attempt, phase, result, drained>> /\ wire' = wire \ {r}
      /\ answer' = IF Awaited(r) THEN a ELSE answer
  BY DEF Deal, callVars, retryVars
<1>2. CountersOK' /\ BodyOK' /\ Allowed' = Allowed
  BY <1>1 DEF DoneInv, CountersOK, BodyOK, Allowed
<1>3. AnswerOK'
  <2>1. effects \in 0..2
    BY DEF DoneInv, CountersOK
  <2> QED
    BY <1>1, <2>1 DEF DoneInv, AnswerOK, Awaited
<1>4. SingleOK'
  <2> SUFFICES ASSUME Allowed = 1 PROVE SingleOK'
    BY <1>2 DEF SingleOK
  <2>1. wire' = {} /\ effects = 0 /\ phase \notin {"start", "hop", "request", "transfer", "sleep"}
    BY <1>1 DEF DoneInv, SingleOK, CountersOK
  <2>2. ~(phase = "answer" /\ answer # None /\ answer.kind = "redirect")
    BY DEF DoneInv, SingleOK
  <2> QED
    BY <1>1, <2>1, <2>2 DEF SingleOK, Awaited
<1> QED
  BY <1>2, <1>3, <1>4 DEF DoneInv

\* A redirect that is followed: nothing was done and nothing is on the way.
LEMMA FollowInv ==
  ASSUME TableIsSafe, DoneInv, Redirected
  PROVE  DoneInv'
<1>1. /\ phase = "answer" /\ answer # None /\ answer.kind = "redirect"
      /\ UNCHANGED <<cmd, attempt, drained, wire, effects, whole>>
  BY DEF Redirected, callVars, historyVars
<1> DEFINE refused == Refusal(answer.to # site)
<1>2. CASE refused # None
  <2>1. refused # "Ok" /\ AttemptEnds(refused)
    BY <1>2, TimesAssumption DEF Redirected, Refusal
  <2> QED
    BY <1>1, <2>1, EndInv
<1>3. CASE AttemptEnds("Config")
  BY <1>1, <1>3, EndInv
<1>4. CASE /\ refused = None /\ phase' = "hop" /\ answer' = None /\ result' = result
  <2>1. cmd.body # "stream"
    BY <1>4, TimesAssumption DEF Refusal, Replayable
  <2>2. ~drained
    BY <2>1 DEF DoneInv, BodyOK
  <2>3. CountersOK' /\ MarkedOK' /\ Allowed' = Allowed
    BY <1>1, <1>4 DEF DoneInv, CountersOK, MarkedOK, Allowed
  <2>4. BodyOK' /\ AnswerOK'
    BY <1>1, <1>4, <2>2 DEF DoneInv, BodyOK, AnswerOK
  <2>5. SingleOK'
    BY <1>1, <1>4, <2>3 DEF DoneInv, SingleOK
  <2> QED
    BY <2>3, <2>4, <2>5 DEF DoneInv
<1> QED
  BY <1>2, <1>3, <1>4 DEF Redirected

\* An attempt that ends on what was answered says Ok only if it was.
LEMMA AnswerEndsInv ==
  ASSUME TableIsSafe, DoneInv, TimeOut \/ Break \/ ErrorHeader \/ ReadBody
  PROVE  DoneInv'
<1>1. UNCHANGED <<cmd, attempt, drained, wire, effects, whole>>
  BY DEF TimeOut, Break, ErrorHeader, ReadBody, callVars, historyVars
<1>2. CASE TimeOut \/ Break
  <2>1. AttemptEnds("Transport") \/ AttemptEnds("Untrusted")
    BY <1>2 DEF TimeOut, Break
  <2> QED
    BY <1>1, <2>1, EndInv
<1>3. CASE ErrorHeader
  <2>1. answer.outcome # "Ok" /\ AttemptEnds(answer.outcome)
    BY <1>3 DEF ErrorHeader, DoneInv, AnswerOK
  <2> QED
    BY <1>1, <2>1, EndInv
<1>4. CASE ReadBody
  <2>1. answer.outcome = "Ok" /\ cmd.effect # "none" => effects > 0
    BY <1>4 DEF ReadBody, DoneInv, AnswerOK
  <2>2. CASE AttemptEnds(answer.outcome)
    BY <1>1, <2>1, <2>2, EndInv
  <2>3. CASE AttemptEnds("Transport")
    BY <1>1, <2>3, EndInv
  <2>4. CASE AttemptEnds("ResponseTooLarge")
    BY <1>1, <2>4, EndInv
  <2> QED
    BY <1>4, <2>2, <2>3, <2>4 DEF ReadBody, CutBody, LongBody
<1> QED
  BY <1>2, <1>3, <1>4

\* Carrying out a request: once for a command that is attempted once, and once
\* for each mutation id.
LEMMA ClusterInv ==
  ASSUME TableIsSafe, DoneInv, Cluster
  PROVE  DoneInv'
<1>1. PICK r \in wire : Execute(r) \/ Redirect(r) \/ Refuse(r)
  BY DEF Cluster
<1>2. effects \in 0..2 /\ whole = TRUE /\ r.body = cmd.body /\ MarkedOK
      /\ (Allowed = 1 => effects = 0)
  BY DEF DoneInv, CountersOK, BodyOK, SingleOK
<1>3. CASE Execute(r)
  <2> DEFINE a == [kind |-> "status", outcome |-> "Ok"]
  <2>1. Deal(r, a) /\ cmd' = cmd
    BY <1>3 DEF Execute, Deal, callVars
  <2>2. CASE (cmd.effect = "none" \/ (cmd.repeatable = "WithMutationId" /\ effects > 0))
             /\ UNCHANGED historyVars
    <3>1. effects' = effects /\ whole' = whole
      BY <2>2 DEF historyVars
    <3>2. MarkedOK'
      BY <1>2, <2>1, <3>1 DEF MarkedOK
    <3>3. a.kind = "status" /\ a.outcome = "Ok"
      OBVIOUS
    <3> HIDE DEF a
    <3> QED
      BY <1>2, <2>1, <2>2, <3>1, <3>2, <3>3, DealInv
  <2>3. CASE /\ ~(cmd.repeatable = "WithMutationId" /\ effects > 0)
             /\ effects' = Lesser(effects + 1, 2) /\ whole' = (whole /\ r.body = cmd.body)
    <3>1. effects' \in 0..2 /\ effects' > 0 /\ effects' >= effects
          /\ (effects = 0 => effects' = 1)
      BY <1>2, <2>3 DEF Lesser
    <3>2. whole' = TRUE
      BY <1>2, <2>3
    <3>3. MarkedOK'
      BY <1>2, <2>1, <2>3, <3>1 DEF MarkedOK
    <3>4. a.kind = "status" /\ a.outcome = "Ok"
      OBVIOUS
    <3> HIDE DEF a
    <3> QED
      BY <1>2, <2>1, <3>1, <3>2, <3>3, <3>4, DealInv
  <2> QED
    BY <1>3, <2>2, <2>3 DEF Execute
<1>4. CASE Redirect(r) \/ Refuse(r)
  <2>1. effects' = effects /\ whole' = whole /\ cmd' = cmd
    BY <1>4 DEF Redirect, Refuse, Deal, historyVars, callVars
  <2>2. MarkedOK'
    BY <1>2, <2>1 DEF MarkedOK
  <2>3. PICK a : /\ Deal(r, a) /\ a.kind \in {"redirect", "status", "header"}
                 /\ a.kind # "redirect" => a.outcome # "Ok"
    <3>1. CASE Redirect(r)
      <4>1. PICK to \in Sites : Deal(r, [kind |-> "redirect", to |-> to])
        BY <3>1 DEF Redirect
      <4> QED
        BY <4>1
    <3>2. CASE Refuse(r)
      <4>1. PICK kind \in {"header", "status"}, outcome \in {"busy", "error"} :
              Deal(r, [kind |-> kind, outcome |-> outcome])
        BY <3>2 DEF Refuse
      <4> QED
        BY <4>1
    <3> QED
      BY <1>4, <3>1, <3>2
  <2> QED
    BY <1>2, <2>1, <2>2, <2>3, DealInv
<1> QED
  BY <1>1, <1>3, <1>4

LEMMA DoneInductive == TableIsSafe /\ DoneInv /\ [Next]_vars => DoneInv'
<1> SUFFICES ASSUME TableIsSafe, DoneInv, [Next]_vars PROVE DoneInv'
  OBVIOUS
<1> USE DEF callVars, retryVars, historyVars
<1>1. CASE Start
  <2>1. CASE AttemptEnds("Config")
    BY <1>1, <2>1, EndInv DEF Start
  <2>2. CASE phase' = "hop" /\ UNCHANGED <<timer, answer, waits, result>>
    BY <1>1, <2>2, BeforeInv DEF Start
  <2> QED
    BY <1>1, <2>1, <2>2 DEF Start
<1>2. CASE Hop
  <2>1. CASE AttemptEnds("Transport")
    BY <1>2, <2>1, EndInv DEF Hop
  <2>2. CASE phase' = "request" /\ UNCHANGED <<answer, waits, result>>
    BY <1>2, <2>2, BeforeInv DEF Hop
  <2> QED
    BY <1>2, <2>1, <2>2 DEF Hop
<1>3. CASE SendRequest
  <2>1. Request(cmd.body).body = cmd.body
    BY DEF Request
  <2>2. drained' => cmd.body = "stream"
    BY <1>3 DEF SendRequest, DoneInv, BodyOK
  <2> QED
    BY <1>3, <2>1, <2>2, SentInv DEF SendRequest
<1>4. CASE BeginTransfer
  BY <1>4, BeforeInv DEF BeginTransfer
<1>5. CASE EndTransfer
  <2>1. ~drained /\ cmd.body = "stream"
    BY <1>5 DEF EndTransfer, DoneInv, BodyOK
  <2>2. wire' = wire \cup {Request("stream")} /\ Request("stream").body = cmd.body
    BY <1>5, <2>1 DEF EndTransfer, Request
  <2> QED
    BY <1>5, <2>1, <2>2, SentInv DEF EndTransfer
<1>6. CASE Tick
  BY <1>6 DEF Tick, DoneInv, CountersOK, BodyOK, AnswerOK, SingleOK, MarkedOK, Allowed
<1>7. CASE TimeOut \/ Break \/ ErrorHeader \/ ReadBody
  BY <1>7, AnswerEndsInv
<1>8. CASE Redirected
  BY <1>8, FollowInv
<1>9. CASE Headers
  <2>1. CASE answer.outcome = "Ok" /\ AttemptEnds("Ok")
    <3>1. cmd.effect # "none" => effects > 0
      BY <1>9, <2>1 DEF Headers, DoneInv, AnswerOK
    <3> QED
      BY <1>9, <2>1, <3>1, EndInv DEF Headers
  <2>2. CASE phase' = "body" /\ UNCHANGED <<answer, waits, result>>
    BY <1>9, <2>2
    DEF Headers, DoneInv, CountersOK, BodyOK, AnswerOK, SingleOK, MarkedOK, Allowed
  <2> QED
    BY <1>9, <2>1, <2>2 DEF Headers
<1>10. CASE Wake
  <2>1. attempt < Allowed /\ Allowed # 1
    BY <1>10, AllowedFacts DEF Wake, DoneInv, CountersOK
  <2>2. /\ phase = "sleep" /\ phase' = "start" /\ attempt' = attempt + 1
        /\ UNCHANGED <<cmd, result, drained, answer, wire, effects, whole>>
    BY <1>10 DEF Wake
  <2>3. Allowed' = Allowed
    BY <2>2 DEF Allowed
  <2>4. CountersOK'
    BY <2>1, <2>2, <2>3, AllowedFacts DEF DoneInv, CountersOK
  <2>5. BodyOK' /\ AnswerOK' /\ MarkedOK'
    BY <2>2 DEF DoneInv, BodyOK, AnswerOK, MarkedOK
  <2>6. SingleOK'
    BY <2>1, <2>3 DEF SingleOK
  <2> QED
    BY <2>4, <2>5, <2>6 DEF DoneInv
<1>11. CASE Cluster
  BY <1>11, ClusterInv
<1>12. CASE UNCHANGED vars
  BY <1>12 DEF vars, DoneInv, CountersOK, BodyOK, AnswerOK, SingleOK, MarkedOK, Allowed
<1> QED
  BY <1>1, <1>2, <1>3, <1>4, <1>5, <1>6, <1>7, <1>8, <1>9, <1>10, <1>11, <1>12
  DEF Next, Client

LEMMA DoneInvHolds == TableIsSafe => (Spec => []DoneInv)
<1> SUFFICES ASSUME TableIsSafe PROVE Spec => []DoneInv
  OBVIOUS
<1>1. ASSUME Init PROVE DoneInv
  <2>1. CountersOK
    BY <1>1, AllowedFacts DEF Init, CountersOK
  <2>2. BodyOK /\ AnswerOK /\ SingleOK /\ MarkedOK
    BY <1>1, TimesAssumption DEF Init, BodyOK, AnswerOK, SingleOK, MarkedOK
  <2> QED
    BY <2>1, <2>2 DEF DoneInv
<1> QED
  BY <1>1, DoneInductive, PTL DEF Spec

\* Ok is returned once, at the end, and by a command that buffers its answer for
\* one whose body arrived whole.
WholeInv ==
  /\ phase # "done" => result # "Ok"
  /\ result = "Ok" /\ ~Streaming => received = "whole"

LEMMA WholeInductive == DoneInv /\ WholeInv /\ [Next]_vars => WholeInv'
<1> SUFFICES ASSUME DoneInv, WholeInv, [Next]_vars PROVE WholeInv'
  OBVIOUS
<1> USE DEF callVars, retryVars, historyVars
<1>1. ASSUME cmd' = cmd, result' = result, phase' # "done" \/ phase' = phase,
             phase' = "done" \/ phase # "done", received' = received \/ phase # "done"
      PROVE  WholeInv'
  BY <1>1 DEF WholeInv, Streaming
<1>2. ASSUME NEW outcome, AttemptEnds(outcome), cmd' = cmd, phase # "done",
             outcome = "Ok" /\ ~Streaming => received' = "whole"
      PROVE  WholeInv'
  <2>1. \/ phase' = "done" /\ result' = outcome
        \/ phase' = "sleep" /\ result' = result
    BY <1>2 DEF AttemptEnds
  <2>2. Streaming' <=> Streaming
    BY <1>2 DEF Streaming
  <2> QED
    BY <1>2, <2>1, <2>2 DEF WholeInv
<1>3. CASE Start
  <2>1. CASE AttemptEnds("Config")
    BY <1>2, <1>3, <2>1 DEF Start
  <2>2. CASE phase' = "hop" /\ result' = result
    BY <1>1, <1>3, <2>2 DEF Start
  <2> QED
    BY <1>3, <2>1, <2>2 DEF Start
<1>4. CASE Hop
  <2>1. CASE AttemptEnds("Transport")
    BY <1>2, <1>4, <2>1 DEF Hop
  <2>2. CASE phase' = "request" /\ result' = result
    BY <1>1, <1>4, <2>2 DEF Hop
  <2> QED
    BY <1>4, <2>1, <2>2 DEF Hop
<1>5. CASE SendRequest \/ BeginTransfer \/ EndTransfer \/ Wake
  BY <1>1, <1>5 DEF SendRequest, BeginTransfer, EndTransfer, Wake
<1>6. CASE TimeOut \/ Break
  <2>1. AttemptEnds("Transport") \/ AttemptEnds("Untrusted")
    BY <1>6 DEF TimeOut, Break
  <2> QED
    BY <1>2, <1>6, <2>1 DEF TimeOut, Break
<1>7. CASE Redirected
  <2> DEFINE refused == Refusal(answer.to # site)
  <2>1. CASE refused # None
    <3>1. refused # "Ok" /\ AttemptEnds(refused)
      BY <1>7, <2>1, TimesAssumption DEF Redirected, Refusal
    <3> QED
      BY <1>2, <1>7, <3>1 DEF Redirected
  <2>2. CASE AttemptEnds("Config")
    BY <1>2, <1>7, <2>2 DEF Redirected
  <2>3. CASE phase' = "hop" /\ result' = result
    BY <1>1, <1>7, <2>3 DEF Redirected
  <2> QED
    BY <1>7, <2>1, <2>2, <2>3 DEF Redirected
<1>8. CASE ErrorHeader
  <2>1. answer.outcome # "Ok"
    BY <1>8 DEF ErrorHeader, DoneInv, AnswerOK
  <2> QED
    BY <1>2, <1>8, <2>1 DEF ErrorHeader
<1>9. CASE Headers
  <2>1. CASE cmd.form = "open" /\ AttemptEnds("Ok")
    BY <1>2, <1>9, <2>1 DEF Headers, Streaming
  <2>2. CASE phase' = "body" /\ result' = result
    BY <1>1, <1>9, <2>2 DEF Headers
  <2> QED
    BY <1>9, <2>1, <2>2 DEF Headers
<1>10. CASE ReadBody
  <2>1. cmd' = cmd /\ phase # "done"
    BY <1>10 DEF ReadBody
  <2>2. CASE received' = "whole" /\ AttemptEnds(answer.outcome)
    BY <1>2, <2>1, <2>2
  <2>3. CASE AttemptEnds(CutBody)
    BY <1>2, <2>1, <2>3 DEF CutBody
  <2>4. CASE AttemptEnds(LongBody)
    BY <1>2, <2>1, <2>4 DEF LongBody, CutBody
  <2> QED
    BY <1>10, <2>2, <2>3, <2>4 DEF ReadBody
<1>11. CASE Tick \/ Cluster
  BY <1>1, <1>11 DEF Tick, Cluster, Execute, Redirect, Refuse, Deal
<1>12. CASE UNCHANGED vars
  BY <1>12 DEF vars, WholeInv, Streaming
<1> QED
  BY <1>3, <1>4, <1>5, <1>6, <1>7, <1>8, <1>9, <1>10, <1>11, <1>12 DEF Next, Client

LEMMA WholeInvHolds == TableIsSafe => (Spec => []WholeInv)
<1> SUFFICES ASSUME TableIsSafe PROVE Spec => []WholeInv
  OBVIOUS
<1>1. Init => WholeInv
  BY TimesAssumption DEF Init, WholeInv
<1>2. Spec => []DoneInv
  BY DoneInvHolds
<1> QED
  BY <1>1, <1>2, WholeInductive, PTL DEF Spec

LEMMA DoneInvSuffices ==
  /\ TableIsSafe /\ DoneInv => EffectOnce
  /\ DoneInv /\ WholeInv => OkMeansDone
<1>0. DoneInv /\ WholeInv => OkMeansDone
  BY DEF DoneInv, AnswerOK, BodyOK, WholeInv, OkMeansDone
<1> SUFFICES ASSUME TableIsSafe, DoneInv PROVE EffectOnce
  BY <1>0
<1>2. cmd.effect = "once" => Allowed = 1 \/ cmd.repeatable = "WithMutationId"
  BY AllowedFacts DEF TableIsSafe, DoneInv, CountersOK
<1>3. Allowed = 1 => effects <= 1
  BY DEF DoneInv, SingleOK, CountersOK
<1> QED
  BY <1>2, <1>3 DEF EffectOnce, DoneInv, MarkedOK

-----------------------------------------------------------------------------
(***************************************************************************)
(* The client's own table.                                                 *)
(***************************************************************************)
ClientProfiles == {Profile(c) : c \in Commands}

\* Every command of the client is in a class of retry.rs that suits what it does.
LEMMA EveryCommandIsSafe ==
  \A c \in Commands :
    /\ Effect(c.name) = "once" => c.repeatable \in {"WithMutationId", "Never", "Heavy"}
    /\ c.body = "stream" => c.form = "upload" /\ c.repeatable \in {"Never", "Heavy"}
<1> USE DEF Command, Effect, Read, Mutation
<1>1. ASSUME NEW c \in Commands,
             c.repeatable \notin {"WithMutationId", "Never", "Heavy"}
      PROVE  Effect(c.name) # "once"
  BY <1>1 DEF Commands, Exists, Create, CreateTable, AlterTable, RemoveWith, List, Transfer,
     LinkInner, LockInner, Get, GetAs, SetAttribute, FileFromCache, PutFileToCache,
     WriteFileInner, ReadFile, ReadFileStreaming, WriteYsonTable, WriteSkiffTable,
     ReadYsonTable, ReadSkiffTable, WriteTableRows, WriteTableStreaming, ReadTableStreaming,
     LookupRows, SelectRows, ModifyRows, StartOperation, AbortOperation, SuspendOperation,
     ResumeOperation, CompleteOperation, UpdateOperationParameters, ListOperations,
     ListOperationEvents, GetOperationBody, ListJobs, GetJob, GetJobInput, GetJobStderr,
     StartTransaction, PingTransaction, CommitTransaction, AbortTransaction, RawCommand,
     RawCommandStreaming, RawCommandUpload, HeavyHosts
<1>2. ASSUME NEW c \in Commands, c.body = "stream"
      PROVE  c.form = "upload" /\ c.repeatable \in {"Never", "Heavy"}
  BY <1>2 DEF Commands, Exists, Create, CreateTable, AlterTable, RemoveWith, List, Transfer,
     LinkInner, LockInner, Get, GetAs, SetAttribute, FileFromCache, PutFileToCache,
     WriteFileInner, ReadFile, ReadFileStreaming, WriteYsonTable, WriteSkiffTable,
     ReadYsonTable, ReadSkiffTable, WriteTableRows, WriteTableStreaming, ReadTableStreaming,
     LookupRows, SelectRows, ModifyRows, StartOperation, AbortOperation, SuspendOperation,
     ResumeOperation, CompleteOperation, UpdateOperationParameters, ListOperations,
     ListOperationEvents, GetOperationBody, ListJobs, GetJob, GetJobInput, GetJobStderr,
     StartTransaction, PingTransaction, CommitTransaction, AbortTransaction, RawCommand,
     RawCommandStreaming, RawCommandUpload, HeavyHosts
<1> QED
  BY <1>1, <1>2

LEMMA ClientTableIsSafe == Profiles = ClientProfiles => TableIsSafe
BY EveryCommandIsSafe DEF TableIsSafe, ClientProfiles, Profile

\* A command of the client that must not be done twice takes effect at most
\* once, whatever was lost, repeated, redirected or late.
THEOREM CommandsTakeEffectOnce == Profiles = ClientProfiles => (Spec => []EffectOnce)
<1> SUFFICES ASSUME Profiles = ClientProfiles PROVE Spec => []EffectOnce
  OBVIOUS
<1>1. TableIsSafe
  BY ClientTableIsSafe
<1>2. Spec => []DoneInv
  BY <1>1, DoneInvHolds
<1>3. DoneInv => EffectOnce
  BY <1>1, DoneInvSuffices
<1> QED
  BY <1>2, <1>3, PTL

\* A command of the client that returns Ok has taken effect, with the whole body
\* it was given; and where its answer is its result, that arrived whole, whatever
\* was cut or too long on the way.
THEOREM OkIsDone == Profiles = ClientProfiles => (Spec => []OkMeansDone)
<1> SUFFICES ASSUME Profiles = ClientProfiles PROVE Spec => []OkMeansDone
  OBVIOUS
<1>1. TableIsSafe
  BY ClientTableIsSafe
<1>2. Spec => []DoneInv /\ []WholeInv
  BY <1>1, DoneInvHolds, WholeInvHolds
<1>3. DoneInv /\ WholeInv => OkMeansDone
  BY DoneInvSuffices
<1> QED
  BY <1>2, <1>3, PTL

-----------------------------------------------------------------------------
(***************************************************************************)
(* Pauses between attempts.                                                *)
(***************************************************************************)
\* What the prover does not know of exponentiation.
PowersDouble == \A n \in Nat : 2 ^ (n + 1) = 2 * 2 ^ n

\* A power of two is never nothing: there is no least exponent of one that is.
LEMMA PowersArePositive ==
  ASSUME PowersDouble, NEW n \in Nat
  PROVE  2 ^ n \in Nat \ {0}
<1> DEFINE Bad == {m \in Nat : 2 ^ m \notin Nat \ {0}}
<1>1. Bad = {}
  <2> SUFFICES ASSUME Bad # {} PROVE FALSE
    OBVIOUS
  <2>1. 0 \notin Bad
    OBVIOUS
  <2>2. PICK m \in Bad : \A k \in Bad : <<k, m>> \notin OpToRel(<, Nat)
    BY NatLessThanWellFounded, WFMin
  <2>3. m \in Nat /\ m - 1 \in Nat /\ m - 1 < m /\ (m - 1) + 1 = m
    <3>1. m # 0
      BY <2>1
    <3> QED
      BY <3>1
  <2>4. <<m - 1, m>> \in OpToRel(<, Nat)
    BY <2>3 DEF OpToRel
  <2>5. m - 1 \notin Bad
    BY <2>2, <2>4
  <2>6. 2 ^ (m - 1) \in Nat \ {0}
    BY <2>3, <2>5
  <2>7. 2 ^ m = 2 * 2 ^ (m - 1)
    BY <2>3 DEF PowersDouble
  <2> QED
    BY <2>6, <2>7
<1> QED
  BY <1>1

\* Backoff in two steps: the factor, then the pause it makes.
Factor(n) == IF n - 1 < ShiftBits THEN 2 ^ (n - 1) ELSE 2 ^ ShiftBits - 1
Pause(f) ==
  Lesser(IF InitialBackoff * f > MaxDuration THEN MaxBackoff ELSE InitialBackoff * f, MaxBackoff)

\* The factor never shrinks, also where the shift saturates.
LEMMA FactorsGrow ==
  ASSUME PowersDouble, NEW n \in Nat \ {0}
  PROVE  Factor(n) \in Nat \ {0} /\ Factor(n) <= Factor(n + 1)
<1>1. n - 1 \in Nat /\ (n - 1) + 1 = n /\ (n + 1) - 1 = n
  OBVIOUS
<1>2. ShiftBits \in Nat \ {0} /\ ShiftBits - 1 \in Nat /\ (ShiftBits - 1) + 1 = ShiftBits
  BY TimesAssumption
<1>3. 2 ^ (n - 1) \in Nat \ {0} /\ 2 ^ (ShiftBits - 1) \in Nat \ {0}
  BY <1>1, <1>2, PowersArePositive
<1>4. 2 ^ n = 2 * 2 ^ (n - 1) /\ 2 ^ ShiftBits = 2 * 2 ^ (ShiftBits - 1)
  BY <1>1, <1>2 DEF PowersDouble
<1>5. Factor(n) \in Nat \ {0}
  BY <1>2, <1>3, <1>4 DEF Factor
<1>6. CASE n < ShiftBits
  BY <1>1, <1>2, <1>3, <1>4, <1>5, <1>6 DEF Factor
<1>7. CASE n = ShiftBits
  BY <1>1, <1>2, <1>3, <1>4, <1>5, <1>7 DEF Factor
<1>8. CASE n > ShiftBits
  BY <1>1, <1>2, <1>3, <1>4, <1>5, <1>8 DEF Factor
<1> QED
  BY <1>2, <1>6, <1>7, <1>8

LEMMA PausesGrow ==
  ASSUME NEW f \in Nat \ {0}, NEW g \in Nat \ {0}, f <= g
  PROVE  /\ Pause(f) <= Pause(g)
         /\ Pause(f) \in Nat /\ Pause(f) <= MaxBackoff
         /\ InitialBackoff > 0 /\ MaxBackoff > 0 => Pause(f) > 0
<1>1. InitialBackoff \in Nat /\ MaxBackoff \in Nat /\ MaxDuration \in Nat
  BY TimesAssumption
<1>2. InitialBackoff * f \in Nat /\ InitialBackoff * g \in Nat
      /\ InitialBackoff * f <= InitialBackoff * g
      /\ (InitialBackoff > 0 => InitialBackoff * f > 0)
  BY <1>1
<1> QED
  BY <1>1, <1>2 DEF Pause, Lesser

\* The pauses retry::run takes, however many: never shrinking, never past the
\* cap, and never nothing when there is any backoff at all.
LEMMA BackoffFacts ==
  ASSUME PowersDouble, NEW n \in Nat \ {0}
  PROVE  /\ Backoff(n) \in Nat /\ Backoff(n) <= MaxBackoff
         /\ InitialBackoff > 0 /\ MaxBackoff > 0 => Backoff(n) > 0
         /\ Backoff(n) <= Backoff(n + 1)
<1>1. \A k \in Nat \ {0} : Backoff(k) = Pause(Factor(k))
  BY DEF Backoff, Pause, Factor
<1>2. n + 1 \in Nat \ {0} /\ Factor(n) <= Factor(n + 1)
      /\ Factor(n) \in Nat \ {0} /\ Factor(n + 1) \in Nat \ {0}
  BY FactorsGrow
<1> HIDE DEF Backoff, Pause, Factor
<1> QED
  BY <1>1, <1>2, PausesGrow

\* The pauses so far are those of the attempts so far.
WaitsOK ==
  /\ attempt \in Nat \ {0}
  /\ waits \in Seq(Int)
  /\ Len(waits) = IF phase = "sleep" THEN attempt ELSE attempt - 1
  /\ \A i \in 1..Len(waits) : waits[i] = Backoff(i)

LEMMA WaitsSuffice == PowersDouble /\ WaitsOK => WaitsGrow
<1> SUFFICES ASSUME PowersDouble, WaitsOK, NEW i \in DOMAIN waits
             PROVE  /\ waits[i] <= MaxBackoff
                    /\ InitialBackoff > 0 /\ MaxBackoff > 0 => waits[i] > 0
                    /\ i > 1 => waits[i - 1] <= waits[i]
  BY DEF WaitsGrow
<1>1. i \in 1..Len(waits) /\ i \in Nat \ {0} /\ waits[i] = Backoff(i)
  BY DEF WaitsOK
<1>2. ASSUME i > 1 PROVE waits[i - 1] <= waits[i]
  <2>1. i - 1 \in 1..Len(waits) /\ i - 1 \in Nat \ {0} /\ (i - 1) + 1 = i
    BY <1>1, <1>2 DEF WaitsOK
  <2>2. waits[i - 1] = Backoff(i - 1)
    BY <2>1 DEF WaitsOK
  <2> QED
    BY <1>1, <2>1, <2>2, BackoffFacts
<1> QED
  BY <1>1, <1>2, BackoffFacts

\* The end of an attempt adds the pause that belongs to it, or none.
LEMMA EndWaits ==
  ASSUME WaitsOK, NEW outcome, AttemptEnds(outcome), attempt' = attempt, phase # "sleep",
         PowersDouble
  PROVE  WaitsOK'
<1>1. Backoff(attempt) \in Int
  BY BackoffFacts DEF WaitsOK
<1>2. CASE phase' = "done" /\ waits' = waits
  BY <1>2 DEF WaitsOK
<1>3. CASE phase' = "sleep" /\ waits' = Append(waits, Backoff(attempt))
  <2>1. Len(waits) = attempt - 1 /\ waits \in Seq(Int) /\ attempt \in Nat \ {0}
    BY DEF WaitsOK
  <2>2. /\ waits' \in Seq(Int) /\ Len(waits') = attempt
        /\ waits'[attempt] = Backoff(attempt)
        /\ \A i \in 1..Len(waits) : waits'[i] = waits[i]
    BY <1>1, <1>3, <2>1
  <2>3. ASSUME NEW i \in 1..Len(waits') PROVE waits'[i] = Backoff(i)
    BY <2>1, <2>2 DEF WaitsOK
  <2> QED
    BY <1>3, <2>1, <2>2, <2>3 DEF WaitsOK
<1> QED
  BY <1>2, <1>3 DEF AttemptEnds

LEMMA WaitsInductive == PowersDouble /\ WaitsOK /\ [Next]_vars => WaitsOK'
<1> SUFFICES ASSUME PowersDouble, WaitsOK, [Next]_vars PROVE WaitsOK'
  OBVIOUS
<1> USE DEF callVars, retryVars
<1>1. CASE Wake
  BY <1>1 DEF Wake, WaitsOK
<1>2. CASE UNCHANGED <<attempt, waits>> /\ (phase' = "sleep" <=> phase = "sleep")
  BY <1>2 DEF WaitsOK
<1>3. CASE attempt' = attempt /\ phase # "sleep" /\ \E outcome : AttemptEnds(outcome)
  BY <1>3, EndWaits
<1>4. CASE Start \/ Hop \/ SendRequest \/ BeginTransfer \/ EndTransfer
  BY <1>2, <1>3, <1>4 DEF Start, Hop, SendRequest, BeginTransfer, EndTransfer
<1>5. CASE TimeOut \/ Break \/ ErrorHeader \/ ReadBody
  BY <1>3, <1>5 DEF TimeOut, Break, ErrorHeader, ReadBody
<1>6. CASE Redirected
  BY <1>2, <1>3, <1>6 DEF Redirected
<1>7. CASE Headers
  BY <1>2, <1>3, <1>7 DEF Headers
<1>8. CASE Tick \/ Cluster
  BY <1>2, <1>8 DEF Tick, Cluster, Execute, Redirect, Refuse, Deal
<1>9. CASE UNCHANGED vars
  BY <1>2, <1>9 DEF vars
<1> QED
  BY <1>1, <1>4, <1>5, <1>6, <1>7, <1>8, <1>9 DEF Next, Client

-----------------------------------------------------------------------------
(***************************************************************************)
(* The deadline of an attempt.                                             *)
(***************************************************************************)
Limit == IF cmd.form = "fetch" THEN HostsTimeout ELSE Timeout

\* A buffered command's attempt runs under one deadline: every request it makes
\* is given up then, whatever hop it is on, and it has no stream to transfer.
ClockOK ==
  /\ cmd \in Profiles
  /\ now \in Nat
  /\ phase = "transfer" => cmd.body = "stream"
  /\ ~Streaming =>
       /\ now <= Limit
       /\ timer \in {None, Limit}
       /\ phase \in {"hop", "request", "answer", "body"} => deadline = Limit

LEMMA LimitFacts ==
  /\ Limit \in Nat /\ None \notin Nat
  /\ TableIsSafe /\ cmd \in Profiles /\ cmd.body = "stream" => Streaming
  /\ ~Streaming => Deadline = Limit
BY TimesAssumption DEF Limit, TableIsSafe, Streaming, Deadline

LEMMA ClockInductive == TableIsSafe /\ ClockOK /\ [Next]_vars => ClockOK'
<1> SUFFICES ASSUME TableIsSafe, ClockOK, [Next]_vars PROVE ClockOK'
  OBVIOUS
<1> USE DEF callVars, retryVars
<1>1. cmd' = cmd /\ Limit' = Limit /\ (Streaming' <=> Streaming)
  <2>1. cmd' = cmd
    BY DEF Next, Client, vars, Start, Hop, SendRequest, BeginTransfer, EndTransfer, TimeOut,
       Break, Redirected, ErrorHeader, Headers, Wake, Tick, ReadBody, Cluster, Execute,
       Redirect, Refuse, Deal
  <2> QED
    BY <2>1 DEF Limit, Streaming
<1>2. ASSUME now' = now, phase' # "transfer" \/ phase' = phase, timer' \in {None, timer},
             deadline' = deadline,
             phase' \in {"hop", "request", "answer", "body"} =>
               phase \in {"hop", "request", "answer", "body"}
      PROVE  ClockOK'
  BY <1>1, <1>2 DEF ClockOK
<1>3. ASSUME NEW outcome, AttemptEnds(outcome), now' = now, deadline' = deadline
      PROVE  ClockOK'
  BY <1>2, <1>3 DEF AttemptEnds
<1>4. CASE Start
  <2>1. now' = 0 /\ phase' \in {"hop", "sleep", "done"} /\ timer' \in {None, timer}
        /\ (phase' = "hop" => deadline' = Deadline)
    BY <1>4 DEF Start, AttemptEnds
  <2> QED
    BY <1>1, <2>1, LimitFacts DEF ClockOK
<1>5. CASE Hop
  <2>1. CASE phase' = "request" /\ timer' = HopTimer /\ phase = "hop"
    BY <1>1, <1>5, <2>1 DEF Hop, HopTimer, ClockOK
  <2> QED
    BY <1>3, <1>5, <2>1 DEF Hop
<1>6. CASE SendRequest
  BY <1>1, <1>6 DEF SendRequest, ClockOK
<1>7. CASE BeginTransfer
  BY <1>1, <1>7 DEF BeginTransfer, ClockOK
<1>8. CASE EndTransfer
  <2>1. Streaming /\ phase' = "answer" /\ now' = now
    BY <1>8, LimitFacts DEF EndTransfer, ClockOK
  <2> QED
    BY <1>1, <2>1 DEF ClockOK
<1>9. CASE Tick
  <2>1. now' = now + 1 /\ timer # None /\ now < timer
        /\ UNCHANGED <<phase, timer, deadline>>
    BY <1>9 DEF Tick
  <2> QED
    BY <1>1, <2>1, LimitFacts DEF ClockOK
<1>10. CASE TimeOut \/ Break \/ ErrorHeader \/ ReadBody
  BY <1>3, <1>10 DEF TimeOut, Break, ErrorHeader, ReadBody
<1>11. CASE Redirected
  <2>1. CASE phase = "answer" /\ phase' = "hop" /\ timer' = None
    BY <1>2, <1>11, <2>1 DEF Redirected
  <2> QED
    BY <1>3, <1>11, <2>1 DEF Redirected
<1>12. CASE Headers
  <2>1. CASE phase = "answer" /\ phase' = "body" /\ timer' \in {None, timer}
    BY <1>2, <1>12, <2>1 DEF Headers
  <2> QED
    BY <1>3, <1>12, <2>1 DEF Headers
<1>13. CASE Wake
  BY <1>2, <1>13 DEF Wake
<1>14. CASE Cluster
  BY <1>2, <1>14 DEF Cluster, Execute, Redirect, Refuse, Deal
<1>15. CASE UNCHANGED vars
  BY <1>2, <1>15 DEF vars
<1> QED
  BY <1>4, <1>5, <1>6, <1>7, <1>8, <1>9, <1>10, <1>11, <1>12, <1>13, <1>14, <1>15
  DEF Next, Client

\* No chain of redirects makes an attempt of a buffered command of the client
\* outlast its timeout, and the pauses between its attempts never shrink, never
\* pass the cap and never saturate to nothing.
THEOREM TimesHold ==
  PowersDouble /\ Profiles = ClientProfiles => (Spec => []TimesAreKept)
<1> SUFFICES ASSUME PowersDouble, Profiles = ClientProfiles PROVE Spec => []TimesAreKept
  OBVIOUS
<1>1. TableIsSafe
  BY ClientTableIsSafe
<1>2. Init => WaitsOK /\ ClockOK
  <2>1. Init => WaitsOK
    BY DEF Init, WaitsOK
  <2>2. Init => ClockOK
    BY LimitFacts DEF Init, ClockOK
  <2> QED
    BY <2>1, <2>2
<1>3. WaitsOK /\ ClockOK /\ [Next]_vars => WaitsOK' /\ ClockOK'
  BY <1>1, WaitsInductive, ClockInductive
<1>4. WaitsOK /\ ClockOK => TimesAreKept
  <2>1. ClockOK => AttemptWithinTimeout
    BY DEF ClockOK, AttemptWithinTimeout, Limit
  <2> QED
    BY <2>1, WaitsSuffice DEF TimesAreKept
<1> QED
  BY <1>2, <1>3, <1>4, PTL DEF Spec
=============================================================================
