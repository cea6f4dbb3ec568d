----------------------------- MODULE HttpCommand -----------------------------
(***************************************************************************)
(* One command over HTTP: Transport::call_with, send, open, upload, fetch, *)
(* dispatch and redirect of crates/ytsaurus-client/src/http.rs, on the     *)
(* retry loop of retry.rs.                                                 *)
(*                                                                         *)
(* An attempt takes its deadline once and shares it among the requests its *)
(* redirects make; a streaming transfer has no deadline, only a bound on   *)
(* each phase before the data.  `now` counts from the start of the         *)
(* attempt.  A request stays on the wire until the cluster has dealt with  *)
(* it, also when its attempt is over: a late request may still take        *)
(* effect.                                                                 *)
(*                                                                         *)
(* The cluster and the network are external: a request is carried out,     *)
(* redirected or refused, in any order, and connections break at any time. *)
(* A mutation id is remembered for as long as the command runs.            *)
(***************************************************************************)
EXTENDS Integers, Sequences

CONSTANTS
  Profiles,        \* the commands there are: form, repeatable, body, effect
  Sites,           \* origins; Home is the one the command is sent to first
  Home,
  Builds,          \* for each way the client may be built: the sites TLS cannot
                   \* reach at all (noTls) or not with these certificates (badCerts)
  Timeout,         \* Client's timeout, of one attempt
  HostsTimeout,    \* HOSTS_TIMEOUT, of a /hosts lookup
  MaxRedirects,    \* MAX_REDIRECTS
  Attempts,        \* RetryPolicy::attempts
  InitialBackoff,  \* RetryPolicy::initial_backoff
  MaxBackoff,      \* RetryPolicy::max_backoff
  ShiftBits,       \* width of the shifted factor, 32 in the code
  MaxDuration,     \* the longest Duration
  None

ASSUME SitesAssumption ==
  Home \in Sites /\ Builds \subseteq [noTls : SUBSET Sites, badCerts : SUBSET Sites]
ASSUME TimesAssumption ==
  /\ {Timeout, HostsTimeout, Attempts, ShiftBits} \subseteq Nat \ {0}
  /\ {MaxRedirects, InitialBackoff, MaxBackoff, MaxDuration} \subseteq Nat
  /\ None \notin Nat /\ None \notin {"Ok", "Credentials", "Body", "Payload", "TooMany"}

VARIABLES
  cmd,      \* the command under way
  token,    \* whether the client has a token
  build,    \* tls_unavailable and Transport::tls_refused
  phase,    \* where the call is
  attempt,  \* retry::run: the attempt under way, from 1
  waits,    \* history: the pauses between attempts
  now,      \* time since the attempt began
  deadline, \* dispatch: the attempt's deadline, None for a streaming one
  timer,    \* when the request under way is given up, None when nothing bounds it
  site,     \* origin of the address being dialled
  hops,     \* redirects followed in this attempt
  drained,  \* the stream has been read
  answer,   \* what the cluster has answered to the request under way
  wire,     \* requests the cluster has not dealt with
  effects,  \* history: how often the command took effect
  whole,    \* history: every time with the body it was meant to have
  received, \* history: how the body of this attempt's answer arrived, "whole",
            \* "cut" or "long", or None
  result    \* what the call returned

callVars  == <<cmd, token, build>>
retryVars == <<attempt, waits, result>>
historyVars == <<effects, whole, received>>
vars == <<callVars, phase, retryVars, now, deadline, timer, site, hops, drained, answer, wire,
          historyVars>>

-----------------------------------------------------------------------------
(***************************************************************************)
(* Retries: retry.rs.                                                      *)
(***************************************************************************)
\* "busy": a status or an error code of an overloaded or unavailable proxy.  A
\* transport error is worth repeating unless the certificate was refused.
IsRetriable(outcome) == outcome \in {"Transport", "busy"}

Allowed == IF cmd.repeatable \in {"Never", "Heavy"} \/ cmd.form = "fetch" THEN 1 ELSE Attempts

Lesser(a, b) == IF a < b THEN a ELSE b

\* checked_shl and checked_mul: a shift or a product too large saturates.
Backoff(n) ==
  LET factor == IF n - 1 < ShiftBits THEN 2 ^ (n - 1) ELSE 2 ^ ShiftBits - 1
  IN Lesser(IF InitialBackoff * factor > MaxDuration THEN MaxBackoff ELSE InitialBackoff * factor,
            MaxBackoff)

\* retry::run after an attempt.
AttemptEnds(outcome) ==
  /\ timer' = None
  /\ answer' = None
  /\ IF outcome = "Ok" \/ attempt >= Allowed \/ ~IsRetriable(outcome)
     THEN phase' = "done" /\ result' = outcome /\ UNCHANGED waits
     ELSE /\ phase' = "sleep"
          /\ waits' = Append(waits, Backoff(attempt))
          /\ UNCHANGED result

\* thread::sleep is over.
Wake ==
  /\ phase = "sleep"
  /\ phase' = "start"
  /\ attempt' = attempt + 1
  /\ UNCHANGED <<callVars, waits, result, now, deadline, timer, site, hops, drained, answer,
                 wire, historyVars>>

-----------------------------------------------------------------------------
(***************************************************************************)
(* One attempt: dispatch and what its callers do with the response.        *)
(***************************************************************************)
Streaming == cmd.form \in {"open", "upload"}

Init ==
  /\ cmd \in Profiles
  /\ token \in BOOLEAN
  /\ build \in Builds
  /\ phase = "start"
  /\ attempt = 1
  /\ waits = <<>>
  /\ now = 0 /\ deadline = None /\ timer = None
  /\ site = Home /\ hops = 0 /\ drained = FALSE
  /\ answer = None
  /\ wire = {}
  /\ effects = 0 /\ whole = TRUE /\ received = None
  /\ result = None

\* Transport::deadline; a lookup has a budget of its own (fetch).
Deadline ==
  CASE Streaming            -> None
    [] cmd.form = "fetch"   -> HostsTimeout
    [] OTHER                -> Timeout

\* Transport::unusable: an address that cannot be dialled.
Unusable(s) == s \in build.noTls \cup build.badCerts

\* The guard on a redirect's target: `fetch` asks what it asked of the first
\* address, `dispatch` only whether there is TLS at all.
UnusableNext(s) == IF cmd.form = "fetch" THEN Unusable(s) ELSE s \in build.noTls

\* An address that cannot be dialled fails the attempt at once; otherwise the
\* deadline is taken, and the first request goes Home.
Start ==
  /\ phase = "start"
  /\ now' = 0
  /\ site' = Home
  /\ hops' = 0
  /\ IF Unusable(Home)
     THEN AttemptEnds("Config") /\ UNCHANGED deadline
     ELSE /\ deadline' = Deadline
          /\ phase' = "hop"
          /\ UNCHANGED <<timer, answer, waits, result>>
  /\ received' = None
  /\ UNCHANGED <<callVars, attempt, drained, wire, effects, whole>>

\* Mutant: every request of the attempt gets the whole timeout.
HopTimerFresh == now + Timeout

\* Transport::scoped: a buffered request gets what is left of the deadline, a
\* streaming one a bound for the phase.
HopTimer == IF Streaming THEN now + Timeout ELSE deadline

\* The top of dispatch's loop: `remaining`, then the request is made.
Hop ==
  /\ phase = "hop"
  /\ IF deadline # None /\ now >= deadline
     THEN AttemptEnds("Transport")
     ELSE /\ phase' = "request"
          /\ timer' = HopTimer
          /\ UNCHANGED <<answer, waits, result>>
  /\ UNCHANGED <<callVars, attempt, now, deadline, site, hops, drained, wire, historyVars>>

Request(body) == [attempt |-> attempt, hop |-> hops, site |-> site, body |-> body,
                  token |-> token]

\* The request is sent with its body; what is left is the answer's headers.
SendRequest ==
  /\ phase = "request"
  /\ cmd.body # "stream"
  /\ phase' = "answer"
  /\ timer' = IF Streaming THEN now + Timeout ELSE timer
  /\ wire' = wire \cup {Request(cmd.body)}
  /\ UNCHANGED <<callVars, retryVars, now, deadline, site, hops, drained, answer, historyVars>>

\* A stream is sent for as long as it takes.
BeginTransfer ==
  /\ phase = "request"
  /\ cmd.body = "stream"
  /\ phase' = "transfer"
  /\ timer' = None
  /\ UNCHANGED <<callVars, retryVars, now, deadline, site, hops, drained, answer, wire,
                 historyVars>>

\* A reader cannot be rewound: sent a second time, it has nothing left.
EndTransfer ==
  /\ phase = "transfer"
  /\ phase' = "answer"
  /\ timer' = now + Timeout
  /\ drained' = TRUE
  /\ wire' = wire \cup {Request(IF drained THEN "nothing" ELSE "stream")}
  /\ UNCHANGED <<callVars, retryVars, now, deadline, site, hops, answer, historyVars>>

\* Time passes while a request waits under a timer; ureq gives it up in time.
Tick ==
  /\ phase \in {"request", "answer", "body"}
  /\ timer # None
  /\ now < timer
  /\ now' = now + 1
  /\ UNCHANGED <<callVars, phase, retryVars, deadline, timer, site, hops, drained, answer, wire,
                 historyVars>>

TimeOut ==
  /\ phase \in {"request", "answer", "body"}
  /\ timer # None
  /\ now >= timer
  /\ AttemptEnds("Transport")
  /\ UNCHANGED <<callVars, attempt, now, deadline, site, hops, drained, wire, historyVars>>

\* The connection fails before the answer's headers are in, or is not made: the
\* cluster's certificate is refused, a settled verdict among the other failures.
Break ==
  /\ phase \in {"request", "transfer", "answer"}
  /\ \/ AttemptEnds("Transport")
     \/ phase \in {"request", "transfer"} /\ AttemptEnds("Untrusted")
  /\ UNCHANGED <<callVars, attempt, now, deadline, site, hops, drained, wire, historyVars>>

Replayable  == cmd.body # "stream"
CarriesData == cmd.body # "none"

\* Mutant: only a token keeps a body from leaving the origin.
RefusalForgettingPayload(elsewhere) ==
  CASE token /\ elsewhere       -> "Credentials"
    [] ~Replayable              -> "Body"
    [] hops >= MaxRedirects     -> "TooMany"
    [] OTHER                    -> None

\* Mutant: a stream is followed to where the redirect points.
RefusalReplaying(elsewhere) ==
  CASE token /\ elsewhere       -> "Credentials"
    [] elsewhere /\ CarriesData -> "Payload"
    [] hops >= MaxRedirects     -> "TooMany"
    [] OTHER                    -> None

\* Transport::redirect: why a redirect is refused, in the code's order.
Refusal(elsewhere) ==
  CASE token /\ elsewhere       -> "Credentials"
    [] ~Replayable              -> "Body"
    [] elsewhere /\ CarriesData -> "Payload"
    [] hops >= MaxRedirects     -> "TooMany"
    [] OTHER                    -> None

\* A 3xx whose Location resolves: refused, followed, or the end because the
\* target cannot be dialled.
Redirected ==
  /\ phase = "answer"
  /\ answer # None /\ answer.kind = "redirect"
  /\ LET elsewhere == answer.to # site
         refused == Refusal(elsewhere)
     IN CASE refused # None -> AttemptEnds(refused) /\ UNCHANGED <<site, hops>>
          [] refused = None /\ UnusableNext(answer.to) ->
               AttemptEnds("Config") /\ UNCHANGED <<site, hops>>
          [] OTHER ->
               /\ phase' = "hop"
               /\ site' = answer.to
               /\ hops' = hops + 1
               /\ answer' = None
               /\ timer' = None
               /\ UNCHANGED <<waits, result>>
  /\ UNCHANGED <<callVars, attempt, now, deadline, drained, wire, historyVars>>

\* The cluster's own error header ends the attempt before the body is read;
\* /hosts has none to read.
ErrorHeader ==
  /\ phase = "answer"
  /\ answer # None /\ answer.kind = "header"
  /\ AttemptEnds(answer.outcome)
  /\ UNCHANGED <<callVars, attempt, now, deadline, site, hops, drained, wire, historyVars>>

\* Mutant: the body is read with nothing to bound it, whatever the command.
HeadersUnbounded ==
  /\ phase = "answer"
  /\ answer # None /\ answer.kind = "status"
  /\ IF cmd.form = "open" /\ answer.outcome = "Ok"
     THEN AttemptEnds("Ok")
     ELSE /\ phase' = "body"
          /\ timer' = None
          /\ UNCHANGED <<answer, waits, result>>
  /\ UNCHANGED <<callVars, attempt, now, deadline, site, hops, drained, wire, historyVars>>

\* Headers are in.  `open` is done with them unless it has an error's text to
\* read; a streaming command reads the body with nothing to bound it, the others
\* under the timer.
Headers ==
  /\ phase = "answer"
  /\ answer # None /\ answer.kind = "status"
  /\ IF cmd.form = "open" /\ answer.outcome = "Ok"
     THEN AttemptEnds("Ok")
     ELSE /\ phase' = "body"
          /\ timer' = IF Streaming THEN None ELSE timer
          /\ UNCHANGED <<answer, waits, result>>
  /\ UNCHANGED <<callVars, attempt, now, deadline, site, hops, drained, wire, historyVars>>

\* Mutant: what there is of a body cut short is passed on, if the status was good.
CutBodyByStatus == answer.outcome

\* A body cut short fails a buffered command; a streaming one goes by the status.
CutBody == IF Streaming THEN answer.outcome ELSE "Transport"

\* read_capped reports a body past the cap, never to be retried.  The lookup and
\* the text of `open`'s error are read through ureq's own limit, which is one
\* more way of being cut.
LongBody == IF cmd.form \in {"fetch", "open"} THEN CutBody ELSE "ResponseTooLarge"

\* The body arrives whole, is cut, or is too long.
ReadBody ==
  /\ phase = "body"
  /\ \/ received' = "whole" /\ AttemptEnds(answer.outcome)
     \/ received' = "cut"   /\ AttemptEnds(CutBody)
     \/ received' = "long"  /\ AttemptEnds(LongBody)
  /\ UNCHANGED <<callVars, attempt, now, deadline, site, hops, drained, wire, effects, whole>>

-----------------------------------------------------------------------------
(***************************************************************************)
(* The cluster.                                                            *)
(***************************************************************************)
\* r is the request whose answer the client is waiting for.
Awaited(r) ==
  phase = "answer" /\ answer = None /\ r.attempt = attempt /\ r.hop = hops

Deal(r, a) ==
  /\ wire' = wire \ {r}
  /\ answer' = IF Awaited(r) THEN a ELSE answer
  /\ UNCHANGED <<callVars, phase, retryVars, now, deadline, timer, site, hops, drained>>

\* The command is carried out.  A repetition under the command's mutation id is
\* answered from the cluster's memory; an unmarked duplicate has no effect
\* either.
Execute(r) ==
  /\ r \in wire
  /\ IF cmd.effect = "none" \/ (cmd.repeatable = "WithMutationId" /\ effects > 0)
     THEN UNCHANGED historyVars
     ELSE /\ effects' = Lesser(effects + 1, 2)
          /\ whole' = (whole /\ r.body = cmd.body)
          /\ UNCHANGED received
  /\ Deal(r, [kind |-> "status", outcome |-> "Ok"])

\* A proxy sends the request elsewhere, having done nothing.
Redirect(r) ==
  /\ r \in wire
  /\ \E to \in Sites : Deal(r, [kind |-> "redirect", to |-> to])
  /\ UNCHANGED historyVars

\* Refused with an error header, or with a status alone (a 3xx without a usable
\* Location among them); "busy" is worth repeating, "error" is not.  A request
\* nobody waits for any more may be refused, or lost on the way, which is the same.
Refuse(r) ==
  /\ r \in wire
  /\ \E kind \in {"header", "status"}, outcome \in {"busy", "error"} :
       /\ cmd.form = "fetch" => kind = "status"
       /\ Deal(r, [kind |-> kind, outcome |-> outcome])
  /\ UNCHANGED historyVars

Client ==
  \/ Start \/ Hop \/ SendRequest \/ BeginTransfer \/ TimeOut \/ Redirected \/ ErrorHeader
  \/ Headers \/ Wake
Cluster == \E r \in wire : Execute(r) \/ Redirect(r) \/ Refuse(r)
Next == Client \/ Tick \/ EndTransfer \/ ReadBody \/ Break \/ Cluster

Spec == Init /\ [][Next]_vars

\* The calling thread runs and time passes.  Nothing else is promised: a peer
\* may take no more of a stream, send no more of a body and answer nothing.
FairSpec == Spec /\ WF_vars(Client) /\ WF_vars(Tick)

-----------------------------------------------------------------------------
(***************************************************************************)
(* Properties.                                                             *)
(***************************************************************************)
\* A redirect never carries the token or a payload to an origin nobody named,
\* whatever chain of hops led there (Transport::redirect).
StaysHome == \A r \in wire : r.site # Home => ~r.token /\ r.body = "none"

\* Ok is the truth.  The command took effect, and with the body it was given: a
\* stream that had already been read was not sent again to report success for no
\* rows.  And where the answer is the result, as it is of every buffered command
\* and of the /hosts lookup, it arrived whole: one that was cut or passed the cap
\* is not handed over for what there is of it.
OkMeansDone ==
  result = "Ok" =>
    /\ cmd.effect # "none" => effects > 0 /\ whole
    /\ ~Streaming => received = "whole"

\* A command that must not be done twice is done at most once, whatever was
\* lost, repeated, redirected or late: its class in the table and the retry
\* loop together see to it.
EffectOnce == cmd.effect = "once" => effects <= 1

\* No chain of redirects makes an attempt outlast its timeout.
AttemptWithinTimeout ==
  ~Streaming => now <= (IF cmd.form = "fetch" THEN HostsTimeout ELSE Timeout)

\* The pauses between attempts never shrink, never pass the cap and, with any
\* backoff at all, are never nothing, however many attempts there are.
WaitsGrow ==
  \A i \in DOMAIN waits :
    /\ waits[i] <= MaxBackoff
    /\ InitialBackoff > 0 /\ MaxBackoff > 0 => waits[i] > 0
    /\ i > 1 => waits[i - 1] <= waits[i]

\* "A buffered command's deadline is taken once and shared by every redirect
\* hop", and the backoff saturates: a command takes no longer than its attempts
\* and its pauses may, and never hammers the proxy with no pause at all.
TimesAreKept == AttemptWithinTimeout /\ WaitsGrow

\* Every command returns, however redirects loop and attempts fail, unless a
\* streaming transfer stands still: nothing bounds the data of one.
CommandEnds == <>(phase = "done" \/ (Streaming /\ phase \in {"transfer", "body"}))
=============================================================================
