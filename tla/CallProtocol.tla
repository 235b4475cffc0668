---------------------------- MODULE CallProtocol ----------------------------
(***************************************************************************)
(* What the compartment framework promises its two kinds of callers, with  *)
(* registers, frames and stacks abstracted away: calls between the         *)
(* capability manager and the compartment nest, the side that was called   *)
(* is the one that runs, and a return always answers the call opened last, *)
(* handing its caller the reply to that very call.                         *)
(***************************************************************************)
EXTENDS Naturals, Sequences

CONSTANTS
  Request,        \* Request[s]: the calls that side s may make
  Reply(_),       \* Reply(r): what a call r must answer
  NoReply,        \* the value of a variable that was never given a reply
  MaxNesting      \* how deep calls nest: a service makes no further call

Side == {"capmgr", "compartment"}

VARIABLES
  open,           \* the calls in progress, outermost first: [site, req]
  reply,          \* reply[s]: the reply side s received last
  stopped         \* the program has ended, normally or by an exception

vars == <<open, reply, stopped>>

(* Control alternates: the callee of the last open call is what runs.      *)
Running == IF open = <<>> \/ open[Len(open)].site = "compartment"
           THEN "capmgr" ELSE "compartment"

Init ==
  /\ open = <<>>
  /\ reply = [s \in Side |-> NoReply]
  /\ stopped = FALSE

Call(s, r) ==
  /\ ~stopped
  /\ s = Running
  /\ r \in Request[s]
  /\ Len(open) < MaxNesting
  /\ open' = Append(open, [site |-> s, req |-> r])
  /\ UNCHANGED <<reply, stopped>>

Return ==
  /\ ~stopped
  /\ open # <<>>
  /\ LET last == open[Len(open)]
     IN  /\ reply' = [reply EXCEPT ![last.site] = Reply(last.req)]
         /\ open' = SubSeq(open, 1, Len(open) - 1)
  /\ UNCHANGED stopped

Stop ==
  /\ stopped' = TRUE
  /\ UNCHANGED <<open, reply>>

Next ==
  \/ \E s \in Side : \E r \in Request[s] : Call(s, r)
  \/ Return
  \/ Stop

Spec == Init /\ [][Next]_vars
=============================================================================
