--------------------------- MODULE DownloadPlanner ---------------------------
(***************************************************************************)
(* The download planner of the repository namespace: the plan it was last  *)
(* told, the promises of untilReady, of each selection and of the          *)
(* download, and its channel createDownloadPlan to LM Studio.              *)
(*                                                                         *)
(* LM Studio is not in this repository.  The backend interface says what   *)
(* it does: it sends plans with growing versions until it says one is      *)
(* ready, answers a selection by a plan of the version the selection asks  *)
(* for, and starts the download on "commit".  The plan is one model node   *)
(* and its selected option; selections that throw leave no trace.          *)
(***************************************************************************)
EXTENDS Integers, SequencesExt

CONSTANTS
    Options,    \* Download options of the model node.
    First,      \* The one that is selected when the plan is ready.
    MaxUpdates, \* Bound: plans sent before the plan is ready.
    MaxSelects  \* Bound: selections that are made.

VARIABLES
    \* The planner.
    plan,        \* planValue: its version and the option it selects.
    ready,       \* isReadyBoolean, and the promise of untilReady.
    committed,   \* isPlanCommited.
    errored,     \* isErrored.
    errorBefore, \* Whether errorReceivedBeforeDownloadStart is not null.
    nextVersion, \* nextRequestedPlanVersion.
    waiters,     \* The versions pendingPlanWaiters wait for.
    download,    \* The current download and its promise.
    \* Those who use it.
    planAborted, downloadAborted, disposed,
    asked,       \* The selections that were sent: version, option, outcome.
    \* The channel, and LM Studio.
    channel, toServer, toClient,
    serverPlan, serverState

plannerVars == <<plan, ready, committed, errored, errorBefore, nextVersion, waiters, download>>
userVars == <<planAborted, downloadAborted, disposed, asked>>
serverVars == <<serverPlan, serverState>>
wireVars == <<channel, toServer, toClient>>
vars == <<plannerVars, userVars, wireVars, serverVars>>

Plans == [version : Nat, option : Options]
ToServer == [type : {"commit", "cancelPlan", "cancelDownload"}]
                \cup [type : {"select"}, version : Nat, option : Options]
ToClient == [type : {"success", "error", "close"}]
                \cup [type : {"planReady", "planUpdated"}, plan : Plans]

TypeOK ==
    /\ {plan, serverPlan} \subseteq Plans
    /\ ready \in [is : BOOLEAN, promise : {"pending", "resolved", "rejected"}]
    /\ {committed, errored, errorBefore, planAborted, downloadAborted, disposed} \subseteq BOOLEAN
    /\ nextVersion \in Nat
    /\ waiters \subseteq Nat
    /\ download \in {"none", "pending", "unheard", "finished", "failed", "reason"}
    /\ asked \in Seq([version : Nat, option : Options,
                      outcome : {"pending", "resolved", "rejected"}])
    /\ channel \in {"open", "errored", "closed"}
    /\ toServer \in Seq(ToServer) /\ toClient \in Seq(ToClient)
    /\ serverState \in {"resolving", "ready", "committedEarly", "downloading", "ended"}

Send(type) == toServer' = IF channel = "open" THEN Append(toServer, [type |-> type]) ELSE toServer

Init ==
    /\ plan = [version |-> 0, option |-> First] /\ serverPlan = plan
    /\ ready = [is |-> FALSE, promise |-> "pending"]
    /\ committed = FALSE /\ errored = FALSE /\ errorBefore = FALSE
    /\ nextVersion = 1 /\ waiters = {} /\ download = "none"
    /\ planAborted \in BOOLEAN /\ downloadAborted = FALSE /\ disposed = FALSE
    /\ asked = <<>>
    /\ channel = "open" /\ toClient = <<>>
    /\ toServer = IF planAborted THEN <<[type |-> "cancelPlan"]>> ELSE <<>>
    /\ serverState = "resolving"

-----------------------------------------------------------------------------
(* Those who wait for a version of the plan.                               *)

Answered(vs, outcome) ==
    [i \in DOMAIN asked |->
        IF asked[i].version \in vs /\ asked[i].outcome = "pending"
        THEN [asked[i] EXCEPT !.outcome = outcome] ELSE asked[i]]

ProcessPendingPlanWaiters(p) ==
    LET met == {v \in waiters : p.version >= v} IN
    /\ waiters' = waiters \ met
    /\ asked' = Answered(met, "resolved")

RejectPendingPlanWaiters ==
    /\ waiters' = {}
    /\ asked' = Answered(waiters, "rejected")

-----------------------------------------------------------------------------
(* What a user calls.                                                      *)

AssertCanChangeSelection == ready.is /\ ~committed /\ ~errored

(* An option that is selected already, by the plan the client has, is not  *)
(* sent, even while another selection is on its way.                       *)
SetSelectedDownloadOptionIndex(o) ==
    /\ AssertCanChangeSelection
    /\ plan.option # o
    /\ Len(asked) < MaxSelects
    /\ nextVersion' = nextVersion + 1
    /\ toServer' = IF channel = "open"
                   THEN Append(toServer, [type |-> "select", version |-> nextVersion, option |-> o])
                   ELSE toServer
    /\ LET met == plan.version >= nextVersion IN
       /\ waiters' = IF met THEN waiters ELSE waiters \cup {nextVersion}
       /\ asked' = Append(asked, [version |-> nextVersion, option |-> o,
                                  outcome |-> IF met THEN "resolved" ELSE "pending"])
    /\ UNCHANGED <<plan, ready, committed, errored, errorBefore, download, planAborted,
                   downloadAborted, disposed, channel, toClient, serverVars>>

(* An error that came before is thrown, once: a second call goes on, and   *)
(* nothing settles its promise.                                            *)
Download ==
    /\ download = "none"
    /\ IF errorBefore
       THEN errorBefore' = FALSE /\ UNCHANGED <<committed, download, toServer>>
       ELSE /\ download' = IF channel = "open" THEN "pending" ELSE "unheard"
            /\ committed' = TRUE
            /\ toServer' = IF channel # "open" THEN toServer
                           ELSE toServer \o <<[type |-> "commit"]>>
                                   \o (IF downloadAborted THEN <<[type |-> "cancelDownload"]>>
                                                          ELSE <<>>)
            /\ UNCHANGED errorBefore
    /\ UNCHANGED <<plan, ready, errored, nextVersion, waiters, userVars, channel, toClient, serverVars>>

AbortPlan ==
    /\ ~planAborted
    /\ planAborted' = TRUE
    /\ Send("cancelPlan")
    /\ UNCHANGED <<plannerVars, downloadAborted, disposed, asked, channel, toClient, serverVars>>

(* The signal given to download may be aborted before it is given.         *)
AbortDownload ==
    /\ ~downloadAborted
    /\ downloadAborted' = TRUE
    /\ IF download # "none" THEN Send("cancelDownload") ELSE UNCHANGED toServer
    /\ UNCHANGED <<plannerVars, planAborted, disposed, asked, channel, toClient, serverVars>>

Dispose ==
    /\ ~disposed
    /\ disposed' = TRUE
    /\ IF ~committed /\ ~errored THEN Send("cancelPlan") ELSE UNCHANGED toServer
    /\ RejectPendingPlanWaiters
    /\ UNCHANGED <<plan, ready, committed, errored, errorBefore, nextVersion, download,
                   planAborted, downloadAborted, channel, toClient, serverVars>>

-----------------------------------------------------------------------------
(* Messages to the planner, in the order they were sent.                   *)

(* Mutant: selections are numbered without regard to the plans that came. *)
CountAlone(p) == UNCHANGED nextVersion

CountOn(p) == nextVersion' = IF p.version + 1 > nextVersion THEN p.version + 1 ELSE nextVersion

OnPlan(msg) ==
    /\ msg.type \in {"planReady", "planUpdated"}
    /\ plan' = msg.plan
    /\ CountOn(msg.plan)
    /\ ProcessPendingPlanWaiters(msg.plan)
    /\ ready' = IF msg.type = "planUpdated" THEN ready
                ELSE [is |-> TRUE, promise |-> IF ready.promise = "pending" THEN "resolved"
                                                                           ELSE ready.promise]
    /\ UNCHANGED <<errored, errorBefore, download, channel>>

OnSuccess(msg) ==
    /\ msg.type = "success"
    /\ download' = IF download = "pending" THEN "finished" ELSE download
    /\ UNCHANGED <<plan, ready, nextVersion, waiters, asked, errored, errorBefore, channel>>

(* Mutant: the error is kept for download, which was called already. *)
OnErrorKept(msg) ==
    /\ msg.type = "error"
    /\ channel' = "errored" /\ errored' = TRUE /\ errorBefore' = TRUE
    /\ RejectPendingPlanWaiters
    /\ ready' = IF ready.promise = "pending" THEN [ready EXCEPT !.promise = "rejected"] ELSE ready
    /\ UNCHANGED <<plan, nextVersion, download>>

(* Only an error that comes before the download rejects the selections and *)
(* untilReady.                                                             *)
OnError(msg) ==
    /\ msg.type = "error"
    /\ channel' = "errored"
    /\ errored' = TRUE
    /\ IF download = "none"
       THEN /\ errorBefore' = TRUE
            /\ RejectPendingPlanWaiters
            /\ ready' = IF ready.promise = "pending" THEN [ready EXCEPT !.promise = "rejected"]
                                                     ELSE ready
            /\ UNCHANGED download
       ELSE /\ download' = IF download # "pending" THEN download
                           ELSE IF downloadAborted THEN "reason" ELSE "failed"
            /\ UNCHANGED <<errorBefore, ready, waiters, asked>>
    /\ UNCHANGED <<plan, nextVersion>>

(* Neither the download nor untilReady hears that the channel closed.      *)
OnClose(msg) ==
    /\ msg.type = "close"
    /\ channel' = "closed"
    /\ IF download = "none" THEN RejectPendingPlanWaiters ELSE UNCHANGED <<waiters, asked>>
    /\ UNCHANGED <<plan, ready, nextVersion, errored, errorBefore, download>>

ClientReceives ==
    /\ channel = "open" /\ toClient # <<>>
    /\ toClient' = Tail(toClient)
    /\ LET msg == Head(toClient) IN OnPlan(msg) \/ OnSuccess(msg) \/ OnError(msg) \/ OnClose(msg)
    /\ UNCHANGED <<committed, planAborted, downloadAborted, disposed, toServer, serverVars>>

ConnectionLost ==
    /\ channel = "open"
    /\ OnError([type |-> "error"])
    /\ toServer' = <<>> /\ toClient' = <<>>
    /\ serverState' = "ended"
    /\ UNCHANGED <<committed, planAborted, downloadAborted, disposed, serverPlan>>

-----------------------------------------------------------------------------
(* LM Studio.                                                              *)

Answer(msgs) == toClient' = toClient \o msgs

ServerEnds(msgs) == serverState' = "ended" /\ Answer(msgs) /\ UNCHANGED serverPlan

ServerResolves(type) ==
    /\ serverState \in {"resolving", "committedEarly"}
    /\ \/ type = "planUpdated" /\ serverPlan.version < MaxUpdates /\ UNCHANGED serverState
       \/ type = "planReady"
          /\ serverState' = IF serverState = "resolving" THEN "ready" ELSE "downloading"
    /\ serverPlan' = [serverPlan EXCEPT !.version = @ + 1]
    /\ Answer(<<[type |-> type, plan |-> serverPlan']>>)
    /\ UNCHANGED <<plannerVars, userVars, channel, toServer>>

(* What is committed before it is ready fails, or starts when it is ready. *)
(* What comes after the channel has ended is not looked at.                *)
ServerReceives ==
    /\ toServer # <<>>
    /\ toServer' = Tail(toServer)
    /\ LET msg == Head(toServer) IN
       \/ serverState = "ended" /\ UNCHANGED <<serverVars, toClient>>
       \/ /\ msg.type = "select" /\ serverState = "ready"
          /\ serverPlan' = [version |-> msg.version, option |-> msg.option]
          /\ Answer(<<[type |-> "planUpdated", plan |-> serverPlan']>>)
          /\ UNCHANGED serverState
       \/ /\ msg.type = "select" /\ serverState = "downloading"
          /\ UNCHANGED <<serverVars, toClient>>
       \/ /\ msg.type = "commit" /\ serverState = "ready"
          /\ serverState' = "downloading"
          /\ UNCHANGED <<serverPlan, toClient>>
       \/ /\ msg.type = "commit" /\ serverState = "resolving"
          /\ \/ serverState' = "committedEarly" /\ UNCHANGED <<serverPlan, toClient>>
             \/ ServerEnds(<<[type |-> "error"]>>)
       \/ /\ msg.type \in {"cancelPlan", "cancelDownload"} /\ serverState # "ended"
          /\ \E end \in {"error", "close"} : ServerEnds(<<[type |-> end]>>)
    /\ UNCHANGED <<plannerVars, userVars, channel>>

ServerFinishes ==
    /\ serverState = "downloading"
    /\ \/ ServerEnds(<<[type |-> "success"], [type |-> "close"]>>)
       \/ ServerEnds(<<[type |-> "error"]>>)
    /\ UNCHANGED <<plannerVars, userVars, channel, toServer>>

ServerFails ==
    /\ serverState \in {"resolving", "ready"}
    /\ ServerEnds(<<[type |-> "error"]>>)
    /\ UNCHANGED <<plannerVars, userVars, channel, toServer>>

Next ==
    \/ \E o \in Options : SetSelectedDownloadOptionIndex(o)
    \/ Download \/ AbortPlan \/ AbortDownload \/ Dispose
    \/ ClientReceives \/ ConnectionLost
    \/ \E type \in {"planUpdated", "planReady"} : ServerResolves(type)
    \/ ServerReceives \/ ServerFinishes \/ ServerFails

Spec == Init /\ [][Next]_vars

(* The client's event loop runs; LM Studio reads what it is sent and ends  *)
(* what it has started.                                                    *)
Progress ==
    ClientReceives \/ ServerReceives \/ ServerFinishes \/ ServerResolves("planReady")

-----------------------------------------------------------------------------
(* A selection whose promise resolved is in the plan its caller sees then: *)
(* the plan that is shown is the last that was selected, whatever plans    *)
(* were under way when it was (the numbering of the selections).           *)
SelectionIsShown ==
    asked # <<>> /\ Last(asked).outcome = "resolved" => plan.option = Last(asked).option

(* LM Studio downloads what was selected last: nothing that was selected   *)
(* is lost on the way, and nothing can be selected once it was committed.  *)
DownloadsWhatWasSelected ==
    serverState = "downloading" /\ asked # <<>> => serverPlan.option = Last(asked).option

(* A planner that goes out of scope does not cancel what it committed: a   *)
(* plan that was committed is canceled only by the signal of the planner.  *)
DisposeSparesDownload ==
    \A i, j \in DOMAIN toServer :
        i < j /\ toServer[i].type = "commit" /\ toServer[j].type = "cancelPlan" => planAborted

(* Every selection is answered, unless the channel closes, or errors after *)
(* the download was started: then nobody tells those who wait.  A download *)
(* ends, unless its channel closes without an error.                       *)
Settled ==
    channel # "closed" => /\ download # "pending"
                          /\ waiters = {} \/ (channel = "errored" /\ download # "none")
=============================================================================
