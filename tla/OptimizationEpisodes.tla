-------------------------- MODULE OptimizationEpisodes --------------------------
(***************************************************************************)
(* The Optimization Episodes of the application: who may start one, which  *)
(* Parent Workspaces they guard, and what the application shows and keeps  *)
(* of them (agentRuntimeManager.ts, with the parts of                      *)
(* agentProviderProcessRuntime.ts, registerIpc.ts,                         *)
(* registerOptimizationEpisodeIpc.ts and provider_optimization*.py that it *)
(* talks to).                                                              *)
(*                                                                         *)
(* The main process runs one step at a time; a call of the user waits for  *)
(* ECC, for the provider process or for a reconciliation between its       *)
(* steps, and other calls, events and crashes come in between.             *)
(***************************************************************************)
EXTENDS Naturals, Sequences, FiniteSets

CONSTANTS
  Episodes,      \* episode ids that may be generated
  Parents,       \* Parent Workspaces
  Sessions,      \* agent sessions
  Calls,         \* bound: calls of the user that may overlap
  Kept,          \* MAX_OPTIMIZATION_EPISODES: how many the file is to keep
  MaxEdits,      \* bound: revisions of a Parent beyond the first
  MaxMail,       \* bound: events of the provider that are not yet read
  Ends           \* bound: the statuses with which a thread may end

ASSUME BoundsAssumption ==
  /\ Kept \in Nat /\ MaxEdits \in Nat /\ MaxMail \in Nat
  /\ Ends \subseteq {"stopped", "interrupted", "error", "failed"}

VARIABLES
  ep,       \* optimizationEpisodes: a function from the known episodes
  file,     \* the projection file, the same shape
  auth,     \* pendingAuthorizations: at most one per session
  ctx,      \* sessionContexts: at most one per session
  call,     \* the calls that are not finished
  rev,      \* the committed Revision of each Parent
  thread,   \* the provider's thread of an episode, and the recovery context that is
            \* in its Parent from the first launch on
  mail,     \* events on their way from the provider
  proven,   \* history: episodes whose end was reported or reconciled
  skipped   \* history: episodes in the file that the last restart did not read

shown == <<ep, file>>
provider == <<thread, mail>>
history == <<proven, skipped>>
vars == <<shown, auth, ctx, call, rev, provider, history>>

(* "running" stands for starting, calibrating, running, paused and          *)
(* stopping, "stopped" for completed too.                                   *)
Active == {"running", "needs_attention", "interrupted"}
Terminal == {"stopped", "failed"}

(* A Parent stands for its directory and for the ECC handle of it. The two  *)
(* that are recorded of an episode differ only between an event that was    *)
(* emitted before its session moved and the next one, which is abstracted.  *)
Summary == [state : Active \union Terminal, session : Sessions,
            parent : Parents, rev : 0..MaxEdits]
Projection == UNION {[D -> Summary] : D \in SUBSET Episodes}
Context == [parent : Parents, rev : 0..MaxEdits]

Known == DOMAIN ep
IsActive(e) == ep[e].state \in Active
Owners(p) == {e \in Known : ep[e].parent = p /\ IsActive(e)}
Guarded(p) == Owners(p) # {}

(* The thread works in its Parent; desk is the Workspace its session is at. *)
NoThread == [phase |-> "none"]
Thread == [phase : {"live", "ended"}, parent : Parents, rev : 0..MaxEdits, desk : Parents]
Launched(e) == thread[e] # NoThread
IsLive(e) == thread[e].phase = "live"
Matches(e, summary) ==
  Launched(e) /\ thread[e].parent = summary.parent /\ thread[e].rev = summary.rev

NoCall == [kind |-> "none"]
Free(c) == call[c] = NoCall
Becomes(c, value) == call' = [call EXCEPT ![c] = value]
Finish(c) == Becomes(c, NoCall)
Is(c, kind, pc) == call[c].kind = kind /\ call[c].pc = pc

Init ==
  /\ ep = <<>> /\ file = <<>>
  /\ auth = [s \in Sessions |-> {}] /\ ctx = [s \in Sessions |-> {}]
  /\ call = [c \in Calls |-> NoCall]
  /\ rev = [p \in Parents |-> 0]
  /\ thread = [e \in Episodes |-> NoThread] /\ mail = <<>>
  /\ proven = {} /\ skipped = {}

(* persistOptimizationProjection keeps the active episodes and as many of   *)
(* the ended ones as slice(-(Kept - active)) takes: what is left of Kept, but*)
(* all of them when nothing is left (-0) and all but the first few beyond.  *)
(* That it takes those that were published last is abstracted.              *)
ActiveOf(f) == {e \in DOMAIN f : f[e].state \in Active}
Fewer(a, b) == IF a < b THEN a ELSE b
Taken(active, ended) == IF active < Kept THEN Fewer(ended, Kept - active)
                        ELSE ended - Fewer(ended, active - Kept)
Writes(f) ==
  {[e \in D |-> f[e]] : D \in {D \in SUBSET DOMAIN f :
     /\ ActiveOf(f) \subseteq D
     /\ Cardinality(D \ ActiveOf(f)) =
          Taken(Cardinality(ActiveOf(f)), Cardinality(DOMAIN f \ ActiveOf(f)))}}

(* publishOptimizationEpisode: the file may fail to be written, which       *)
(* changes nothing else.                                                    *)
MayWrite == file' \in {file} \union Writes(ep')
Set(e, summary) == [f \in Known \union {e} |-> IF f = e THEN summary ELSE ep[f]]
Publish(e, summary) == ep' = Set(e, summary) /\ MayWrite
InState(summary, state) == [summary EXCEPT !.state = state]

-----------------------------------------------------------------------------
(* Reading the Workspace from ECC: resolveAgentWorkspaceContext. The call   *)
(* goes on later, with the Revision that was read.                          *)

Subject(c) == CASE call[c].kind = "answer" -> call[c].auth.parent
                [] call[c].kind = "open" -> call[c].parent
                [] OTHER -> call[c].was.parent

Resolve(c) ==
  /\ ~Free(c) /\ call[c].pc = "resolving"
  /\ Becomes(c, [call[c] EXCEPT !.pc = "resolved", !.read = rev[Subject(c)]])
  /\ UNCHANGED <<shown, auth, ctx, rev, provider, history>>

ResolveFails(c) ==
  /\ ~Free(c) /\ call[c].pc = "resolving" /\ call[c].kind # "stop"
  /\ Finish(c)
  /\ UNCHANGED <<shown, auth, ctx, rev, provider, history>>

-----------------------------------------------------------------------------
(* Sessions: agentStartSession, agentSendMessage and the projection         *)

OpenSession(c, s, p) ==
  /\ Free(c)
  /\ Becomes(c, [kind |-> "open", pc |-> "resolving", session |-> s, parent |-> p, read |-> 0])
  /\ UNCHANGED <<shown, auth, ctx, rev, provider, history>>

At(c) == [parent |-> call[c].parent, rev |-> call[c].read]
InSession(s) == {e \in Known : ep[e].session = s}

(* _sync_workspace_context                                                  *)
Moved(s, p) == [e \in Episodes |-> IF e \in InSession(s) /\ IsLive(e)
                                   THEN [thread[e] EXCEPT !.desk = p] ELSE thread[e]]

(* The context is replaced before the provider hears of the message, which  *)
(* it may not.                                                              *)
SendMessage(c) ==
  /\ Is(c, "open", "resolved") /\ ctx[call[c].session] # {}
  /\ ctx' = [ctx EXCEPT ![call[c].session] = {At(c)}]
  /\ thread' \in {thread, Moved(call[c].session, call[c].parent)}
  /\ Finish(c)
  /\ UNCHANGED <<shown, auth, rev, mail, history>>

ProviderOpens(c) ==
  /\ Is(c, "open", "resolved")
  /\ thread' = Moved(call[c].session, call[c].parent)
  /\ \E next \in {NoCall, [call[c] EXCEPT !.pc = "answered"]} : Becomes(c, next)
  /\ UNCHANGED <<shown, auth, ctx, rev, mail, history>>

Placed(e, x) == [ep[e] EXCEPT !.parent = x.parent, !.rev = x.rev]

(* startSession: one active episode of the session, the first of the Map,   *)
(* is placed in the Workspace of the session, whoever owns it.              *)
SessionStarts(c) ==
  /\ Is(c, "open", "answered")
  /\ ctx' = [ctx EXCEPT ![call[c].session] = {At(c)}]
  /\ LET recovered == {e \in InSession(call[c].session) : IsActive(e)}
     IN IF recovered = {} THEN UNCHANGED shown
        ELSE \E e \in recovered : Publish(e, Placed(e, At(c)))
  /\ Finish(c)
  /\ UNCHANGED <<auth, rev, provider, history>>

(* agentOptimizationProjection rebinds the episodes it shows.               *)
ShowEpisode(c, e) ==
  /\ Free(c) /\ e \in Known
  /\ Becomes(c, [kind |-> "rebind", pc |-> "resolving", episode |-> e, was |-> ep[e], read |-> 0])
  /\ UNCHANGED <<shown, auth, ctx, rev, provider, history>>

Rebind(c) ==
  /\ Is(c, "rebind", "resolved")
  /\ LET e == call[c].episode
     IN IF call[c].read = call[c].was.rev /\ e \in Known /\ IsActive(e)
        THEN Publish(e, Placed(e, [parent |-> call[c].was.parent, rev |-> call[c].read]))
        ELSE UNCHANGED shown
  /\ Finish(c)
  /\ UNCHANGED <<auth, ctx, rev, provider, history>>

-----------------------------------------------------------------------------
(* Authorization and admission *)

(* The provider asks for confirmation; the Parent is observed then.         *)
RequestAuthorization(s, p) ==
  /\ auth' = [auth EXCEPT ![s] = {[parent |-> p, rev |-> rev[p]]}]
  /\ UNCHANGED <<shown, ctx, call, rev, provider, history>>

(* Interrupt, stop, or an answer that cancels.                              *)
DropAuthorization(s) ==
  /\ auth[s] # {} /\ auth' = [auth EXCEPT ![s] = {}]
  /\ UNCHANGED <<shown, ctx, call, rev, provider, history>>

Confirm(c, s) ==
  /\ Free(c)
  /\ \E a \in auth[s] :
       Becomes(c, [kind |-> "answer", pc |-> "resolving", session |-> s, auth |-> a, read |-> 0])
  /\ UNCHANGED <<shown, auth, ctx, rev, provider, history>>

MayAdmitAtOnce(c) == call[c].read = call[c].auth.rev
MayAdmit(c) == call[c].read = call[c].auth.rev /\ ~Guarded(call[c].auth.parent)

(* The provider is told first. Whatever the session has pending afterwards  *)
(* is deleted, or kept when the request fails.                              *)
Decline(c) ==
  /\ Is(c, "answer", "resolved") /\ ~MayAdmit(c)
  /\ Becomes(c, [call[c] EXCEPT !.pc = "sent"])
  /\ UNCHANGED <<shown, auth, ctx, rev, provider, history>>

Declined(c) ==
  /\ Is(c, "answer", "sent")
  /\ auth' = [auth EXCEPT ![call[c].session] = {}]
  /\ Finish(c)
  /\ UNCHANGED <<shown, ctx, rev, provider, history>>

Fresh(e) == e \notin Known \union DOMAIN file \union proven \union skipped /\ ~Launched(e)

NewEpisode(c) ==
  [state |-> "running", session |-> call[c].session, parent |-> call[c].auth.parent,
   rev |-> call[c].read]

Admitting(c, e) ==
  /\ Is(c, "answer", "resolved") /\ MayAdmit(c) /\ Fresh(e)
  /\ ep' = Set(e, NewEpisode(c))
  /\ auth' = [auth EXCEPT ![call[c].session] = {}]
  /\ ctx' = [ctx EXCEPT ![call[c].session] =
                {[parent |-> call[c].auth.parent, rev |-> call[c].read]}]
  /\ Becomes(c, [kind |-> "dispatch", pc |-> "sent", episode |-> e, was |-> NewEpisode(c)])
  /\ UNCHANGED <<rev, provider, history>>

(* The admission is written before the provider hears of it.                *)
AdmitUnconfirmed(c, e) == Admitting(c, e) /\ MayWrite
Admit(c, e) == Admitting(c, e) /\ file' \in Writes(ep')

AdmitUnwritten(c) ==
  /\ Is(c, "answer", "resolved") /\ MayAdmit(c)
  /\ Finish(c)
  /\ UNCHANGED <<shown, auth, ctx, rev, provider, history>>

-----------------------------------------------------------------------------
(* The provider *)

(* A status names the Workspace its session is at; a turn and the final     *)
(* status name none.                                                        *)
Emits(e, state, at) == /\ Len(mail) < MaxMail
                       /\ mail' = Append(mail, [episode |-> e, state |-> state, at |-> at])

Launches(e, summary) ==
  /\ thread' = [thread EXCEPT ![e] = [phase |-> "live", parent |-> summary.parent,
                                      rev |-> summary.rev, desk |-> summary.parent]]
  /\ Emits(e, "running", {summary.parent})

(* A request fails when the provider refuses it, dies, or writes a line that*)
(* is not JSON, which rejects every open request. A Stop then falls through *)
(* to the evidence of ECC; the others have nothing left to do.              *)
InProvider(c) == call[c].kind \in {"answer", "dispatch", "stop", "resume"} /\ call[c].pc = "sent"
Rejected(c) == CASE call[c].kind = "dispatch" -> [call[c] EXCEPT !.pc = "rejected"]
                 [] call[c].kind = "stop" -> [call[c] EXCEPT !.pc = "resolving"]
                 [] OTHER -> NoCall

(* What was done is answered, or the answer is lost.                        *)
Answered(c, next) == \E result \in {next, Rejected(c)} : Becomes(c, result)

RequestFails(c) ==
  /\ InProvider(c) /\ Becomes(c, Rejected(c))
  /\ UNCHANGED <<shown, auth, ctx, rev, provider, history>>

(* _confirm_optimization_start: the recovery context, then the thread.      *)
ProviderStarts(c) ==
  /\ Is(c, "dispatch", "sent")
  /\ LET e == call[c].episode
         was == call[c].was
     IN \/ Launches(e, was)
        \/ /\ Emits(e, "failed", {was.parent})
           /\ \/ UNCHANGED thread
              \/ thread' = [thread EXCEPT ![e] = [phase |-> "ended", parent |-> was.parent,
                                                  rev |-> was.rev, desk |-> was.parent]]
  /\ Answered(c, NoCall)
  /\ UNCHANGED <<shown, auth, ctx, rev, history>>

(* stop_optimization_episode: a thread that is not there is launched to     *)
(* collect what is in flight, unless nothing was dispatched before the      *)
(* calibration ended.                                                       *)
ProviderStops(c) ==
  /\ Is(c, "stop", "sent")
  /\ LET e == call[c].episode
         was == call[c].was
     IN \/ IsLive(e) /\ Emits(e, "running", {thread[e].desk}) /\ UNCHANGED thread
        \/ /\ ~IsLive(e) /\ Matches(e, was)
           /\ \/ Launches(e, was)
              \/ Emits(e, "stopped", {was.parent}) /\ UNCHANGED thread
  /\ Answered(c, NoCall)
  /\ UNCHANGED <<shown, auth, ctx, rev, history>>

(* resume_optimization_episode                                              *)
ProviderResumes(c) ==
  /\ Is(c, "resume", "sent")
  /\ LET e == call[c].episode
     IN \/ IsLive(e) /\ Emits(e, "running", {thread[e].desk}) /\ UNCHANGED thread
        \/ ~IsLive(e) /\ Matches(e, call[c].was) /\ Launches(e, call[c].was)
  /\ Answered(c, [call[c] EXCEPT !.pc = "answered"])
  /\ UNCHANGED <<shown, auth, ctx, rev, history>>

(* A change of status, or a turn.                                           *)
ThreadReports(e) ==
  /\ IsLive(e)
  /\ Emits(e, "running", {thread[e].desk}) \/ Emits(e, "turn", {})
  /\ UNCHANGED <<shown, auth, ctx, call, rev, thread, history>>

Over(t) == IF t.phase = "live" THEN [t EXCEPT !.phase = "ended", !.desk = t.parent] ELSE t

(* The final status of the thread; a launch that fails reports "failed".    *)
(* "interrupted" stands for "needs_attention" as well.                      *)
ThreadEnds(e) ==
  /\ IsLive(e) /\ thread' = [thread EXCEPT ![e] = Over(@)]
  /\ \E state \in Ends : Emits(e, state, {})
  /\ UNCHANGED <<shown, auth, ctx, call, rev, history>>

-----------------------------------------------------------------------------
(* Events: observeOptimizationEvent *)

(* optimizationEpisodeState: "failed" itself is not among its cases.        *)
MappedAsIs(state, fallback) == state
Mapped(state, fallback) ==
  CASE state \in Active \union {"stopped"} -> state
    [] state = "error" -> "failed"
    [] OTHER -> fallback

(* The Workspace and the Revision are those of the session context, if there*)
(* is one; but the directory is the one the event names, if it names one.   *)
SessionContext(e) ==
  IF ctx[ep[e].session] # {} THEN ctx[ep[e].session]
  ELSE {[parent |-> ep[e].parent, rev |-> ep[e].rev]}
Updated(m, x, p) ==
  [ep[m.episode] EXCEPT !.state = Mapped(m.state, @), !.parent = p, !.rev = x.rev]

(* By handle, or by directory.                                              *)
Conflicts(e, x, p) == (Owners(x.parent) \union Owners(p)) \ {e} # {}

Observe ==
  /\ mail # <<>> /\ mail' = Tail(mail)
  /\ LET m == Head(mail)
     IN IF m.episode \in Known
        THEN \E x \in SessionContext(m.episode) :
             \E p \in IF m.at = {} THEN {x.parent} ELSE m.at :
               IF Conflicts(m.episode, x, p) THEN UNCHANGED <<shown, proven>>
               ELSE LET new == Updated(m, x, p)
                    IN /\ Publish(m.episode, new)
                       /\ proven' = IF new.state \in Terminal THEN proven \union {m.episode}
                                    ELSE proven
        ELSE UNCHANGED <<shown, proven>>
  /\ UNCHANGED <<auth, ctx, call, rev, thread, skipped>>

-----------------------------------------------------------------------------
(* Control actions: controlOptimizationEpisode *)

(* Stop and Resume go by the summary the episode had when they were called. *)
Stop(c, e) ==
  /\ Free(c) /\ e \in Known /\ IsActive(e)
  /\ Becomes(c, [kind |-> "stop", episode |-> e, was |-> ep[e], read |-> 0,
                 pc |-> IF ep[e].state \in {"interrupted", "needs_attention"}
                        THEN "resolving" ELSE "sent"])
  /\ UNCHANGED <<shown, auth, ctx, rev, provider, history>>

Resume(c, e) ==
  /\ Free(c) /\ e \in Known /\ ep[e].state = "interrupted" /\ Matches(e, ep[e])
  /\ Becomes(c, [kind |-> "resume", pc |-> "resolving", episode |-> e, was |-> ep[e], read |-> 0])
  /\ UNCHANGED <<shown, auth, ctx, rev, provider, history>>

SameRevision(c) == call[c].read = call[c].was.rev

SendResume(c) ==
  /\ Is(c, "resume", "resolved")
  /\ Becomes(c, IF SameRevision(c) THEN [call[c] EXCEPT !.pc = "sent"] ELSE NoCall)
  /\ UNCHANGED <<shown, auth, ctx, rev, provider, history>>

Resumed(c) ==
  /\ Is(c, "resume", "answered")
  /\ ctx' = [ctx EXCEPT ![call[c].was.session] =
                {[parent |-> call[c].was.parent, rev |-> call[c].was.rev]}]
  /\ Finish(c)
  /\ UNCHANGED <<shown, auth, rev, provider, history>>

(* The summary of the admission is published again, in another state.       *)
DispatchForgotten(c) ==
  /\ Is(c, "dispatch", "rejected")
  /\ ep' = [f \in Known \ {call[c].episode} |-> ep[f]] /\ MayWrite
  /\ Finish(c)
  /\ UNCHANGED <<auth, ctx, rev, provider, history>>
DispatchFails(c) ==
  /\ Is(c, "dispatch", "rejected")
  /\ Publish(call[c].episode, InState(call[c].was, "needs_attention"))
  /\ Finish(c)
  /\ UNCHANGED <<auth, ctx, rev, provider, history>>

(* ECC is asked for the operations of the episode, cancels those that run,  *)
(* and shows all of them to be terminal in a Parent of the same Revision, or*)
(* not. Both outcomes publish the summary the episode had when Stop was     *)
(* called.                                                                  *)
ReconcileFails(c) ==
  /\ call[c].kind = "stop" /\ call[c].pc \in {"resolving", "resolved"}
  /\ Publish(call[c].episode, InState(call[c].was, "needs_attention"))
  /\ Finish(c)
  /\ UNCHANGED <<auth, ctx, rev, provider, history>>

PublishStopped(c) ==
  /\ Is(c, "stop", "resolved") /\ SameRevision(c)
  /\ \/ /\ ep' = Set(call[c].episode, InState(call[c].was, "stopped")) /\ file' \in Writes(ep')
        /\ proven' = proven \union {call[c].episode} /\ UNCHANGED skipped
     \/ UNCHANGED <<shown, history>>
  /\ Finish(c)
  /\ UNCHANGED <<auth, ctx, rev, provider>>

-----------------------------------------------------------------------------
(* Mutations of a Parent: authorizeWorkspaceMutation, then the command *)

BeginEdit(c, p) ==
  /\ Free(c) /\ ~Guarded(p)
  /\ Becomes(c, [kind |-> "edit", pc |-> "sent", parent |-> p])
  /\ UNCHANGED <<shown, auth, ctx, rev, provider, history>>

(* The command commits a new Revision, or fails.                            *)
FinishEdit(c) ==
  /\ Is(c, "edit", "sent")
  /\ LET p == call[c].parent
     IN \/ rev[p] < MaxEdits /\ rev' = [rev EXCEPT ![p] = @ + 1]
        \/ UNCHANGED rev
  /\ Finish(c)
  /\ UNCHANGED <<shown, auth, ctx, provider, history>>

-----------------------------------------------------------------------------
(* Crashes *)

ThreadsOver == [e \in Episodes |-> Over(thread[e])]

(* handleChildFailure rejects the open requests; the manager is told        *)
(* nothing else.                                                            *)
ProviderCrashes ==
  /\ \E e \in Episodes : IsLive(e)
  /\ thread' = ThreadsOver /\ mail' = <<>>
  /\ call' = [c \in Calls |-> IF InProvider(c) THEN Rejected(c) ELSE call[c]]
  /\ UNCHANGED <<shown, auth, ctx, rev, history>>

(* restoreOptimizationProjection; a state that is not among the cases of    *)
(* optimizationEpisodeState is read as "starting".                          *)
Restored(e) ==
  LET read == Mapped(file[e].state, "running")
  IN InState(file[e], IF read \in Terminal THEN read
                      ELSE IF Matches(e, file[e]) THEN "interrupted"
                      ELSE "needs_attention")

(* The last Kept entries, the active ones being first in the file, or none  *)
(* of a file that is too large, whose size is not modelled.                 *)
EndedOf(f) == DOMAIN f \ ActiveOf(f)
Readable(f) ==
  {{}} \union {D \in SUBSET DOMAIN f :
                 /\ Cardinality(D) = Fewer(Cardinality(DOMAIN f), Kept)
                 /\ D \subseteq EndedOf(f) \/ EndedOf(f) \subseteq D}

Restart ==
  /\ \E D \in Readable(file) :
       /\ ep' = [e \in D |-> Restored(e)]
       /\ IF D = {} THEN UNCHANGED file ELSE MayWrite
       /\ skipped' = (skipped \union DOMAIN file) \ D
  /\ auth' = [s \in Sessions |-> {}] /\ ctx' = [s \in Sessions |-> {}]
  /\ call' = [c \in Calls |-> NoCall]
  /\ thread' = ThreadsOver /\ mail' = <<>>
  /\ UNCHANGED <<rev, proven>>

-----------------------------------------------------------------------------
Opening(c) == Resolve(c) \/ ResolveFails(c) \/ SendMessage(c) \/ ProviderOpens(c)
                \/ SessionStarts(c) \/ Rebind(c)
Answering(c) == Decline(c) \/ Declined(c) \/ AdmitUnwritten(c) \/ \E e \in Episodes : Admit(c, e)
Controlling(c) == RequestFails(c) \/ SendResume(c) \/ Resumed(c) \/ DispatchFails(c)
                    \/ ReconcileFails(c) \/ PublishStopped(c)
Providing(c) == ProviderStarts(c) \/ ProviderStops(c) \/ ProviderResumes(c)

Next ==
  \/ \E s \in Sessions, p \in Parents : RequestAuthorization(s, p)
  \/ \E s \in Sessions : DropAuthorization(s)
  \/ \E c \in Calls, s \in Sessions : Confirm(c, s)
  \/ \E c \in Calls : Opening(c) \/ Answering(c) \/ Controlling(c) \/ Providing(c) \/ FinishEdit(c)
  \/ \E c \in Calls, s \in Sessions, p \in Parents : OpenSession(c, s, p)
  \/ \E c \in Calls, e \in Episodes : Stop(c, e) \/ Resume(c, e) \/ ShowEpisode(c, e)
  \/ \E c \in Calls, p \in Parents : BeginEdit(c, p)
  \/ \E e \in Episodes : ThreadReports(e) \/ ThreadEnds(e)
  \/ Observe \/ ProviderCrashes \/ Restart

Spec == Init /\ [][Next]_vars

-----------------------------------------------------------------------------
(* Properties *)

Reads == [kind : {"answer"}, pc : {"resolving", "resolved", "sent"}, session : Sessions,
          auth : Context, read : 0..MaxEdits]
  \union [kind : {"open"}, pc : {"resolving", "resolved", "answered"}, session : Sessions,
          parent : Parents, read : 0..MaxEdits]
  \union [kind : {"rebind"}, pc : {"resolving", "resolved"}, episode : Episodes,
          was : Summary, read : 0..MaxEdits]
  \union [kind : {"stop"}, pc : {"sent", "resolving", "resolved"}, episode : Episodes,
          was : Summary, read : 0..MaxEdits]
  \union [kind : {"resume"}, pc : {"resolving", "resolved", "sent", "answered"},
          episode : Episodes, was : Summary, read : 0..MaxEdits]
CallType == {NoCall} \union Reads
  \union [kind : {"dispatch"}, pc : {"sent", "rejected"}, episode : Episodes, was : Summary]
  \union [kind : {"edit"}, pc : {"sent"}, parent : Parents]

Reports == Active \union Terminal \union {"error", "turn"}
Event == [episode : Episodes, state : Reports, at : SUBSET Parents]

(* What every state is made of; above all, the episodes that are shown and  *)
(* kept have one of the application's own states, whatever the provider     *)
(* reported (optimizationEpisodeState).                                     *)
TypeOK ==
  /\ ep \in Projection /\ file \in Projection
  /\ auth \in [Sessions -> SUBSET Context] /\ ctx \in [Sessions -> SUBSET Context]
  /\ call \in [Calls -> CallType]
  /\ rev \in [Parents -> 0..MaxEdits]
  /\ thread \in [Episodes -> {NoThread} \union Thread]
  /\ proven \subseteq Episodes /\ skipped \subseteq Episodes
  /\ mail \in Seq(Event) /\ Len(mail) <= MaxMail

(* What a restart has to go by: an episode the provider was told of, and    *)
(* whose end was never proven, is in the file in an active state, whatever  *)
(* writes failed, however many ended episodes the file holds and whichever  *)
(* of them it drops (persistOptimizationProjection before the answer is     *)
(* passed on). Not so the episodes that a restart left unread.              *)
LaunchedIsDurable ==
  \A e \in Episodes :
    (Launched(e) /\ e \notin proven \union skipped) => e \in ActiveOf(file)

(* An episode that was launched is active, so that the Parent it is placed  *)
(* in is guarded, until its end was reported or its ECC operations were seen*)
(* to have ended: no crash, restart or failed request in between releases   *)
(* it, unless the restart could not read the episode.                       *)
GuardKept ==
  \A e \in Episodes :
    (Launched(e) /\ e \notin proven \union skipped) => e \in Known /\ IsActive(e)

(* The steps that make an episode active in a Parent without looking for    *)
(* another owner: a restart reads an older or a "failed" state; a failed    *)
(* dispatch or reconciliation publishes what was read before an await; a    *)
(* session or a window places its episode in its own Workspace.             *)
Unchecked(e) ==
  \/ Restart
  \/ \E c \in Calls : /\ DispatchFails(c) \/ ReconcileFails(c) \/ Rebind(c)
                      /\ call[c].episode = e
  \/ \E c \in Calls : SessionStarts(c) /\ ep[e].session = call[c].session

(* OneActiveEpisodePerParent is violated; this is what holds of it. However *)
(* answers overlap and wherever the sessions of running episodes move, no   *)
(* admission and no event of the provider gives a Parent a second owner     *)
(* (answerInteraction, observeOptimizationEvent).                           *)
SecondOwnersAreUnchecked ==
  [][\A p \in Parents : \A e, f \in Owners(p)' :
       \/ e = f
       \/ {e, f} \subseteq Owners(p)
       \/ \E g \in {e, f} : g \in Known \union DOMAIN file /\ Unchecked(g)]_vars

(* Violated. CONTEXT.md: "A Parent Workspace owns at most one active        *)
(* Optimization Episode". A restart reads a kept "failed" episode as        *)
(* "starting" and makes it active again beside the episode admitted since.  *)
OneActiveEpisodePerParent == \A p \in Parents : Cardinality(Owners(p)) <= 1
=============================================================================
