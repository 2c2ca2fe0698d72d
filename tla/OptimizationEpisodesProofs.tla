----------------------- MODULE OptimizationEpisodesProofs -----------------------
(***************************************************************************)
(* Proofs about OptimizationEpisodes, for any number of episodes, Parents, *)
(* sessions and calls, and any size of the file: what the application shows*)
(* and keeps is well formed, an episode that was launched is lost or       *)
(* released only by a restart that could not read it, and a Parent gets a  *)
(* second owner only by the steps that place or revive an episode without  *)
(* looking for another owner.                                              *)
(***************************************************************************)
EXTENDS OptimizationEpisodes, TLAPS

(* An episode whose end was never proven is active, also in the file, which *)
(* may be older than what is shown, and may hold episodes that are not.     *)
UnprovenActive ==
  /\ \A e \in Known \ proven : IsActive(e) /\ e \in ActiveOf(file)
  /\ DOMAIN file \ proven \subseteq ActiveOf(file)

ShownOK == /\ ep \in Projection /\ file \in Projection
           /\ proven \subseteq Episodes /\ skipped \subseteq Episodes
           /\ UnprovenActive

(* Calls and events are about known episodes.                               *)
AboutIn(v, K) == v.kind \in {"rebind", "dispatch", "stop", "resume"} => v.episode \in K
CallsOK == /\ call \in [Calls -> CallType]
           /\ \A c \in Calls : AboutIn(call[c], Known)
MailOK == /\ mail \in Seq(Event) /\ Len(mail) <= MaxMail
          /\ \A n \in DOMAIN mail : mail[n].episode \in Known

(* A thread is of an episode that is known, was left unread or has ended; it*)
(* is of a known one while it runs.                                         *)
ThreadOK == /\ thread \in [Episodes -> {NoThread} \union Thread]
            /\ \A e \in Episodes : /\ Launched(e) => e \in Known \union skipped \union proven
                                   /\ IsLive(e) => e \in Known

SessionsOK == /\ auth \in [Sessions -> SUBSET Context] /\ ctx \in [Sessions -> SUBSET Context]
              /\ rev \in [Parents -> 0..MaxEdits]

IInv == ShownOK /\ CallsOK /\ MailOK /\ ThreadOK /\ SessionsOK

-----------------------------------------------------------------------------
(* The invariant gives the properties. *)

LEMMA TypeFromIInv == IInv => TypeOK
  BY DEF IInv, ShownOK, CallsOK, MailOK, ThreadOK, SessionsOK, TypeOK

LEMMA DurableFromIInv == IInv => LaunchedIsDurable
  BY DEF IInv, ShownOK, ThreadOK, UnprovenActive, LaunchedIsDurable

LEMMA GuardFromIInv == IInv => GuardKept
  BY DEF IInv, ShownOK, ThreadOK, UnprovenActive, GuardKept

LEMMA ProjectionIntro ==
  ASSUME NEW f, NEW D \in SUBSET Episodes, f \in [D -> Summary]
  PROVE  f \in Projection
  BY DEF Projection

LEMMA ProjectionElim ==
  ASSUME NEW f \in Projection
  PROVE  DOMAIN f \subseteq Episodes /\ f \in [DOMAIN f -> Summary]
  BY DEF Projection

LEMMA Records ==
  ASSUME IInv
  PROVE  /\ ep \in [Known -> Summary] /\ file \in [DOMAIN file -> Summary]
         /\ Known \subseteq Episodes /\ DOMAIN file \subseteq Episodes
  BY ProjectionElim DEF IInv, ShownOK, Known

LEMMA InitIInv == Init => IInv
  <1> SUFFICES ASSUME Init PROVE IInv  OBVIOUS
  <1>1. DOMAIN ep = {} /\ DOMAIN file = {}
    BY DEF Init
  <1>2. ep \in Projection /\ file \in Projection
    <2>1. <<>> \in [{} -> Summary]
      OBVIOUS
    <2> QED  BY <2>1, ProjectionIntro DEF Init
  <1>3. ShownOK
    BY <1>1, <1>2 DEF Init, ShownOK, UnprovenActive, Known, ActiveOf
  <1>4. CallsOK
    BY DEF Init, CallsOK, CallType, NoCall, AboutIn
  <1>5. MailOK /\ ThreadOK /\ SessionsOK
    BY BoundsAssumption DEF Init, MailOK, ThreadOK, SessionsOK, Launched, IsLive, NoThread
  <1> QED  BY <1>3, <1>4, <1>5 DEF IInv

-----------------------------------------------------------------------------
(* What the parts of a step do to the parts of the invariant *)

LEMMA ShownFrame ==
  ASSUME IInv, UNCHANGED <<ep, file, proven, skipped>>
  PROVE  ShownOK' /\ Known' = Known
  BY DEF IInv, ShownOK, UnprovenActive, Known, IsActive, ActiveOf

LEMMA CallsFrame ==
  ASSUME IInv, call' = call, Known \subseteq Known'
  PROVE  CallsOK'
  BY DEF IInv, CallsOK, AboutIn

LEMMA CallsChange ==
  ASSUME IInv, NEW c \in Calls, NEW v \in CallType, AboutIn(v, Known'), Becomes(c, v),
         Known \subseteq Known'
  PROVE  CallsOK'
  BY DEF IInv, CallsOK, AboutIn, Becomes

LEMMA CallsFinish ==
  ASSUME IInv, NEW c \in Calls, Finish(c), Known \subseteq Known'
  PROVE  CallsOK'
  BY CallsChange DEF Finish, CallType, NoCall, AboutIn

LEMMA MailFrame ==
  ASSUME IInv, mail' = mail, Known \subseteq Known'
  PROVE  MailOK'
  BY DEF IInv, MailOK

LEMMA MailEmits ==
  ASSUME IInv, NEW e \in Known, NEW state \in Reports, NEW at \in SUBSET Parents,
         Emits(e, state, at), Known' = Known
  PROVE  MailOK'
  <1>1. [episode |-> e, state |-> state, at |-> at] \in Event
    BY Records DEF Event
  <1> DEFINE m == [episode |-> e, state |-> state, at |-> at]
  <1>2. mail \in Seq(Event) /\ mail' = Append(mail, m) /\ Len(mail) < MaxMail
    BY DEF IInv, MailOK, Emits
  <1>3. m.episode = e
    OBVIOUS
  <1> HIDE DEF m
  <1>4. /\ mail' \in Seq(Event) /\ Len(mail') = Len(mail) + 1
        /\ \A n \in DOMAIN mail' : mail'[n] = m \/ (n \in DOMAIN mail /\ mail'[n] = mail[n])
    BY <1>1, <1>2 DEF m
  <1> QED  BY <1>2, <1>3, <1>4, BoundsAssumption DEF IInv, MailOK

LEMMA ThreadFrame ==
  ASSUME IInv, thread' = thread, Known \subseteq Known', proven \subseteq proven',
         skipped' = skipped
  PROVE  ThreadOK'
  BY DEF IInv, ThreadOK, Launched, IsLive

(* A thread that changes keeps being there, or is of a known episode.       *)
LEMMA ThreadChange ==
  ASSUME IInv, thread' \in [Episodes -> {NoThread} \union Thread],
         \A e \in Episodes : /\ thread'[e] # NoThread => Launched(e) \/ e \in Known
                             /\ thread'[e].phase = "live" => IsLive(e) \/ e \in Known,
         UNCHANGED <<ep, proven, skipped>>
  PROVE  ThreadOK'
  BY DEF IInv, ThreadOK, Launched, IsLive, Known

LEMMA MovedIs ==
  ASSUME IInv, NEW s \in Sessions, NEW p \in Parents
  PROVE  /\ Moved(s, p) \in [Episodes -> {NoThread} \union Thread]
         /\ \A e \in Episodes : /\ Moved(s, p)[e] # NoThread => Launched(e)
                                /\ Moved(s, p)[e].phase = "live" => IsLive(e)
  <1>1. ASSUME NEW e \in Episodes, IsLive(e)
        PROVE  [thread[e] EXCEPT !.desk = p] \in Thread /\ Launched(e)
    BY <1>1 DEF IInv, ThreadOK, IsLive, Launched, NoThread, Thread
  <1> QED  BY <1>1 DEF Moved, IInv, ThreadOK, Launched, IsLive

LEMMA OverIs ==
  ASSUME IInv, NEW e \in Episodes
  PROVE  /\ Over(thread[e]) \in {NoThread} \union Thread
         /\ Over(thread[e]) # NoThread => Launched(e)
         /\ Over(thread[e]).phase # "live"
  <1>1. thread[e] = NoThread \/ thread[e] \in Thread
    BY DEF IInv, ThreadOK
  <1>2. CASE thread[e] = NoThread
    BY <1>2 DEF Over, Launched, NoThread
  <1>3. CASE thread[e] \in Thread
    <2>1. thread[e] # NoThread
      BY <1>3 DEF NoThread, Thread
    <2>2. Over(thread[e]) \in Thread /\ Over(thread[e]).phase = "ended"
      BY <1>3 DEF Over, Thread
    <2> QED  BY <2>1, <2>2 DEF Launched
  <1> QED  BY <1>1, <1>2, <1>3

LEMMA ThreadsOverIs ==
  ASSUME IInv
  PROVE  /\ ThreadsOver \in [Episodes -> {NoThread} \union Thread]
         /\ \A e \in Episodes : /\ ThreadsOver[e] # NoThread => Launched(e)
                                /\ ThreadsOver[e].phase # "live"
  BY OverIs DEF ThreadsOver

LEMMA SessionsFrame ==
  ASSUME IInv, UNCHANGED <<auth, ctx, rev>>
  PROVE  SessionsOK'
  BY DEF IInv, SessionsOK

LEMMA Deselected ==
  ASSUME IInv, NEW s \in Sessions, NEW x \in SUBSET Context
  PROVE  /\ [auth EXCEPT ![s] = x] \in [Sessions -> SUBSET Context]
         /\ [ctx EXCEPT ![s] = x] \in [Sessions -> SUBSET Context]
  BY DEF IInv, SessionsOK

LEMMA CallIs ==
  ASSUME IInv, NEW c \in Calls
  PROVE  call[c] \in CallType /\ AboutIn(call[c], Known)
  BY DEF IInv, CallsOK

(* What a call that waits for ECC goes on with.                             *)
LEMMA Continues ==
  ASSUME IInv, NEW c \in Calls, call[c].kind \in {"answer", "open", "rebind", "stop", "resume"}
  PROVE  /\ call[c] \in Reads
         /\ call[c].kind = "answer" => call[c].session \in Sessions /\ call[c].auth \in Context
         /\ call[c].kind = "open" => call[c].session \in Sessions /\ call[c].parent \in Parents
         /\ call[c].kind \in {"rebind", "stop", "resume"} =>
              /\ call[c].episode \in Known /\ call[c].episode \in Episodes
              /\ call[c].was \in Summary
         /\ call[c].read \in 0..MaxEdits
  <1>1. call[c] \in Reads
    BY CallIs DEF CallType, NoCall
  <1>2. call[c].kind \in {"rebind", "stop", "resume"} => call[c].episode \in Known
    BY CallIs DEF AboutIn
  <1> QED  BY <1>1, <1>2, Records DEF Reads

LEMMA Dispatched ==
  ASSUME IInv, NEW c \in Calls, call[c].kind = "dispatch"
  PROVE  call[c].episode \in Known /\ call[c].episode \in Episodes /\ call[c].was \in Summary
  <1>1. call[c].episode \in Known
    BY CallIs DEF AboutIn
  <1>2. call[c].was \in Summary
    BY CallIs DEF CallType, NoCall, Reads
  <1> QED  BY <1>1, <1>2, Records

-----------------------------------------------------------------------------
(* Steps that leave what is shown and kept alone *)

LEMMA ReadingTypes ==
  ASSUME IInv, NEW c \in Calls, call[c] \in Reads, NEW n \in 0..MaxEdits
  PROVE  [call[c] EXCEPT !.pc = "resolved", !.read = n] \in Reads
  <1> DEFINE r == [call[c] EXCEPT !.pc = "resolved", !.read = n]
  <1>1. CASE call[c].kind = "answer"
    BY <1>1 DEF Reads
  <1>2. CASE call[c].kind = "open"
    BY <1>2 DEF Reads
  <1>3. CASE call[c].kind = "rebind"
    BY <1>3 DEF Reads
  <1>4. CASE call[c].kind = "stop"
    BY <1>4 DEF Reads
  <1>5. CASE call[c].kind = "resume"
    BY <1>5 DEF Reads
  <1> QED  BY <1>1, <1>2, <1>3, <1>4, <1>5 DEF Reads

LEMMA WaitsForEcc ==
  ASSUME IInv, NEW c \in Calls, ~Free(c), call[c].pc = "resolving"
  PROVE  call[c].kind \in {"answer", "open", "rebind", "stop", "resume"} /\ call[c] \in Reads
  BY CallIs DEF CallType, Free, Reads

LEMMA SubjectType ==
  ASSUME IInv, NEW c \in Calls, ~Free(c), call[c].pc = "resolving"
  PROVE  Subject(c) \in Parents
  BY WaitsForEcc, Continues DEF Subject, Context, Summary

LEMMA ResolveStep ==
  ASSUME IInv, NEW c \in Calls, Resolve(c)
  PROVE  IInv'
  <1> DEFINE r == [call[c] EXCEPT !.pc = "resolved", !.read = rev[Subject(c)]]
  <1>1. call[c] \in Reads /\ rev[Subject(c)] \in 0..MaxEdits /\ AboutIn(call[c], Known)
    BY WaitsForEcc, SubjectType, CallIs DEF Resolve, IInv, SessionsOK
  <1>2. r \in CallType
    BY <1>1, ReadingTypes DEF CallType
  <1>3. r.kind = call[c].kind /\ (r.kind \in {"rebind", "stop", "resume"} => r.episode = call[c].episode)
    BY <1>1 DEF Reads
  <1>4. AboutIn(r, Known)
    BY <1>1, <1>3 DEF AboutIn, Reads
  <1> HIDE DEF r
  <1>5. Becomes(c, r) /\ UNCHANGED <<shown, auth, ctx, rev, provider, history>>
    BY DEF Resolve, r
  <1> QED  BY <1>2, <1>4, <1>5, ShownFrame, CallsChange, MailFrame, ThreadFrame, SessionsFrame
           DEF IInv, shown, provider, history

LEMMA ResolveFailsStep ==
  ASSUME IInv, NEW c \in Calls, ResolveFails(c)
  PROVE  IInv'
  BY ShownFrame, CallsFinish, MailFrame, ThreadFrame, SessionsFrame
     DEF IInv, ResolveFails, shown, provider, history

LEMMA AdmitUnwrittenStep ==
  ASSUME IInv, NEW c \in Calls, AdmitUnwritten(c)
  PROVE  IInv'
  BY ShownFrame, CallsFinish, MailFrame, ThreadFrame, SessionsFrame
     DEF IInv, AdmitUnwritten, shown, provider, history

LEMMA OpenSessionStep ==
  ASSUME IInv, NEW c \in Calls, NEW s \in Sessions, NEW p \in Parents, OpenSession(c, s, p)
  PROVE  IInv'
  <1>1. CallsOK'
    <2>1. PICK v : v \in CallType /\ AboutIn(v, Known) /\ Becomes(c, v)
      BY BoundsAssumption DEF OpenSession, CallType, Reads, AboutIn
    <2> QED  BY <2>1, CallsChange DEF OpenSession, shown, Known
  <1> QED  BY <1>1, ShownFrame, MailFrame, ThreadFrame, SessionsFrame
           DEF IInv, OpenSession, shown, provider, history

LEMMA ShowEpisodeStep ==
  ASSUME IInv, NEW c \in Calls, NEW e \in Episodes, ShowEpisode(c, e)
  PROVE  IInv'
  <1>1. CallsOK'
    <2>1. PICK v : v \in CallType /\ AboutIn(v, Known) /\ Becomes(c, v)
      BY Records, BoundsAssumption DEF ShowEpisode, CallType, Reads, AboutIn
    <2> QED  BY <2>1, CallsChange DEF ShowEpisode, shown, Known
  <1> QED  BY <1>1, ShownFrame, MailFrame, ThreadFrame, SessionsFrame
           DEF IInv, ShowEpisode, shown, provider, history

LEMMA ConfirmStep ==
  ASSUME IInv, NEW c \in Calls, NEW s \in Sessions, Confirm(c, s)
  PROVE  IInv'
  <1>1. CallsOK'
    <2>1. PICK v : v \in CallType /\ AboutIn(v, Known) /\ Becomes(c, v)
      BY BoundsAssumption DEF Confirm, CallType, Reads, AboutIn, IInv, SessionsOK
    <2> QED  BY <2>1, CallsChange DEF Confirm, shown, Known
  <1> QED  BY <1>1, ShownFrame, MailFrame, ThreadFrame, SessionsFrame
           DEF IInv, Confirm, shown, provider, history

LEMMA StopStep ==
  ASSUME IInv, NEW c \in Calls, NEW e \in Episodes, Stop(c, e)
  PROVE  IInv'
  <1>1. CallsOK'
    <2>1. PICK v : v \in CallType /\ AboutIn(v, Known) /\ Becomes(c, v)
      BY Records, BoundsAssumption DEF Stop, CallType, Reads, AboutIn
    <2> QED  BY <2>1, CallsChange DEF Stop, shown, Known
  <1> QED  BY <1>1, ShownFrame, MailFrame, ThreadFrame, SessionsFrame
           DEF IInv, Stop, shown, provider, history

LEMMA ResumeStep ==
  ASSUME IInv, NEW c \in Calls, NEW e \in Episodes, Resume(c, e)
  PROVE  IInv'
  <1>1. CallsOK'
    <2>1. PICK v : v \in CallType /\ AboutIn(v, Known) /\ Becomes(c, v)
      BY Records, BoundsAssumption DEF Resume, CallType, Reads, AboutIn
    <2> QED  BY <2>1, CallsChange DEF Resume, shown, Known
  <1> QED  BY <1>1, ShownFrame, MailFrame, ThreadFrame, SessionsFrame
           DEF IInv, Resume, shown, provider, history

LEMMA BeginEditStep ==
  ASSUME IInv, NEW c \in Calls, NEW p \in Parents, BeginEdit(c, p)
  PROVE  IInv'
  <1>1. CallsOK'
    <2>1. PICK v : v \in CallType /\ AboutIn(v, Known) /\ Becomes(c, v)
      BY DEF BeginEdit, CallType, AboutIn
    <2> QED  BY <2>1, CallsChange DEF BeginEdit, shown, Known
  <1> QED  BY <1>1, ShownFrame, MailFrame, ThreadFrame, SessionsFrame
           DEF IInv, BeginEdit, shown, provider, history

LEMMA DeclineStep ==
  ASSUME IInv, NEW c \in Calls, Decline(c)
  PROVE  IInv'
  <1>1. CallsOK'
    <2>1. PICK v : v \in CallType /\ AboutIn(v, Known) /\ Becomes(c, v)
      BY Continues, CallIs DEF Decline, Is, CallType, Reads, AboutIn
    <2> QED  BY <2>1, CallsChange DEF Decline, shown, Known
  <1> QED  BY <1>1, ShownFrame, MailFrame, ThreadFrame, SessionsFrame
           DEF IInv, Decline, shown, provider, history

LEMMA SendResumeStep ==
  ASSUME IInv, NEW c \in Calls, SendResume(c)
  PROVE  IInv'
  <1>1. CallsOK'
    <2>1. PICK v : v \in CallType /\ AboutIn(v, Known) /\ Becomes(c, v)
      BY Continues, CallIs DEF SendResume, Is, CallType, Reads, AboutIn, NoCall
    <2> QED  BY <2>1, CallsChange DEF SendResume, shown, Known
  <1> QED  BY <1>1, ShownFrame, MailFrame, ThreadFrame, SessionsFrame
           DEF IInv, SendResume, shown, provider, history

LEMMA RejectedIs ==
  ASSUME IInv, NEW c \in Calls, InProvider(c)
  PROVE  Rejected(c) \in CallType /\ AboutIn(Rejected(c), Known)
  <1>1. CASE call[c].kind = "dispatch"
    BY <1>1, CallIs DEF InProvider, Rejected, CallType, Reads, AboutIn, NoCall
  <1>2. CASE call[c].kind = "stop"
    BY <1>2, CallIs, Continues DEF InProvider, Rejected, CallType, Reads, AboutIn
  <1>3. CASE call[c].kind \in {"answer", "resume"}
    BY <1>3 DEF InProvider, Rejected, CallType, AboutIn, NoCall
  <1> QED  BY <1>1, <1>2, <1>3 DEF InProvider

LEMMA RequestFailsStep ==
  ASSUME IInv, NEW c \in Calls, RequestFails(c)
  PROVE  IInv'
  <1>1. CallsOK'
    <2>1. PICK v : v \in CallType /\ AboutIn(v, Known) /\ Becomes(c, v)
      BY RejectedIs DEF RequestFails
    <2> QED  BY <2>1, CallsChange DEF RequestFails, shown, Known
  <1> QED  BY <1>1, ShownFrame, MailFrame, ThreadFrame, SessionsFrame
           DEF IInv, RequestFails, shown, provider, history

LEMMA SendMessageStep ==
  ASSUME IInv, NEW c \in Calls, SendMessage(c)
  PROVE  IInv'
  <1>1. call[c].session \in Sessions /\ At(c) \in Context /\ call[c].parent \in Parents
    BY Continues DEF SendMessage, Is, At, Context
  <1>2. SessionsOK'
    BY <1>1, Deselected DEF SendMessage, IInv, SessionsOK
  <1>3. ThreadOK'
    BY <1>1, MovedIs, ThreadChange, ThreadFrame DEF SendMessage, shown, history, Known
  <1> QED  BY <1>2, <1>3, ShownFrame, CallsFinish, MailFrame DEF IInv, SendMessage, shown, history

LEMMA ProviderOpensStep ==
  ASSUME IInv, NEW c \in Calls, ProviderOpens(c)
  PROVE  IInv'
  <1>1. call[c].parent \in Parents /\ call[c].session \in Sessions /\ call[c] \in Reads
    BY Continues DEF ProviderOpens, Is
  <1>2. ThreadOK'
    BY <1>1, MovedIs, ThreadChange DEF ProviderOpens, shown, history
  <1>3. CallsOK'
    <2>1. PICK v : v \in CallType /\ AboutIn(v, Known) /\ Becomes(c, v)
      BY <1>1 DEF ProviderOpens, Is, CallType, Reads, AboutIn, NoCall
    <2> QED  BY <2>1, CallsChange DEF ProviderOpens, shown, Known
  <1> QED  BY <1>2, <1>3, ShownFrame, MailFrame, SessionsFrame DEF IInv, ProviderOpens, shown, history

LEMMA RequestAuthorizationStep ==
  ASSUME IInv, NEW s \in Sessions, NEW p \in Parents, RequestAuthorization(s, p)
  PROVE  IInv'
  <1>1. SessionsOK'
    BY Deselected DEF RequestAuthorization, Context, IInv, SessionsOK
  <1> QED  BY <1>1, ShownFrame, CallsFrame, MailFrame, ThreadFrame
           DEF IInv, RequestAuthorization, shown, provider, history

LEMMA DropAuthorizationStep ==
  ASSUME IInv, NEW s \in Sessions, DropAuthorization(s)
  PROVE  IInv'
  <1>1. SessionsOK'
    BY Deselected DEF DropAuthorization, IInv, SessionsOK
  <1> QED  BY <1>1, ShownFrame, CallsFrame, MailFrame, ThreadFrame
           DEF IInv, DropAuthorization, shown, provider, history

LEMMA DeclinedStep ==
  ASSUME IInv, NEW c \in Calls, Declined(c)
  PROVE  IInv'
  <1>1. SessionsOK'
    BY Continues, Deselected DEF Declined, Is, IInv, SessionsOK
  <1> QED  BY <1>1, ShownFrame, CallsFinish, MailFrame, ThreadFrame
           DEF IInv, Declined, shown, provider, history

LEMMA ResumedStep ==
  ASSUME IInv, NEW c \in Calls, Resumed(c)
  PROVE  IInv'
  <1>1. call[c].was \in Summary
    BY Continues DEF Resumed, Is
  <1>2. SessionsOK'
    BY <1>1, Deselected DEF Resumed, Summary, Context, IInv, SessionsOK
  <1> QED  BY <1>2, ShownFrame, CallsFinish, MailFrame, ThreadFrame
           DEF IInv, Resumed, shown, provider, history

LEMMA FinishEditStep ==
  ASSUME IInv, NEW c \in Calls, FinishEdit(c)
  PROVE  IInv'
  <1>1. call[c].parent \in Parents
    BY CallIs DEF CallType, Reads, NoCall, FinishEdit, Is
  <1>2. SessionsOK'
    BY <1>1, BoundsAssumption DEF FinishEdit, IInv, SessionsOK
  <1> QED  BY <1>2, ShownFrame, CallsFinish, MailFrame, ThreadFrame
           DEF IInv, FinishEdit, shown, provider, history

-----------------------------------------------------------------------------
(* Steps of the provider *)

LEMMA LaunchesIs ==
  ASSUME IInv, NEW e \in Known, NEW x \in Summary, Launches(e, x),
         UNCHANGED <<ep, proven, skipped>>
  PROVE  ThreadOK' /\ MailOK'
  <1>1. MailOK'
    BY MailEmits DEF Launches, Reports, Active, Summary, Known
  <1>2. ThreadOK'
    <2>1. thread' \in [Episodes -> {NoThread} \union Thread]
      BY Records DEF Launches, Thread, Summary, IInv, ThreadOK
    <2>2. \A f \in Episodes : f # e => thread'[f] = thread[f]
      BY DEF Launches, IInv, ThreadOK
    <2> QED  BY <2>1, <2>2, ThreadChange DEF Launched, IsLive
  <1> QED  BY <1>1, <1>2

LEMMA AnsweredIs ==
  ASSUME IInv, NEW c \in Calls, InProvider(c), NEW v \in CallType, AboutIn(v, Known),
         Answered(c, v), Known' = Known
  PROVE  CallsOK'
  BY RejectedIs, CallsChange DEF Answered

LEMMA NoCallIs == NoCall \in CallType /\ AboutIn(NoCall, Known)
  BY DEF NoCall, CallType, AboutIn

LEMMA EmitsAlone ==
  ASSUME IInv, NEW e \in Known, NEW state \in Reports, NEW at \in SUBSET Parents,
         Emits(e, state, at), UNCHANGED <<ep, thread, proven, skipped>>
  PROVE  ThreadOK' /\ MailOK'
  BY MailEmits, ThreadFrame DEF Known

LEMMA LiveIs ==
  ASSUME IInv, NEW e \in Episodes, IsLive(e)
  PROVE  thread[e] \in Thread /\ thread[e].desk \in Parents /\ e \in Known
  BY DEF IInv, ThreadOK, IsLive, Launched, NoThread, Thread

LEMMA ProviderStartsStep ==
  ASSUME IInv, NEW c \in Calls, ProviderStarts(c)
  PROVE  IInv'
  <1> DEFINE e == call[c].episode
             was == call[c].was
  <1>1. e \in Known /\ e \in Episodes /\ was \in Summary /\ was.parent \in Parents
        /\ was.rev \in 0..MaxEdits
    BY Dispatched DEF ProviderStarts, Is, Summary
  <1>2. InProvider(c) /\ Answered(c, NoCall) /\ UNCHANGED <<shown, auth, ctx, rev, history>>
    BY DEF ProviderStarts, InProvider, Is
  <1>3. ThreadOK' /\ MailOK'
    <2>1. CASE Launches(e, was)
      BY <1>1, <1>2, <2>1, LaunchesIs DEF shown, history
    <2>2. CASE /\ Emits(e, "failed", {was.parent})
               /\ \/ UNCHANGED thread
                  \/ thread' = [thread EXCEPT ![e] = [phase |-> "ended", parent |-> was.parent,
                                                      rev |-> was.rev, desk |-> was.parent]]
      <3>1. MailOK'
        BY <1>1, <1>2, <2>2, MailEmits DEF Reports, Terminal, shown, Known
      <3>2. thread' \in [Episodes -> {NoThread} \union Thread]
        BY <1>1, <2>2 DEF Thread, IInv, ThreadOK
      <3>3. \A f \in Episodes : f # e => thread'[f] = thread[f]
        BY <2>2 DEF IInv, ThreadOK
      <3> QED  BY <1>1, <1>2, <3>1, <3>2, <3>3, ThreadChange DEF Launched, IsLive, shown, history
    <2> QED  BY <2>1, <2>2 DEF ProviderStarts
  <1>4. CallsOK'
    BY <1>2, AnsweredIs, NoCallIs DEF shown, Known
  <1> QED  BY <1>2, <1>3, <1>4, ShownFrame, SessionsFrame DEF IInv, shown, history

LEMMA ProviderStopsStep ==
  ASSUME IInv, NEW c \in Calls, ProviderStops(c)
  PROVE  IInv'
  <1> DEFINE e == call[c].episode
             was == call[c].was
  <1>1. e \in Known /\ e \in Episodes /\ was \in Summary /\ was.parent \in Parents
    BY Continues DEF ProviderStops, Is, Summary
  <1>2. InProvider(c) /\ Answered(c, NoCall) /\ UNCHANGED <<shown, auth, ctx, rev, history>>
    BY DEF ProviderStops, InProvider, Is
  <1>3. ThreadOK' /\ MailOK'
    <2>1. CASE IsLive(e) /\ Emits(e, "running", {thread[e].desk}) /\ UNCHANGED thread
      BY <1>1, <1>2, <2>1, EmitsAlone, LiveIs DEF Reports, Active, shown, history
    <2>2. CASE Launches(e, was)
      BY <1>1, <1>2, <2>2, LaunchesIs DEF shown, history
    <2>3. CASE Emits(e, "stopped", {was.parent}) /\ UNCHANGED thread
      BY <1>1, <1>2, <2>3, EmitsAlone DEF Reports, Terminal, shown, history
    <2> QED  BY <2>1, <2>2, <2>3 DEF ProviderStops
  <1>4. CallsOK'
    BY <1>2, AnsweredIs, NoCallIs DEF shown, Known
  <1> QED  BY <1>2, <1>3, <1>4, ShownFrame, SessionsFrame DEF IInv, shown, history

LEMMA ProviderResumesStep ==
  ASSUME IInv, NEW c \in Calls, ProviderResumes(c)
  PROVE  IInv'
  <1> DEFINE e == call[c].episode
             was == call[c].was
             next == [call[c] EXCEPT !.pc = "answered"]
  <1>1. e \in Known /\ e \in Episodes /\ was \in Summary /\ call[c] \in Reads
    BY Continues DEF ProviderResumes, Is
  <1>2. InProvider(c) /\ Answered(c, next) /\ UNCHANGED <<shown, auth, ctx, rev, history>>
    BY DEF ProviderResumes, InProvider, Is
  <1>3. ThreadOK' /\ MailOK'
    <2>1. CASE IsLive(e) /\ Emits(e, "running", {thread[e].desk}) /\ UNCHANGED thread
      BY <1>1, <1>2, <2>1, EmitsAlone, LiveIs DEF Reports, Active, shown, history
    <2>2. CASE Launches(e, was)
      BY <1>1, <1>2, <2>2, LaunchesIs DEF shown, history
    <2> QED  BY <2>1, <2>2 DEF ProviderResumes
  <1>4. next \in CallType /\ AboutIn(next, Known)
    BY <1>1 DEF ProviderResumes, Is, CallType, Reads, AboutIn
  <1>5. CallsOK'
    BY <1>2, <1>4, AnsweredIs DEF shown, Known
  <1> QED  BY <1>2, <1>3, <1>5, ShownFrame, SessionsFrame DEF IInv, shown, history

LEMMA ThreadReportsStep ==
  ASSUME IInv, NEW e \in Episodes, ThreadReports(e)
  PROVE  IInv'
  <1>1. e \in Known
    BY LiveIs DEF ThreadReports
  <1>2. thread[e].desk \in Parents
    BY LiveIs DEF ThreadReports
  <1>3. ThreadOK' /\ MailOK'
    BY <1>1, <1>2, EmitsAlone DEF ThreadReports, Reports, Active, shown, history
  <1> QED  BY <1>3, ShownFrame, CallsFrame, SessionsFrame
           DEF IInv, ThreadReports, shown, history

LEMMA ThreadEndsStep ==
  ASSUME IInv, NEW e \in Episodes, ThreadEnds(e)
  PROVE  IInv'
  <1>1. e \in Known
    BY LiveIs DEF ThreadEnds
  <1>2. MailOK'
    BY <1>1, MailEmits, BoundsAssumption DEF ThreadEnds, Reports, Active, Terminal, shown, Known
  <1>3. ThreadOK'
    <2>1. /\ thread' \in [Episodes -> {NoThread} \union Thread]
          /\ \A f \in Episodes : f # e => thread'[f] = thread[f]
      BY OverIs DEF ThreadEnds, IInv, ThreadOK
    <2> QED  BY <1>1, <2>1, ThreadChange DEF ThreadEnds, Launched, IsLive, shown, history
  <1> QED  BY <1>2, <1>3, ShownFrame, CallsFrame, SessionsFrame
           DEF IInv, ThreadEnds, shown, history

LEMMA ProviderCrashesStep ==
  ASSUME IInv, ProviderCrashes
  PROVE  IInv'
  <1>1. CallsOK'
    <2>1. \A c \in Calls : call'[c] \in CallType /\ AboutIn(call'[c], Known)
      BY RejectedIs, CallIs DEF ProviderCrashes
    <2> QED  BY <2>1 DEF ProviderCrashes, CallsOK, shown, Known
  <1>2. MailOK'
    BY BoundsAssumption DEF ProviderCrashes, MailOK
  <1>3. ThreadOK'
    BY ThreadsOverIs, ThreadChange DEF ProviderCrashes, shown, history
  <1> QED  BY <1>1, <1>2, <1>3, ShownFrame, SessionsFrame DEF IInv, ProviderCrashes, shown, history

-----------------------------------------------------------------------------
(* Steps that change what is shown and kept *)

LEMMA WritesIs ==
  ASSUME NEW f \in Projection, NEW w \in Writes(f)
  PROVE  /\ w \in Projection /\ DOMAIN w \subseteq DOMAIN f
         /\ \A e \in DOMAIN w : w[e] = f[e]
         /\ ActiveOf(w) = ActiveOf(f)
  <1>1. f \in [DOMAIN f -> Summary] /\ DOMAIN f \subseteq Episodes
    BY ProjectionElim
  <1>2. PICK D \in SUBSET DOMAIN f : ActiveOf(f) \subseteq D /\ w = [e \in D |-> f[e]]
    BY DEF Writes
  <1>3. DOMAIN w = D /\ (\A e \in D : w[e] = f[e]) /\ w \in [D -> Summary]
    BY <1>1, <1>2
  <1>4. w \in Projection
    BY <1>1, <1>2, <1>3, ProjectionIntro
  <1> QED  BY <1>2, <1>3, <1>4 DEF ActiveOf

(* What is shown changes, and the file is written or not.                   *)
LEMMA ShownChange ==
  ASSUME IInv, ep' \in Projection, MayWrite,
         \A e \in Known' \ proven' : IsActive(e)' /\ (e \in Known \/ file' \in Writes(ep')),
         proven \subseteq proven', proven' \subseteq Episodes, skipped' = skipped
  PROVE  ShownOK'
  <1>1. CASE file' = file
    <2>1. \A e \in Known' \ proven' : e \in ActiveOf(file)
      <3> SUFFICES ASSUME NEW e \in Known' \ proven'  PROVE e \in ActiveOf(file)
        OBVIOUS
      <3>1. CASE e \in Known
        BY <3>1 DEF IInv, ShownOK, UnprovenActive
      <3>2. CASE file' \in Writes(ep')
        BY <3>2, <1>1, WritesIs DEF ActiveOf, Known, IsActive
      <3> QED  BY <3>1, <3>2
    <2> QED  BY <1>1, <2>1 DEF IInv, ShownOK, UnprovenActive, ActiveOf
  <1>2. CASE file' \in Writes(ep')
    <2>1. /\ file' \in Projection /\ DOMAIN file' \subseteq Known'
          /\ ActiveOf(file') = ActiveOf(ep') /\ \A e \in DOMAIN file' : file'[e] = ep'[e]
      BY <1>2, WritesIs DEF Known
    <2>2. Known' \ proven' \subseteq ActiveOf(ep')
      BY DEF ActiveOf, IsActive, Known
    <2>3. DOMAIN file' \ proven' \subseteq ActiveOf(file')
      BY <2>1, <2>2
    <2>4. UnprovenActive'
      <3>1. ActiveOf(file)' = ActiveOf(file')
        BY DEF ActiveOf
      <3>2. \A e \in Known' \ proven' : IsActive(e)' /\ e \in ActiveOf(file)'
        BY <2>1, <2>2, <3>1
      <3> QED  BY <2>3, <3>1, <3>2 DEF UnprovenActive
    <2> QED  BY <2>1, <2>4 DEF IInv, ShownOK
  <1> QED  BY <1>1, <1>2 DEF MayWrite

LEMMA SetIs ==
  ASSUME IInv, NEW e \in Episodes, NEW x \in Summary, ep' = Set(e, x)
  PROVE  /\ ep' \in Projection /\ Known' = Known \union {e}
         /\ ep'[e] = x /\ \A f \in Known \ {e} : ep'[f] = ep[f]
  <1>1. Set(e, x) \in [Known \union {e} -> Summary]
    BY Records DEF Set
  <1>2. Set(e, x) \in Projection
    BY <1>1, Records, ProjectionIntro
  <1> QED  BY <1>2 DEF Set, Known

LEMMA PublishIs ==
  ASSUME IInv, NEW e \in Known, NEW x \in Summary, Publish(e, x),
         x.state \in Active \/ e \in proven',
         proven \subseteq proven', proven' \subseteq Episodes, skipped' = skipped
  PROVE  ShownOK' /\ Known' = Known
  <1>1. /\ ep' \in Projection /\ Known' = Known
        /\ ep'[e] = x /\ \A f \in Known \ {e} : ep'[f] = ep[f]
    BY Records, SetIs DEF Publish
  <1>2. \A f \in Known' \ proven' : IsActive(f)' /\ f \in Known
    BY <1>1 DEF IsActive, IInv, ShownOK, UnprovenActive
  <1> QED  BY <1>1, <1>2, ShownChange DEF Publish

LEMMA InStateIs ==
  ASSUME NEW x \in Summary, NEW state \in Active \union Terminal
  PROVE  InState(x, state) \in Summary /\ InState(x, state).state = state
         /\ InState(x, state).parent = x.parent
  BY DEF InState, Summary

LEMMA PlacedIs ==
  ASSUME IInv, NEW e \in Known, NEW x \in Context
  PROVE  Placed(e, x) \in Summary /\ Placed(e, x).state = ep[e].state
  <1>1. ep[e] \in Summary
    BY Records
  <1> QED  BY <1>1 DEF Placed, Summary, Context

(* An episode that is active may be placed elsewhere.                       *)
LEMMA PlacedStep ==
  ASSUME IInv, NEW e \in Known, IsActive(e), NEW x \in Context, Publish(e, Placed(e, x)),
         UNCHANGED history
  PROVE  ShownOK' /\ Known' = Known
  BY PlacedIs, PublishIs DEF IsActive, history, IInv, ShownOK

LEMMA SessionStartsStep ==
  ASSUME IInv, NEW c \in Calls, SessionStarts(c)
  PROVE  IInv'
  <1>1. call[c].session \in Sessions /\ At(c) \in Context
    BY Continues DEF SessionStarts, Is, At, Context
  <1>2. SessionsOK'
    BY <1>1, Deselected DEF SessionStarts, IInv, SessionsOK
  <1>3. ShownOK' /\ Known' = Known
    <2>1. CASE UNCHANGED shown
      BY <2>1, ShownFrame DEF SessionStarts, shown, history
    <2>2. ASSUME NEW e \in InSession(call[c].session), IsActive(e), Publish(e, Placed(e, At(c)))
          PROVE  ShownOK' /\ Known' = Known
      BY <1>1, <2>2, PlacedStep DEF SessionStarts, InSession
    <2> QED  BY <2>1, <2>2 DEF SessionStarts
  <1> QED  BY <1>2, <1>3, CallsFinish, MailFrame, ThreadFrame
           DEF IInv, SessionStarts, provider, history

LEMMA RebindStep ==
  ASSUME IInv, NEW c \in Calls, Rebind(c)
  PROVE  IInv'
  <1>1. ShownOK' /\ Known' = Known
    <2>1. CASE UNCHANGED shown
      BY <2>1, ShownFrame DEF Rebind, shown, history
    <2>2. CASE ~UNCHANGED shown
      <3> DEFINE e == call[c].episode
                 x == [parent |-> call[c].was.parent, rev |-> call[c].read]
      <3>1. x \in Context
        BY Continues DEF Rebind, Is, Summary, Context
      <3>2. e \in Known /\ IsActive(e) /\ Publish(e, Placed(e, x))
        BY <2>2 DEF Rebind
      <3> QED  BY <3>1, <3>2, PlacedStep DEF Rebind
    <2> QED  BY <2>1, <2>2
  <1> QED  BY <1>1, CallsFinish, MailFrame, ThreadFrame, SessionsFrame
           DEF IInv, Rebind, provider, history

LEMMA AdmittedIs ==
  ASSUME IInv, NEW c \in Calls, NEW e \in Episodes, Admit(c, e)
  PROVE  /\ call[c].session \in Sessions /\ call[c].auth \in Context
         /\ NewEpisode(c) \in Summary /\ NewEpisode(c).state = "running"
         /\ NewEpisode(c).parent = call[c].auth.parent /\ call[c].read \in 0..MaxEdits
  <1>1. Is(c, "answer", "resolved")
    BY DEF Admit, Admitting
  <1>2. call[c].session \in Sessions /\ call[c].auth \in Context /\ call[c].read \in 0..MaxEdits
    BY <1>1, Continues DEF Is
  <1> QED  BY <1>2 DEF NewEpisode, Summary, Active, Context

LEMMA AdmitStep ==
  ASSUME IInv, NEW c \in Calls, NEW e \in Episodes, Admit(c, e)
  PROVE  IInv'
  <1>1. /\ ep' = Set(e, NewEpisode(c)) /\ file' \in Writes(ep')
        /\ UNCHANGED <<rev, provider, history>>
    BY DEF Admit, Admitting
  <1>2. /\ ep' \in Projection /\ Known' = Known \union {e}
        /\ ep'[e].state = "running" /\ \A f \in Known \ {e} : ep'[f] = ep[f]
    BY <1>1, AdmittedIs, SetIs
  <1>3. ShownOK'
    <2>1. \A f \in Known' \ proven' : IsActive(f)'
      BY <1>1, <1>2 DEF IsActive, Active, history, IInv, ShownOK, UnprovenActive
    <2> QED  BY <1>1, <1>2, <2>1, ShownChange DEF MayWrite, history, IInv, ShownOK
  <1>4. SessionsOK'
    <2> DEFINE x == [parent |-> call[c].auth.parent, rev |-> call[c].read]
    <2>1. x \in Context
      BY AdmittedIs DEF Context
    <2>2. /\ auth' = [auth EXCEPT ![call[c].session] = {}]
          /\ ctx' = [ctx EXCEPT ![call[c].session] = {x}]
      BY DEF Admit, Admitting
    <2>3. {x} \in SUBSET Context /\ {} \in SUBSET Context
      BY <2>1
    <2> HIDE DEF x
    <2> QED  BY <1>1, <2>2, <2>3, AdmittedIs, Deselected DEF IInv, SessionsOK
  <1>5. CallsOK'
    <2> DEFINE v == [kind |-> "dispatch", pc |-> "sent", episode |-> e, was |-> NewEpisode(c)]
    <2>1. v \in CallType
      BY AdmittedIs DEF CallType
    <2>2. AboutIn(v, Known')
      BY <1>2 DEF AboutIn
    <2>3. Becomes(c, v)
      BY DEF Admit, Admitting
    <2> QED  BY <1>2, <2>1, <2>2, <2>3, CallsChange
  <1>6. MailOK' /\ ThreadOK'
    BY <1>1, <1>2, MailFrame, ThreadFrame DEF provider, history
  <1> QED  BY <1>3, <1>4, <1>5, <1>6 DEF IInv

LEMMA HeadIs ==
  ASSUME IInv, mail # <<>>
  PROVE  /\ Head(mail) \in Event /\ Head(mail).episode \in Known
         /\ Tail(mail) \in Seq(Event) /\ Len(Tail(mail)) <= MaxMail
         /\ \A n \in DOMAIN Tail(mail) : Tail(mail)[n].episode \in Known
  <1>1. mail \in Seq(Event) /\ Len(mail) <= MaxMail
    BY DEF IInv, MailOK
  <1>2. 1 \in DOMAIN mail /\ Head(mail) = mail[1] /\ mail[1] \in Event
    BY <1>1
  <1>3. Tail(mail) \in Seq(Event) /\ Len(Tail(mail)) = Len(mail) - 1
    BY <1>1
  <1>4. ASSUME NEW n \in DOMAIN Tail(mail)
        PROVE  Tail(mail)[n].episode \in Known
    <2>1. n + 1 \in DOMAIN mail /\ Tail(mail)[n] = mail[n + 1]
      BY <1>1, <1>3
    <2> QED  BY <2>1 DEF IInv, MailOK
  <1> QED  BY <1>1, <1>2, <1>3, <1>4, BoundsAssumption DEF IInv, MailOK

(* The context that an event is read in, and the summary it gives.          *)
LEMMA UpdatedIs ==
  ASSUME IInv, NEW m \in Event, m.episode \in Known, NEW x \in SessionContext(m.episode),
         NEW p \in IF m.at = {} THEN {x.parent} ELSE m.at
  PROVE  /\ x \in Context /\ p \in Parents /\ Updated(m, x, p) \in Summary
         /\ Updated(m, x, p).parent = p
  <1>1. ep[m.episode] \in Summary
    BY Records
  <1>2. x \in Context
    BY <1>1 DEF SessionContext, Summary, Context, IInv, SessionsOK
  <1>3. p \in Parents
    BY <1>2 DEF Context, Event
  <1>4. Mapped(m.state, ep[m.episode].state) \in Active \union Terminal
    BY <1>1 DEF Mapped, Summary, Active, Terminal
  <1> QED  BY <1>1, <1>2, <1>3, <1>4 DEF Updated, Summary, Context

(* An event changes nothing, or publishes a summary in a Parent without     *)
(* another owner.                                                           *)
LEMMA ObserveIs ==
  ASSUME IInv, Observe
  PROVE  \/ UNCHANGED <<shown, proven>>
         \/ \E e \in Known, new \in Summary :
              /\ Publish(e, new) /\ Owners(new.parent) \subseteq {e}
              /\ proven' = IF new.state \in Terminal THEN proven \union {e} ELSE proven
  <1> DEFINE m == Head(mail)
  <1>1. m \in Event /\ m.episode \in Known
    BY HeadIs DEF Observe
  <1>2. CASE UNCHANGED <<shown, proven>>
    BY <1>2
  <1>3. CASE ~UNCHANGED <<shown, proven>>
    <2>1. PICK x \in SessionContext(m.episode) :
            \E p \in IF m.at = {} THEN {x.parent} ELSE m.at :
              /\ ~Conflicts(m.episode, x, p) /\ Publish(m.episode, Updated(m, x, p))
              /\ proven' = IF Updated(m, x, p).state \in Terminal
                           THEN proven \union {m.episode} ELSE proven
      BY <1>1, <1>3 DEF Observe
    <2>2. PICK p \in IF m.at = {} THEN {x.parent} ELSE m.at :
              /\ ~Conflicts(m.episode, x, p) /\ Publish(m.episode, Updated(m, x, p))
              /\ proven' = IF Updated(m, x, p).state \in Terminal
                           THEN proven \union {m.episode} ELSE proven
      BY <2>1
    <2>3. Updated(m, x, p) \in Summary /\ Updated(m, x, p).parent = p
      BY <1>1, UpdatedIs
    <2>4. Owners(p) \subseteq {m.episode}
      BY <2>2 DEF Conflicts
    <2> HIDE DEF m
    <2> QED  BY <1>1, <2>2, <2>3, <2>4
  <1> QED  BY <1>2, <1>3

LEMMA ObserveStep ==
  ASSUME IInv, Observe
  PROVE  IInv'
  <1>1. ShownOK' /\ Known' = Known /\ proven \subseteq proven'
    <2>1. CASE UNCHANGED <<shown, proven>>
      BY <2>1, ShownFrame DEF Observe, shown
    <2>2. ASSUME NEW e \in Known, NEW new \in Summary, Publish(e, new),
                 proven' = IF new.state \in Terminal THEN proven \union {e} ELSE proven
          PROVE  ShownOK' /\ Known' = Known /\ proven \subseteq proven'
      <3>1. new.state \in Active \/ e \in proven'
        BY <2>2 DEF Summary
      <3>2. proven \subseteq proven' /\ proven' \subseteq Episodes /\ skipped' = skipped
        BY <2>2, Records DEF IInv, ShownOK, Observe
      <3> QED  BY <2>2, <3>1, <3>2, PublishIs
    <2> QED  BY <2>1, <2>2, ObserveIs
  <1>2. MailOK'
    BY <1>1, HeadIs DEF Observe, MailOK
  <1> QED  BY <1>1, <1>2, CallsFrame, ThreadFrame, SessionsFrame DEF IInv, Observe

(* A failed dispatch or reconciliation publishes the summary that the call  *)
(* has, in an active state.                                                 *)
LEMMA NeedsAttentionIs ==
  ASSUME IInv, NEW c \in Calls, DispatchFails(c) \/ ReconcileFails(c)
  PROVE  /\ call[c].episode \in Known /\ call[c].was \in Summary
         /\ Publish(call[c].episode, InState(call[c].was, "needs_attention"))
         /\ Finish(c) /\ UNCHANGED <<auth, ctx, rev, provider, history>>
  BY Dispatched, Continues DEF DispatchFails, ReconcileFails, Is

LEMMA NeedsAttentionStep ==
  ASSUME IInv, NEW c \in Calls, DispatchFails(c) \/ ReconcileFails(c)
  PROVE  IInv'
  <1>1. ShownOK' /\ Known' = Known
    <2>1. InState(call[c].was, "needs_attention") \in Summary
          /\ InState(call[c].was, "needs_attention").state \in Active
      BY NeedsAttentionIs, InStateIs DEF Active
    <2> QED  BY <2>1, NeedsAttentionIs, PublishIs DEF history, IInv, ShownOK
  <1> QED  BY <1>1, NeedsAttentionIs, CallsFinish, MailFrame, ThreadFrame, SessionsFrame
           DEF IInv, provider, history

LEMMA PublishStoppedIs ==
  ASSUME IInv, NEW c \in Calls, PublishStopped(c)
  PROVE  /\ call[c].episode \in Known /\ call[c].was \in Summary
         /\ \/ UNCHANGED <<shown, history>>
            \/ /\ Publish(call[c].episode, InState(call[c].was, "stopped"))
               /\ proven' = proven \union {call[c].episode} /\ skipped' = skipped
  BY Continues DEF PublishStopped, Is, Publish, MayWrite

LEMMA PublishStoppedStep ==
  ASSUME IInv, NEW c \in Calls, PublishStopped(c)
  PROVE  IInv'
  <1>1. ShownOK' /\ Known' = Known /\ proven \subseteq proven' /\ skipped' = skipped
    <2>1. CASE UNCHANGED <<shown, history>>
      BY <2>1, ShownFrame DEF shown, history
    <2>2. CASE /\ Publish(call[c].episode, InState(call[c].was, "stopped"))
               /\ proven' = proven \union {call[c].episode} /\ skipped' = skipped
      <3>1. InState(call[c].was, "stopped") \in Summary
        BY PublishStoppedIs, InStateIs DEF Terminal
      <3>2. proven' \subseteq Episodes
        BY <2>2, PublishStoppedIs, Records DEF IInv, ShownOK
      <3> QED  BY <2>2, <3>1, <3>2, PublishStoppedIs, PublishIs
    <2> QED  BY <2>1, <2>2, PublishStoppedIs
  <1> QED  BY <1>1, CallsFinish, MailFrame, ThreadFrame, SessionsFrame
           DEF IInv, PublishStopped, provider

LEMMA RestoredIs ==
  ASSUME IInv, NEW e \in DOMAIN file
  PROVE  /\ Restored(e) \in Summary
         /\ file[e].state \in Active => Restored(e).state \in Active
  <1>1. file[e] \in Summary
    BY Records
  <1>2. /\ Mapped(file[e].state, "running") \in Active \union Terminal
        /\ file[e].state \in Active => Mapped(file[e].state, "running") \notin Terminal
    BY <1>1 DEF Mapped, Summary, Active, Terminal
  <1> DEFINE read == Mapped(file[e].state, "running")
             state == IF read \in Terminal THEN read
                      ELSE IF Matches(e, file[e]) THEN "interrupted" ELSE "needs_attention"
  <1>3. Restored(e) = InState(file[e], state)
    BY DEF Restored
  <1>4. state \in Active \union Terminal /\ (file[e].state \in Active => state \in Active)
    BY <1>2 DEF Active
  <1> HIDE DEF state
  <1> QED  BY <1>1, <1>3, <1>4, InStateIs

(* A restart shows some of the episodes of the file.                        *)
LEMMA RestartIs ==
  ASSUME IInv, Restart
  PROVE  /\ Known' \subseteq DOMAIN file /\ ep' \in Projection
         /\ \A e \in Known' : ep'[e] = Restored(e)
         /\ file' = file \/ file' \in Writes(ep')
         /\ skipped' = (skipped \union DOMAIN file) \ Known'
  <1>1. PICK D \in Readable(file) :
          /\ ep' = [e \in D |-> Restored(e)]
          /\ IF D = {} THEN UNCHANGED file ELSE MayWrite
          /\ skipped' = (skipped \union DOMAIN file) \ D
    BY DEF Restart
  <1>2. D \subseteq DOMAIN file /\ Known' = D
    BY <1>1 DEF Readable, Known
  <1>3. ep' \in [D -> Summary]
    BY <1>1, <1>2, RestoredIs
  <1>4. ep' \in Projection
    BY <1>2, <1>3, Records, ProjectionIntro
  <1> QED  BY <1>1, <1>2, <1>4 DEF MayWrite

LEMMA RestartStep ==
  ASSUME IInv, Restart
  PROVE  IInv'
  <1>1. proven' = proven
    BY DEF Restart
  <1>2. \A e \in Known' \ proven : IsActive(e)' /\ e \in ActiveOf(file)
    <2> SUFFICES ASSUME NEW e \in Known' \ proven
                 PROVE  ep'[e].state \in Active /\ e \in ActiveOf(file)
      BY DEF IsActive
    <2>1. e \in ActiveOf(file)
      BY RestartIs DEF IInv, ShownOK, UnprovenActive
    <2> QED  BY <2>1, RestartIs, RestoredIs DEF ActiveOf
  <1>3. ShownOK'
    <2>1. skipped' \subseteq Episodes
      BY RestartIs, Records DEF IInv, ShownOK
    <2>2. CASE file' = file
      BY <1>1, <1>2, <2>1, <2>2, RestartIs DEF IInv, ShownOK, UnprovenActive, ActiveOf
    <2>3. CASE file' \in Writes(ep')
      <3>1. /\ file' \in Projection /\ DOMAIN file' \subseteq Known'
            /\ ActiveOf(file') = ActiveOf(ep')
        BY <2>3, RestartIs, WritesIs DEF Known
      <3>2. Known' \ proven \subseteq ActiveOf(ep')
        BY <1>2 DEF ActiveOf, IsActive, Known
      <3>3. ActiveOf(file)' = ActiveOf(file')
        BY DEF ActiveOf
      <3>4. UnprovenActive'
        BY <1>1, <1>2, <3>1, <3>2, <3>3 DEF UnprovenActive
      <3> QED  BY <1>1, <2>1, <3>1, <3>4, RestartIs DEF IInv, ShownOK
    <2> QED  BY <2>2, <2>3, RestartIs
  <1>4. CallsOK' /\ MailOK' /\ SessionsOK'
    BY BoundsAssumption DEF Restart, CallsOK, CallType, NoCall, AboutIn, MailOK, SessionsOK,
       IInv, SessionsOK
  <1>5. ThreadOK'
    <2>1. \A e \in Episodes : Launched(e) => e \in Known' \union skipped' \union proven
      BY RestartIs DEF IInv, ThreadOK, ShownOK, UnprovenActive, ActiveOf
    <2>2. thread' = ThreadsOver
      BY DEF Restart
    <2> QED  BY <1>1, <2>1, <2>2, ThreadsOverIs DEF ThreadOK, Launched, IsLive
  <1> QED  BY <1>3, <1>4, <1>5 DEF IInv

-----------------------------------------------------------------------------
(* Theorems *)

LEMMA StutterStep ==
  ASSUME IInv, UNCHANGED vars
  PROVE  IInv'
  BY ShownFrame, CallsFrame, MailFrame, ThreadFrame, SessionsFrame
     DEF vars, shown, provider, history, IInv

LEMMA NextIInv ==
  ASSUME IInv, [Next]_vars
  PROVE  IInv'
  <1>1. ASSUME NEW c \in Calls, Opening(c)  PROVE IInv'
    BY <1>1, ResolveStep, ResolveFailsStep, SendMessageStep, ProviderOpensStep,
       SessionStartsStep, RebindStep DEF Opening
  <1>2. ASSUME NEW c \in Calls, Answering(c)  PROVE IInv'
    BY <1>2, DeclineStep, DeclinedStep, AdmitUnwrittenStep, AdmitStep DEF Answering
  <1>3. ASSUME NEW c \in Calls, Controlling(c)  PROVE IInv'
    BY <1>3, RequestFailsStep, SendResumeStep, ResumedStep, NeedsAttentionStep,
       PublishStoppedStep DEF Controlling
  <1>4. ASSUME NEW c \in Calls, Providing(c)  PROVE IInv'
    BY <1>4, ProviderStartsStep, ProviderStopsStep, ProviderResumesStep DEF Providing
  <1>5. CASE Next
    BY <1>5, <1>1, <1>2, <1>3, <1>4, RequestAuthorizationStep, DropAuthorizationStep,
       ConfirmStep, FinishEditStep, OpenSessionStep, StopStep, ResumeStep, ShowEpisodeStep,
       BeginEditStep, ThreadReportsStep, ThreadEndsStep, ObserveStep, ProviderCrashesStep,
       RestartStep DEF Next
  <1> QED  BY <1>5, StutterStep

LEMMA Inductive == Spec => []IInv
  BY InitIInv, NextIInv, PTL DEF Spec

(* Whatever the provider reports and whatever fails, the application shows  *)
(* and keeps well-formed episodes (optimizationEpisodeState).               *)
THEOREM TypeCorrect == Spec => []TypeOK
  BY Inductive, TypeFromIInv, PTL

(* An episode the provider was told of survives every crash, every lost     *)
(* write and every write that drops ended episodes, until its end is proven *)
(* or a restart does not read it (persistOptimizationProjection).           *)
THEOREM LaunchedStaysDurable == Spec => []LaunchedIsDurable
  BY Inductive, DurableFromIInv, PTL

(* A launched episode is active until its end was reported or reconciled    *)
(* with ECC, or a restart does not read it (publishOptimizationEpisode,     *)
(* restoreOptimizationProjection).                                          *)
THEOREM GuardStaysKept == Spec => []GuardKept
  BY Inductive, GuardFromIInv, PTL

-----------------------------------------------------------------------------
(* How a Parent comes to have a second owner *)

(* The steps that place or revive an episode without looking further.       *)
LEMMA UncheckedSets ==
  ASSUME IInv, NEW g \in Known, NEW x, Publish(g, x), Unchecked(g),
         NEW p, NEW e \in Owners(p)', NEW f \in Owners(p)', e # f
  PROVE  \/ {e, f} \subseteq Owners(p)
         \/ \E h \in {e, f} : h \in Known \union DOMAIN file /\ Unchecked(h)
  <1>1. Known' = Known /\ \A h \in Known \ {g} : ep'[h] = ep[h]
    BY DEF Publish, Set, Known
  <1>2. \A h \in {e, f} \ {g} : h \in Owners(p)
    BY <1>1 DEF Owners, IsActive
  <1> QED  BY <1>2

LEMMA OwnersStep ==
  ASSUME IInv, [Next]_vars, NEW p \in Parents,
         NEW e \in Owners(p)', NEW f \in Owners(p)', e # f
  PROVE  \/ {e, f} \subseteq Owners(p)
         \/ \E g \in {e, f} : g \in Known \union DOMAIN file /\ Unchecked(g)
  <1> DEFINE Goal == \/ {e, f} \subseteq Owners(p)
                     \/ \E g \in {e, f} : g \in Known \union DOMAIN file /\ Unchecked(g)
  <1>1. {e, f} \subseteq Known' /\ \A g \in {e, f} : ep'[g].parent = p /\ ep'[g].state \in Active
    BY DEF Owners, IsActive
  <1>2. CASE UNCHANGED ep
    BY <1>1, <1>2 DEF Owners, IsActive, Known
  <1>3. CASE Restart
    BY <1>1, <1>3, RestartIs DEF Unchecked
  <1>4. ASSUME NEW g \in Known, NEW new \in Summary, Publish(g, new),
               Owners(new.parent) \subseteq {g} \/ new.state \notin Active
        PROVE  Goal
    <2>1. Known' = Known /\ ep'[g] = new /\ \A h \in Known \ {g} : ep'[h] = ep[h]
      BY <1>4, Records, SetIs DEF Publish
    <2>2. \A h \in {e, f} \ {g} : h \in Owners(p)
      BY <1>1, <2>1 DEF Owners, IsActive
    <2>3. CASE g \in {e, f}
      BY <1>1, <1>4, <2>1, <2>2, <2>3
    <2> QED  BY <2>2, <2>3
  <1>5. CASE Observe
    BY <1>2, <1>4, <1>5, ObserveIs DEF shown
  <1>6. ASSUME NEW c \in Calls, Opening(c)  PROVE Goal
    <2>1. CASE SessionStarts(c)
      <3>1. CASE UNCHANGED shown
        BY <1>2, <3>1 DEF shown
      <3>2. ASSUME NEW g \in InSession(call[c].session), Publish(g, Placed(g, At(c)))
            PROVE  Goal
        <4>1. g \in Known /\ Unchecked(g)
          BY <2>1, <3>2 DEF InSession, Unchecked
        <4> QED  BY <3>2, <4>1, UncheckedSets
      <3> QED  BY <2>1, <3>1, <3>2 DEF SessionStarts
    <2>2. CASE Rebind(c)
      <3>1. CASE UNCHANGED shown
        BY <1>2, <3>1 DEF shown
      <3>2. CASE ~UNCHANGED shown
        <4> DEFINE g == call[c].episode
                   x == [parent |-> call[c].was.parent, rev |-> call[c].read]
        <4>1. g \in Known /\ Unchecked(g) /\ Publish(g, Placed(g, x))
          BY <2>2, <3>2 DEF Rebind, Unchecked
        <4> HIDE DEF g, x
        <4> QED  BY <4>1, UncheckedSets
      <3> QED  BY <3>1, <3>2
    <2> QED  BY <1>2, <1>6, <2>1, <2>2 DEF Opening, Resolve, ResolveFails, SendMessage,
             ProviderOpens, shown
  <1>7. ASSUME NEW c \in Calls, Answering(c)  PROVE Goal
    <2>1. ASSUME NEW g \in Episodes, Admit(c, g)  PROVE Goal
      <3>1. ep' = Set(g, NewEpisode(c)) /\ g \notin Known /\ ~Guarded(call[c].auth.parent)
        BY <2>1 DEF Admit, Admitting, Fresh, MayAdmit
      <3>2. /\ Known' = Known \union {g} /\ ep'[g].parent = call[c].auth.parent
            /\ \A h \in Known : ep'[h] = ep[h]
        BY <2>1, <3>1, AdmittedIs, SetIs
      <3>3. \A h \in {e, f} \ {g} : h \in Owners(p)
        BY <1>1, <3>2 DEF Owners, IsActive
      <3>4. ep'[g].parent # p
        BY <3>1, <3>2, <3>3 DEF Guarded
      <3> QED  BY <1>1, <3>3, <3>4
    <2> QED  BY <1>2, <1>7, <2>1 DEF Answering, Decline, Declined, AdmitUnwritten, shown
  <1>8. ASSUME NEW c \in Calls, Controlling(c)  PROVE Goal
    <2>1. CASE DispatchFails(c) \/ ReconcileFails(c)
      BY <2>1, NeedsAttentionIs, UncheckedSets DEF Unchecked
    <2>2. CASE PublishStopped(c)
      <3>1. InState(call[c].was, "stopped") \in Summary
            /\ InState(call[c].was, "stopped").state \notin Active
        BY <2>2, PublishStoppedIs, InStateIs DEF Terminal, Active
      <3> QED  BY <1>2, <1>4, <2>2, <3>1, PublishStoppedIs DEF shown
    <2> QED  BY <1>2, <1>8, <2>1, <2>2 DEF Controlling, RequestFails, SendResume, Resumed, shown
  <1>9. ASSUME NEW c \in Calls, Providing(c)  PROVE Goal
    BY <1>2, <1>9 DEF Providing, ProviderStarts, ProviderStops, ProviderResumes, shown
  <1>10. CASE Next
    BY <1>2, <1>3, <1>5, <1>6, <1>7, <1>8, <1>9, <1>10 DEF Next, RequestAuthorization,
       DropAuthorization, Confirm, FinishEdit, OpenSession, Stop, Resume, ShowEpisode, BeginEdit,
       ThreadReports, ThreadEnds, ProviderCrashes, shown
  <1> QED  BY <1>2, <1>10 DEF vars, shown

(* The only ways to two active episodes of one Parent are the steps that    *)
(* place or revive an episode without looking for another owner: not an     *)
(* admission, not an event of the provider, in whatever order they come     *)
(* (answerInteraction, observeOptimizationEvent).                           *)
THEOREM SecondOwnersAreKnown == Spec => SecondOwnersAreUnchecked
  <1>1. IInv /\ [Next]_vars =>
          [\A p \in Parents : \A e, f \in Owners(p)' :
             \/ e = f
             \/ {e, f} \subseteq Owners(p)
             \/ \E g \in {e, f} : g \in Known \union DOMAIN file /\ Unchecked(g)]_vars
    BY OwnersStep
  <1> QED  BY <1>1, Inductive, PTL DEF Spec, SecondOwnersAreUnchecked
=============================================================================
