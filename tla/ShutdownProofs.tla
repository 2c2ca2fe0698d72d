----------------------------- MODULE ShutdownProofs -----------------------------
(***************************************************************************)
(* Proofs about ShutdownCoordinator, for any number of windows, attempts   *)
(* and commands: what an attempt approves is idle and cleaned up, a        *)
(* shutdown that is given up releases the episodes it had drained, and no   *)
(* flag of an attempt outlives the call it stands for.                     *)
(***************************************************************************)
EXTENDS ShutdownCoordinator, TLAPS

InUse(x) == x.state \notin {"unused", "dropped"}
CurrentInUse == attempt # NoAttempt => InUse(att[attempt])
CallsInUse == \A c \in calls : att[c.of].state # "unused"

(* What a call knows of its attempt while that is current and its scope was *)
(* not widened.                                                             *)
Bound == {"decide", "notify", "cleanup", "review"}
Cleaned(x) == WindowIds(x.scope) \intersect open \subseteq x.cleaned
Knows(c, x) == /\ c.at \in Bound => c.scope = x.scope
               /\ c.at = "cleanup" => Cleaned(x)
CallsKnow == \A c \in calls : attempt = c.of /\ ~att[c.of].promoted => Knows(c, att[c.of])

(* While an attempt cleans up, each window has finished or is waited for.   *)
Cleaning(x) == x.state = "cleaning" /\ ~x.promoted
                 => WindowIds(x.scope) \intersect open \subseteq x.pending \union x.cleaned
CleaningIsTracked == attempt # NoAttempt => Cleaning(att[attempt])

(* Drained episodes are being restored, or were when a request was rejected, *)
(* or are the current attempt's, which will restore them: closing its window *)
(* takes all of them away.                                                   *)
Restores == unrestored \/ \E c \in calls : c.at = "restore"
DrainsOwn(x) == /\ x.drain
                /\ x.scope # App => held \intersect open \subseteq {x.scope}
HeldIsOwned == held \intersect open # {}
                 => Restores \/ (attempt # NoAttempt /\ DrainsOwn(att[attempt]))

IInv == /\ TypeOK /\ CurrentInUse /\ CallsInUse /\ CallsKnow /\ CleaningIsTracked
        /\ HeldIsOwned

(* The step property that SafeApproval asks of every step.                  *)
Approves(a) == att[a].state # "approved" /\ att'[a].state = "approved"
SafeStep == \A a \in Attempts :
  /\ Approves(a) /\ ~att'[a].forced /\ ~att'[a].promoted
  /\ \A c \in calls : c.at # "kill"
  => ~Blocked(att'[a].scope) /\ WindowIds(att'[a].scope) \intersect open \subseteq att'[a].cleaned
NothingApproved == \A a \in Attempts : ~Approves(a)

-----------------------------------------------------------------------------
LEMMA QuietIsSafe == NothingApproved => SafeStep
  BY DEF NothingApproved, SafeStep

LEMMA ReleasedFromIInv == IInv => CancelledDrainReleased
  BY DEF IInv, HeldIsOwned, Restores, CancelledDrainReleased

LEMMA InitIInv == Init => IInv
  <1> SUFFICES ASSUME Init PROVE IInv  OBVIOUS
  <1>1. Unused \in Attempt
    BY DEF Unused, Attempt, States, Scopes
  <1>2. work \in [Windows -> 0..MaxWork] /\ att \in [Attempts -> Attempt]
    BY <1>1, ShutdownAssumption DEF Init
  <1>3. episode \in [Windows -> {"none", "running", "interrupted"}]
    BY DEF Init
  <1>4. TypeOK
    BY <1>2, <1>3 DEF Init, TypeOK
  <1> QED  BY <1>4 DEF IInv, Init, CurrentInUse, CallsInUse, CallsKnow,
             CleaningIsTracked, HeldIsOwned

LEMMA StutterIInv == IInv /\ UNCHANGED vars => IInv' /\ SafeStep
  <1> SUFFICES ASSUME IInv, UNCHANGED vars PROVE IInv' /\ SafeStep  OBVIOUS
  <1>1. IInv'
    BY DEF IInv, TypeOK, CurrentInUse, CallsInUse, CallsKnow, Knows, Cleaned, Cleaning,
           CleaningIsTracked, HeldIsOwned, Restores, DrainsOwn, WindowIds, vars
  <1>2. NothingApproved
    BY DEF vars, NothingApproved, Approves
  <1> QED  BY <1>1, <1>2, QuietIsSafe

-----------------------------------------------------------------------------
(* Three ways in which a step may treat the current attempt *)

(* The attempt stays, and y is what becomes of it.                          *)
Evolves(x, y) == /\ InUse(y)
                 /\ y.scope = x.scope \/ (y.promoted /\ y.scope = App)
                 /\ x.promoted => y.promoted
                 /\ x.cleaned \subseteq y.cleaned
                 /\ x.drain => y.drain
NewCall(c) == /\ att[c.of].state # "unused"
              /\ attempt = c.of /\ ~att'[c.of].promoted => Knows(c, att[c.of])'
Stays ==
  /\ attempt' = attempt /\ open' \subseteq open
  /\ \A b \in Attempts : b # attempt => att'[b] = att[b]
  /\ attempt # NoAttempt => /\ Evolves(att[attempt], att'[attempt])
                            /\ Cleaning(att[attempt])'
  /\ \A c \in calls' \ calls : NewCall(c)

LEMMA StaysCore ==
  ASSUME IInv, TypeOK', Stays, HeldIsOwned'
  PROVE  IInv'
  <1>1. CurrentInUse' /\ CleaningIsTracked'
    BY DEF Stays, Evolves, CurrentInUse, CleaningIsTracked
  <1>2. ASSUME NEW b \in Attempts, att[b].state # "unused"  PROVE att'[b].state # "unused"
    BY <1>2, ShutdownAssumption DEF IInv, TypeOK, Stays, Evolves, InUse
  <1>3. CallsInUse'
    BY <1>2 DEF IInv, TypeOK, CallsInUse, Call, Stays, NewCall
  <1>4. CallsKnow'
    <2> SUFFICES ASSUME NEW c \in calls', attempt = c.of, ~att'[c.of].promoted
                 PROVE  Knows(c, att[c.of])'
      BY DEF CallsKnow, Stays
    <2>1. CASE c \notin calls
      BY <2>1 DEF Stays, NewCall
    <2>2. CASE c \in calls
      <3>1. c.of \in Attempts /\ attempt # NoAttempt
        BY <2>2, ShutdownAssumption DEF IInv, TypeOK, Call
      <3>2. Evolves(att[c.of], att'[c.of]) /\ open' \subseteq open
        BY <3>1 DEF Stays
      <3>3. ~att[c.of].promoted /\ att'[c.of].scope = att[c.of].scope
        BY <3>2 DEF Evolves
      <3>4. Knows(c, att[c.of])
        BY <2>2, <3>3 DEF IInv, CallsKnow
      <3> QED  BY <3>2, <3>3, <3>4 DEF Knows, Cleaned, Evolves, WindowIds
    <2> QED  BY <2>1, <2>2
  <1> QED  BY <1>1, <1>3, <1>4 DEF IInv

LEMMA StaysIInv ==
  ASSUME IInv, TypeOK', Stays, held' = held, unrestored' = unrestored,
         \A c \in calls : c.at = "restore" => c \in calls'
  PROVE  IInv'
  <1>1. HeldIsOwned'
    <2> SUFFICES ASSUME held' \intersect open' # {}, ~Restores'
                 PROVE  attempt' # NoAttempt /\ DrainsOwn(att[attempt])'
      BY DEF HeldIsOwned
    <2>1. held \intersect open # {} /\ ~Restores
      BY DEF Stays, Restores
    <2>2. attempt # NoAttempt /\ DrainsOwn(att[attempt])
      BY <2>1 DEF IInv, HeldIsOwned
    <2> QED  BY <2>2 DEF DrainsOwn, Stays, Evolves
  <1> QED  BY <1>1, StaysCore

(* The attempt is given up.                                                 *)
LEMMA EndsIInv ==
  ASSUME IInv, TypeOK', attempt' = NoAttempt, HeldIsOwned',
         \A b \in Attempts : att'[b].state = "unused" => att[b].state = "unused",
         \A c \in calls' \ calls : att'[c.of].state # "unused"
  PROVE  IInv'
  <1>1. CallsInUse'
    BY DEF IInv, TypeOK, CallsInUse, Call
  <1>2. CurrentInUse' /\ CleaningIsTracked'
    BY DEF CurrentInUse, CleaningIsTracked
  <1>3. CallsKnow'
    BY ShutdownAssumption DEF TypeOK, Call, CallsKnow
  <1> QED  BY <1>1, <1>2, <1>3 DEF IInv

-----------------------------------------------------------------------------
(* The pieces the handlers share *)

LEMMA AttemptFields ==
  ASSUME NEW x \in Attempt
  PROVE  /\ Draining(x) \in Attempt /\ Dropped(x) \in Attempt
         /\ Dropped(x).state = "dropped" /\ InUse(Draining(x))
  BY DEF Attempt, Draining, Dropped, Unused, States, Scopes, InUse

LEMMA CallFields ==
  ASSUME NEW p \in Awaits, NEW a \in Attempts, NEW s \in Scopes
  PROVE  /\ Await(p, a, s) \in Call /\ Await(p, a, s).at = p
         /\ Await(p, a, s).of = a /\ Await(p, a, s).scope = s
  BY DEF Await, Call

LEMMA Current ==
  ASSUME IInv, attempt # NoAttempt
  PROVE  /\ attempt \in Attempts /\ att[attempt] \in Attempt /\ InUse(att[attempt])
         /\ att[attempt].scope \in Scopes
  BY DEF IInv, TypeOK, CurrentInUse, Attempt

LEMMA CallOf ==
  ASSUME IInv, NEW c \in calls
  PROVE  /\ c \in Call /\ c.of \in Attempts /\ c.scope \in Scopes /\ att[c.of] \in Attempt
         /\ att[c.of].state # "unused" /\ att[c.of].scope \in Scopes
         /\ IsCurrent(c) => attempt # NoAttempt /\ InUse(att[c.of])
  BY ShutdownAssumption DEF IInv, TypeOK, Call, Attempt, CallsInUse, IsCurrent, CurrentInUse

LEMMA BecomesAttempt ==
  ASSUME TypeOK, NEW a \in Attempts, NEW y \in Attempt, Becomes(a, y)
  PROVE  /\ att' \in [Attempts -> Attempt] /\ att'[a] = y
         /\ \A b \in Attempts : b # a => att'[b] = att[b]
  BY DEF TypeOK, Becomes

LEMMA NotifiedCalls ==
  ASSUME IInv
  PROVE  /\ Notified \subseteq Call
         /\ \A c \in Notified : /\ attempt # NoAttempt /\ c.of = attempt /\ c.at = "notify"
                               /\ c.scope = att[attempt].scope
  <1>1. CASE attempt = NoAttempt
    BY <1>1 DEF Notified
  <1>2. CASE attempt # NoAttempt
    BY <1>2, Current, CallFields DEF Notified, Awaits
  <1> QED  BY <1>1, <1>2

LEMMA ForceCalls ==
  ASSUME NEW a \in Attempts, NEW x \in Attempt
  PROVE  /\ ForcePrompt(a, x) \subseteq Call
         /\ \A c \in ForcePrompt(a, x) : c.of = a /\ c.at = "force"
  BY CallFields DEF ForcePrompt, Awaits, Attempt

LEMMA PursueCalls ==
  ASSUME NEW a \in Attempts, NEW x \in Attempt
  PROVE  /\ Pursue(a, x) \subseteq Call
         /\ \A c \in Pursue(a, x) : /\ c.of = a /\ c.scope = x.scope
                                  /\ c.at \in {"review", "decide", "force"}
  <1>1. x.scope \in Scopes
    BY DEF Attempt
  <1>2. \A c \in ForcePrompt(a, x) : c.scope = x.scope
    BY DEF ForcePrompt, Await
  <1> QED  BY <1>1, <1>2, CallFields, ForceCalls DEF Pursue, Awaits

LEMMA AskedType ==
  ASSUME TypeOK, NEW a \in Attempts, NEW ws
  PROVE  Asked(a, ws) \in [Windows -> Attempts \union {NoAttempt}]
  BY DEF TypeOK, Asked

(* A step that leaves the attempts alone, or changes the current one.       *)
LEMMA AloneStays ==
  ASSUME IInv, attempt' = attempt, att' = att, open' \subseteq open,
         \A c \in calls' \ calls : NewCall(c)
  PROVE  Stays
  <1>1. ASSUME attempt # NoAttempt
        PROVE  Evolves(att[attempt], att'[attempt]) /\ Cleaning(att[attempt])'
    BY <1>1, Current DEF IInv, CleaningIsTracked, Cleaning, Evolves, WindowIds
  <1> QED  BY <1>1 DEF Stays

LEMMA BecomesStays ==
  ASSUME IInv, attempt # NoAttempt, attempt' = attempt, open' = open,
         NEW y \in Attempt, Becomes(attempt, y), Evolves(att[attempt], y), Cleaning(y),
         \A c \in calls' \ calls : NewCall(c)
  PROVE  Stays
  <1>1. /\ att'[attempt] = y
        /\ \A b \in Attempts : b # attempt => att'[b] = att[b]
    BY Current, BecomesAttempt DEF IInv
  <1>2. Cleaning(att[attempt])'
    BY <1>1 DEF Cleaning, WindowIds
  <1> QED  BY <1>1, <1>2 DEF Stays

-----------------------------------------------------------------------------
(* The work *)

LEMMA AloneIsSafe == att' = att => NothingApproved
  BY DEF NothingApproved, Approves

LEMMA NotifyingIInv ==
  ASSUME IInv, TypeOK', attempt' = attempt, att' = att, open' = open, held' = held,
         unrestored' = unrestored, calls' = calls \union Notified
  PROVE  IInv' /\ SafeStep
  <1>1. ASSUME NEW c \in calls' \ calls  PROVE NewCall(c)
    BY <1>1, NotifiedCalls, Current DEF NewCall, Knows, InUse
  <1>2. Stays
    BY <1>1, AloneStays
  <1> QED  BY <1>2, StaysIInv, AloneIsSafe, QuietIsSafe

LEMMA WorkIInv ==
  ASSUME IInv, WorkNext
  PROVE  IInv' /\ SafeStep
  <1>0. TypeOK /\ Notified \subseteq Call
    BY NotifiedCalls DEF IInv
  <1>1. ASSUME NEW w \in Windows, WorkBegins(w)  PROVE IInv' /\ SafeStep
    <2>1. TypeOK'
      BY <1>0, <1>1, ShutdownAssumption DEF TypeOK, WorkBegins
    <2> QED  BY <1>1, <2>1, NotifyingIInv DEF WorkBegins
  <1>2. ASSUME NEW w \in Windows, WorkEnds(w)  PROVE IInv' /\ SafeStep
    <2>1. TypeOK'
      BY <1>0, <1>2, ShutdownAssumption DEF TypeOK, WorkEnds
    <2> QED  BY <1>2, <2>1, NotifyingIInv DEF WorkEnds
  <1>3. ASSUME NEW w \in Windows, EpisodeEnds(w)  PROVE IInv' /\ SafeStep
    <2>1. TypeOK'
      BY <1>0, <1>3 DEF TypeOK, EpisodeEnds
    <2> QED  BY <1>3, <2>1, NotifyingIInv DEF EpisodeEnds
  <1>4. ASSUME ProjectionInvalidated  PROVE IInv' /\ SafeStep
    <2>1. TypeOK'
      BY <1>0, <1>4 DEF TypeOK, ProjectionInvalidated, env
    <2> QED  BY <1>4, <2>1, NotifyingIInv DEF ProjectionInvalidated, env
  <1>5. ASSUME NEW w \in Windows, EpisodeResumes(w)  PROVE IInv' /\ SafeStep
    <2>1. TypeOK'
      BY <1>0, <1>5 DEF TypeOK, EpisodeResumes
    <2> QED  BY <1>5, <2>1, NotifyingIInv DEF EpisodeResumes
  <1> QED  BY <1>1, <1>2, <1>3, <1>4, <1>5 DEF WorkNext

-----------------------------------------------------------------------------
(* The renderers' cleanup *)

(* What beginRendererCleanup does with the current attempt when nothing in  *)
(* its scope blocks.                                                        *)
LEMMA BeginCleanup ==
  ASSUME IInv, NEW a \in Attempts, a = attempt, attempt' = attempt, open' = open,
         beginRendererCleanup(a, att[a]), \A c \in calls' \ calls : NewCall(c)
  PROVE  /\ att' \in [Attempts -> Attempt] /\ approved' \subseteq Scopes
         /\ handling' \in [Windows -> Attempts \union {NoAttempt}]
         /\ Stays
         /\ ~Blocked(att[a].scope) => SafeStep
  <1> DEFINE x == att[a]
             ws == WindowIds(x.scope)
             y == [x EXCEPT !.state = "cleaning", !.forceEligible = TRUE, !.pending = ws]
             z == [x EXCEPT !.state = "approved", !.forceEligible = FALSE]
  <1>1. /\ TypeOK /\ attempt # NoAttempt /\ x \in Attempt /\ InUse(x) /\ x.scope \in Scopes
        /\ Cleaning(x)
    BY Current, ShutdownAssumption DEF IInv, CleaningIsTracked
  <1>2. ws \subseteq Windows
    BY <1>1 DEF TypeOK, WindowIds, Scopes
  <1>3. y \in Attempt /\ z \in Attempt
    BY <1>1, <1>2 DEF Attempt, States
  <1>4. CASE Becomes(a, x) /\ UNCHANGED <<handling, approved>>
    <2>1. att' = att
      BY <1>1, <1>4 DEF Becomes, TypeOK
    <2>2. Stays
      BY <2>1, AloneStays
    <2> QED  BY <1>1, <1>4, <2>1, <2>2, AloneIsSafe, QuietIsSafe DEF TypeOK
  <1>5. CASE ws = {} /\ Becomes(a, z) /\ approved' = approved \union {x.scope}
             /\ UNCHANGED handling
    <2>1. att' \in [Attempts -> Attempt] /\ att'[a] = z
          /\ \A b \in Attempts : b # a => att'[b] = att[b]
      BY <1>1, <1>3, <1>5, BecomesAttempt
    <2>2. Evolves(x, z) /\ Cleaning(z)
      BY <1>1 DEF Attempt, Evolves, InUse, Cleaning
    <2>3. Stays
      BY <1>1, <1>3, <1>5, <2>2, BecomesStays
    <2>4. ASSUME ~Blocked(x.scope)  PROVE SafeStep
      <3>1. z.scope = x.scope /\ WindowIds(z.scope) = {}
        BY <1>1, <1>5 DEF Attempt
      <3>2. \A b \in Attempts : Approves(b) => att'[b] = z
        BY <2>1 DEF Approves
      <3> QED  BY <2>4, <3>1, <3>2 DEF SafeStep
    <2> QED  BY <1>1, <1>5, <2>1, <2>3, <2>4 DEF TypeOK
  <1>6. CASE Becomes(a, y) /\ handling' = Asked(a, ws) /\ UNCHANGED approved
    <2>1. att' \in [Attempts -> Attempt] /\ att'[a] = y
          /\ \A b \in Attempts : b # a => att'[b] = att[b]
      BY <1>1, <1>3, <1>6, BecomesAttempt
    <2>2. Evolves(x, y) /\ Cleaning(y)
      BY <1>1 DEF Attempt, Evolves, InUse, Cleaning
    <2>3. Stays
      BY <1>1, <1>3, <1>6, <2>2, BecomesStays
    <2>4. NothingApproved
      BY <1>1, <2>1 DEF NothingApproved, Approves, Attempt
    <2> QED  BY <1>1, <1>6, <2>1, <2>3, <2>4, AskedType, QuietIsSafe DEF TypeOK
  <1> QED  BY <1>4, <1>5, <1>6 DEF beginRendererCleanup, approve

(* The same for a call that found its scope without blockers: what it knows *)
(* of the scope is still true, unless the attempt was widened.              *)
LEMMA CleanupOfCall ==
  ASSUME IInv, NEW c \in calls, IsCurrent(c), c.at \in Bound, ~Blocked(c.scope),
         attempt' = attempt, open' = open,
         beginRendererCleanup(c.of, att[c.of]), \A d \in calls' \ calls : NewCall(d)
  PROVE  /\ att' \in [Attempts -> Attempt] /\ approved' \subseteq Scopes
         /\ handling' \in [Windows -> Attempts \union {NoAttempt}]
         /\ Stays
         /\ SafeStep
  <1>1. c.of = attempt /\ c.of \in Attempts /\ attempt # NoAttempt
    BY CallOf DEF IsCurrent
  <1>2. /\ att' \in [Attempts -> Attempt] /\ approved' \subseteq Scopes
        /\ handling' \in [Windows -> Attempts \union {NoAttempt}]
        /\ Stays
        /\ ~Blocked(att[c.of].scope) => SafeStep
    BY <1>1, BeginCleanup
  <1>3. CASE att[c.of].promoted
    <2>1. Evolves(att[c.of], att'[c.of]) /\ \A b \in Attempts : b # c.of => att'[b] = att[b]
      BY <1>1, <1>2 DEF Stays
    <2>2. att'[c.of].promoted
      BY <1>3, <2>1 DEF Evolves
    <2> QED  BY <1>2, <2>1, <2>2 DEF SafeStep, Approves
  <1>4. CASE ~att[c.of].promoted
    <2>1. c.scope = att[c.of].scope
      BY <1>1, <1>4 DEF IInv, CallsKnow, Knows
    <2> QED  BY <1>2, <2>1
  <1> QED  BY <1>3, <1>4

LEMMA NotifyInspectedIInv ==
  ASSUME IInv, NEW c \in calls, NotifyInspected(c)
  PROVE  IInv' /\ SafeStep
  <1>1. TypeOK /\ c.at = "notify" /\ calls' = calls \ {c} /\ open' = open /\ attempt' = attempt
        /\ held' = held /\ UNCHANGED <<work, episode, unrestored, forcePromptOpen>>
    BY DEF IInv, NotifyInspected, env
  <1>2. \A d \in calls : d.at = "restore" => d \in calls'
    BY <1>1
  <1>3. CASE IsCurrent(c) /\ ~Blocked(c.scope) /\ beginRendererCleanup(c.of, att[c.of])
    <2>1. /\ att' \in [Attempts -> Attempt] /\ approved' \subseteq Scopes
          /\ handling' \in [Windows -> Attempts \union {NoAttempt}]
          /\ Stays
          /\ SafeStep
      BY <1>1, <1>3, CleanupOfCall DEF Bound
    <2>2. TypeOK'
      BY <1>1, <2>1 DEF TypeOK
    <2> QED  BY <1>1, <1>2, <2>1, <2>2, StaysIInv
  <1>4. CASE UNCHANGED <<att, handling, approved>>
    <2>1. TypeOK' /\ Stays
      BY <1>1, <1>4, AloneStays DEF TypeOK
    <2> QED  BY <1>1, <1>2, <1>4, <2>1, StaysIInv, AloneIsSafe, QuietIsSafe
  <1> QED  BY <1>3, <1>4 DEF NotifyInspected

LEMMA CleanupInspectedIInv ==
  ASSUME IInv, NEW c \in calls, CleanupInspected(c)
  PROVE  IInv' /\ SafeStep
  <1> DEFINE x == att[c.of]
             z == [x EXCEPT !.state = "approved", !.forceEligible = FALSE]
  <1>1. TypeOK /\ c.at = "cleanup" /\ calls' = calls \ {c} /\ open' = open /\ attempt' = attempt
        /\ held' = held /\ UNCHANGED <<work, episode, unrestored, forcePromptOpen>>
    BY DEF IInv, CleanupInspected, env
  <1>2. \A d \in calls : d.at = "restore" => d \in calls'
    BY <1>1
  <1>3. handling' \in [Windows -> Attempts \union {NoAttempt}]
    BY <1>1 DEF CleanupInspected, TypeOK
  <1>4. CASE UNCHANGED <<att, approved>>
    <2>1. TypeOK' /\ Stays
      BY <1>1, <1>3, <1>4, AloneStays DEF TypeOK
    <2> QED  BY <1>1, <1>2, <1>4, <2>1, StaysIInv, AloneIsSafe, QuietIsSafe
  <1>5. ASSUME IsCurrent(c)
        PROVE  /\ c.of = attempt /\ attempt # NoAttempt /\ x \in Attempt /\ x.scope \in Scopes
               /\ c.of \in Attempts /\ InUse(x)
    BY <1>5, CallOf DEF IsCurrent
  <1>6. CASE IsCurrent(c) /\ Becomes(c.of, Draining(x)) /\ UNCHANGED approved
    <2>1. Draining(x) \in Attempt /\ Evolves(x, Draining(x)) /\ Cleaning(Draining(x))
      BY <1>5, <1>6, AttemptFields DEF Evolves, Cleaning, Draining, Attempt
    <2>2. Stays
      BY <1>1, <1>5, <1>6, <2>1, BecomesStays
    <2>3. /\ att' \in [Attempts -> Attempt] /\ att'[c.of] = Draining(x)
          /\ \A b \in Attempts : b # c.of => att'[b] = att[b]
      BY <1>1, <1>5, <1>6, <2>1, BecomesAttempt
    <2>4. TypeOK'
      BY <1>1, <1>3, <1>6, <2>3 DEF TypeOK
    <2>5. NothingApproved
      BY <1>5, <1>6, <2>3 DEF NothingApproved, Approves, Draining, Attempt
    <2> QED  BY <1>1, <1>2, <2>2, <2>4, <2>5, StaysIInv, QuietIsSafe
  <1>7. CASE IsCurrent(c) /\ ~Blocked(c.scope) /\ Becomes(c.of, z)
             /\ approved' = approved \union {x.scope}
    <2>1. z \in Attempt /\ Evolves(x, z) /\ Cleaning(z)
      BY <1>5, <1>7 DEF Evolves, Cleaning, Attempt, States, InUse
    <2>2. Stays
      BY <1>1, <1>5, <1>7, <2>1, BecomesStays
    <2>3. /\ att' \in [Attempts -> Attempt] /\ att'[c.of] = z
          /\ \A b \in Attempts : b # c.of => att'[b] = att[b]
      BY <1>1, <1>5, <1>7, <2>1, BecomesAttempt
    <2>4. TypeOK'
      BY <1>1, <1>3, <1>5, <1>7, <2>3 DEF TypeOK
    <2>5. z.promoted = x.promoted /\ z.scope = x.scope /\ z.cleaned = x.cleaned
      BY <1>5, <1>7 DEF Attempt
    <2>6. ASSUME ~x.promoted
          PROVE  ~Blocked(x.scope) /\ WindowIds(x.scope) \intersect open \subseteq x.cleaned
      BY <1>1, <1>5, <1>7, <2>6 DEF IInv, CallsKnow, Knows, Bound, Cleaned
    <2>7. \A b \in Attempts : Approves(b) => b = c.of
      BY <2>3 DEF Approves
    <2>8. SafeStep
      BY <2>3, <2>5, <2>6, <2>7 DEF SafeStep
    <2> QED  BY <1>1, <1>2, <2>2, <2>4, <2>8, StaysIInv
  <1>8. CASE IsCurrent(c) /\ x.state = "approved" /\ Becomes(c.of, x) /\ UNCHANGED approved
    BY <1>1, <1>4, <1>8 DEF Becomes, TypeOK
  <1> QED  BY <1>4, <1>6, <1>7, <1>8 DEF CleanupInspected, approve

-----------------------------------------------------------------------------
(* The other inspections *)

LEMMA FreeCall ==
  ASSUME IInv, attempt # NoAttempt, NEW d, d.of = attempt, d.at \notin Bound
  PROVE  NewCall(d)
  BY Current DEF NewCall, Knows, Bound, InUse

LEMMA ReviewInspectedIInv ==
  ASSUME IInv, NEW c \in calls, ReviewInspected(c)
  PROVE  IInv' /\ SafeStep
  <1> DEFINE x == att[c.of]
             y == [x EXCEPT !.state = IF x.forceEligible THEN "force-eligible"
                                      ELSE "draining"]
             e == [x EXCEPT !.forceEligible = TRUE]
  <1>1. TypeOK /\ c.at = "review" /\ open' = open /\ attempt' = attempt
        /\ held' = held /\ UNCHANGED <<work, episode, unrestored>>
    BY DEF IInv, ReviewInspected, env
  <1>2. CASE /\ calls' = calls \ {c}
             /\ UNCHANGED <<att, handling, approved, forcePromptOpen>>
    <2>1. TypeOK' /\ Stays
      BY <1>1, <1>2, AloneStays DEF TypeOK
    <2> QED  BY <1>1, <1>2, <2>1, StaysIInv, AloneIsSafe, QuietIsSafe
  <1>3. CASE /\ IsCurrent(c)
             /\ \E new \in {{}, ForcePrompt(c.of, y), ForcePrompt(c.of, e)} :
                  calls' = (calls \ {c}) \union new /\ Prompting(new)
             /\ IF Blocked(c.scope) THEN Becomes(c.of, y) /\ UNCHANGED <<handling, approved>>
                ELSE beginRendererCleanup(c.of, x)
    <2>1. /\ c.of = attempt /\ attempt # NoAttempt /\ x \in Attempt /\ c.of \in Attempts
          /\ InUse(x)
      BY <1>3, CallOf DEF IsCurrent
    <2>2. y \in Attempt /\ e \in Attempt /\ Evolves(x, y) /\ Cleaning(y)
      BY <2>1 DEF Attempt, States, Evolves, InUse, Cleaning
    <2>3. PICK new \in {{}, ForcePrompt(c.of, y), ForcePrompt(c.of, e)} :
            calls' = (calls \ {c}) \union new /\ Prompting(new)
      BY <1>3
    <2>4. new \subseteq Call /\ \A d \in new : d.of = c.of /\ d.at = "force"
      BY <2>1, <2>2, <2>3, ForceCalls
    <2>5. /\ \A d \in calls' \ calls : NewCall(d)
          /\ \A d \in calls : d.at = "restore" => d \in calls'
          /\ calls' \subseteq Call /\ forcePromptOpen' \in BOOLEAN
      BY <1>1, <2>1, <2>3, <2>4, FreeCall DEF Bound, Prompting, TypeOK
    <2>6. CASE Blocked(c.scope)
      <3>1. /\ att' \in [Attempts -> Attempt] /\ att'[c.of] = y
            /\ \A b \in Attempts : b # c.of => att'[b] = att[b]
        BY <1>1, <1>3, <2>1, <2>2, <2>6, BecomesAttempt
      <3>2. Stays
        BY <1>1, <1>3, <2>1, <2>2, <2>5, <2>6, BecomesStays
      <3>3. TypeOK'
        BY <1>1, <1>3, <2>5, <2>6, <3>1 DEF TypeOK
      <3>4. NothingApproved
        BY <2>1, <3>1 DEF NothingApproved, Approves, Attempt
      <3> QED  BY <1>1, <2>5, <3>2, <3>3, <3>4, StaysIInv, QuietIsSafe
    <2>7. CASE ~Blocked(c.scope)
      <3>1. /\ att' \in [Attempts -> Attempt] /\ approved' \subseteq Scopes
            /\ handling' \in [Windows -> Attempts \union {NoAttempt}]
            /\ Stays
            /\ SafeStep
        BY <1>1, <1>3, <2>5, <2>7, CleanupOfCall DEF Bound
      <3>2. TypeOK'
        BY <1>1, <2>5, <3>1 DEF TypeOK
      <3> QED  BY <1>1, <2>5, <3>1, <3>2, StaysIInv
    <2> QED  BY <2>6, <2>7
  <1> QED  BY <1>2, <1>3 DEF ReviewInspected

LEMMA DecisionInspectedIInv ==
  ASSUME IInv, NEW c \in calls, DecisionInspected(c)
  PROVE  IInv' /\ SafeStep
  <1> DEFINE x == att[c.of]
             y == [x EXCEPT !.prompting = TRUE]
  <1>1. /\ TypeOK /\ c.at = "decide" /\ open' = open /\ attempt' = attempt /\ held' = held
        /\ UNCHANGED <<work, episode, unrestored, forcePromptOpen>>
    BY DEF IInv, DecisionInspected, env
  <1>2. CASE calls' = calls \ {c} /\ UNCHANGED <<att, handling, approved>>
    <2>1. TypeOK' /\ Stays
      BY <1>1, <1>2, AloneStays DEF TypeOK
    <2> QED  BY <1>1, <1>2, <2>1, StaysIInv, AloneIsSafe, QuietIsSafe
  <1>3. ASSUME IsCurrent(c)
        PROVE  /\ c.of = attempt /\ attempt # NoAttempt /\ x \in Attempt /\ x.scope \in Scopes
               /\ c.of \in Attempts /\ InUse(x)
    BY <1>3, CallOf DEF IsCurrent
  <1>4. CASE /\ IsCurrent(c) /\ calls' = (calls \ {c}) \union {Await("decide", c.of, x.scope)}
             /\ UNCHANGED <<att, handling, approved>>
    <2> DEFINE d == Await("decide", c.of, x.scope)
    <2>1. d \in Call /\ d.of = c.of /\ d.at = "decide" /\ d.scope = x.scope
      BY <1>3, <1>4, CallFields DEF Awaits
    <2> HIDE DEF d
    <2>2. calls' = (calls \ {c}) \union {d}
      BY <1>4 DEF d
    <2>3. ASSUME NEW e \in calls' \ calls  PROVE NewCall(e)
      <3>1. e.of = c.of /\ e.at = "decide" /\ e.scope = x.scope
        BY <2>1, <2>2
      <3> QED  BY <1>3, <1>4, <3>1 DEF NewCall, Knows, InUse
    <2>4. TypeOK' /\ Stays
      BY <1>1, <1>4, <2>1, <2>2, <2>3, AloneStays DEF TypeOK
    <2> QED  BY <1>1, <2>2, <1>4, <2>4, StaysIInv, AloneIsSafe, QuietIsSafe
  <1>5. CASE /\ IsCurrent(c) /\ ~Blocked(c.scope) /\ calls' = calls \ {c}
             /\ beginRendererCleanup(c.of, x)
    <2>1. /\ att' \in [Attempts -> Attempt] /\ approved' \subseteq Scopes
          /\ handling' \in [Windows -> Attempts \union {NoAttempt}]
          /\ Stays
          /\ SafeStep
      BY <1>1, <1>5, CleanupOfCall DEF Bound
    <2>2. TypeOK'
      BY <1>1, <1>5, <2>1 DEF TypeOK
    <2> QED  BY <1>1, <1>5, <2>1, <2>2, StaysIInv
  <1>6. CASE /\ IsCurrent(c) /\ calls' = (calls \ {c}) \union {Await("prompt", c.of, x.scope)}
             /\ x.state = "idle" /\ Becomes(c.of, y) /\ UNCHANGED <<handling, approved>>
    <2> DEFINE d == Await("prompt", c.of, x.scope)
    <2>1. d \in Call /\ d.of = c.of /\ d.at = "prompt"
      BY <1>3, <1>6, CallFields DEF Awaits
    <2> HIDE DEF d
    <2>2. \A e \in calls' \ calls : NewCall(e)
      <3>1. \A e \in calls' \ calls : e.of = c.of /\ e.at = "prompt"
        BY <1>6, <2>1 DEF d
      <3> QED  BY <1>3, <1>6, <3>1, FreeCall DEF Bound
    <2>3. y \in Attempt /\ Evolves(x, y) /\ Cleaning(y)
      BY <1>3, <1>6 DEF Attempt, Evolves, Cleaning, InUse
    <2>4. /\ att' \in [Attempts -> Attempt] /\ att'[c.of] = y
          /\ \A b \in Attempts : b # c.of => att'[b] = att[b]
      BY <1>1, <1>3, <1>6, <2>3, BecomesAttempt
    <2>5. calls' = (calls \ {c}) \union {d}
      BY <1>6 DEF d
    <2>6. Stays
      BY <1>1, <1>3, <1>6, <2>2, <2>3, <2>5, BecomesStays
    <2>7. TypeOK'
      BY <1>1, <1>6, <2>1, <2>4, <2>5 DEF TypeOK
    <2>8. NothingApproved
      BY <1>3, <1>6, <2>4 DEF NothingApproved, Approves, Attempt
    <2> QED  BY <1>1, <2>5, <2>6, <2>7, <2>8, StaysIInv, QuietIsSafe
  <1> QED  BY <1>2, <1>4, <1>5, <1>6 DEF DecisionInspected

-----------------------------------------------------------------------------
(* Requests *)

LEMMA AttemptBegins ==
  ASSUME IInv, attempt = NoAttempt, NEW s \in Scopes, NEW a \in Attempts, att[a] = Unused,
         attempt' = a, Becomes(a, NewAttempt(s)),
         calls' = calls \union {Await("decide", a, s)}, UNCHANGED forcePromptOpen,
         UNCHANGED <<env, held, handling, approved>>
  PROVE  IInv' /\ SafeStep
  <1> DEFINE y == NewAttempt(s)
             d == Await("decide", a, s)
  <1>1. y \in Attempt /\ y.state = "idle" /\ y.scope = s
    BY DEF NewAttempt, Unused, Attempt, States
  <1>2. d \in Call /\ d.of = a /\ d.at = "decide" /\ d.scope = s
    BY CallFields DEF Awaits
  <1> HIDE DEF y, d
  <1>3. /\ att' \in [Attempts -> Attempt] /\ att'[a] = y
        /\ \A b \in Attempts : b # a => att'[b] = att[b]
    BY <1>1, BecomesAttempt DEF IInv, y
  <1>4. calls' = calls \union {d} /\ \A c \in calls : c.of \in Attempts /\ c.of # a
    BY CallOf DEF d, Unused
  <1>5. TypeOK'
    BY <1>2, <1>3, <1>4 DEF IInv, TypeOK, env
  <1>6. CurrentInUse' /\ CleaningIsTracked'
    BY <1>1, <1>3 DEF CurrentInUse, InUse, CleaningIsTracked, Cleaning
  <1>7. CallsInUse' /\ CallsKnow'
    BY <1>1, <1>2, <1>3, <1>4 DEF IInv, CallsInUse, CallsKnow, Knows
  <1>8. HeldIsOwned'
    BY <1>4 DEF IInv, HeldIsOwned, Restores, env
  <1>9. NothingApproved
    BY <1>1, <1>3 DEF NothingApproved, Approves
  <1> QED  BY <1>5, <1>6, <1>7, <1>8, <1>9, QuietIsSafe DEF IInv

(* The calls that Pursue makes fit an attempt that is left as it is.        *)
LEMMA PursuingIInv ==
  ASSUME IInv, attempt # NoAttempt, attempt' = attempt, UNCHANGED <<env, held, approved>>,
         NEW x \in Attempt, Becomes(attempt, x), Evolves(att[attempt], x), Cleaning(x),
         att[attempt].state # "approved" => x.state # "approved",
         handling' \in [Windows -> Attempts \union {NoAttempt}],
         calls' \subseteq calls \union Pursue(attempt, x), Prompting(Pursue(attempt, x)),
         \A c \in calls : c.at = "restore" => c \in calls'
  PROVE  IInv' /\ SafeStep
  <1>1. attempt \in Attempts /\ TypeOK
    BY Current DEF IInv
  <1>2. /\ Pursue(attempt, x) \subseteq Call
        /\ \A c \in Pursue(attempt, x) : /\ c.of = attempt /\ c.scope = x.scope
                                       /\ c.at \in {"review", "decide", "force"}
    BY <1>1, PursueCalls
  <1>3. /\ att' \in [Attempts -> Attempt] /\ att'[attempt] = x
        /\ \A b \in Attempts : b # attempt => att'[b] = att[b]
    BY <1>1, BecomesAttempt
  <1>4. ASSUME NEW c \in calls' \ calls  PROVE NewCall(c)
    BY <1>2, <1>3, Current DEF NewCall, Knows, InUse
  <1>5. Stays
    BY <1>4, BecomesStays DEF env
  <1>6. TypeOK'
    BY <1>1, <1>2, <1>3 DEF TypeOK, env, Prompting
  <1>7. NothingApproved
    BY <1>3 DEF NothingApproved, Approves
  <1> QED  BY <1>5, <1>6, <1>7, StaysIInv, QuietIsSafe DEF env

LEMMA RequestIInv ==
  ASSUME IInv, NEW s \in Scopes, request(s)
  PROVE  IInv' /\ SafeStep
  <1> DEFINE x == att[attempt]
             y == [x EXCEPT !.scope = App, !.promoted = TRUE]
  <1>1. UNCHANGED <<env, held, handling, approved>> /\ TypeOK
    BY DEF IInv, request
  <1>2. CASE attempt = NoAttempt
    BY <1>1, <1>2, AttemptBegins DEF request
  <1>3. CASE attempt # NoAttempt
    <2>1. attempt \in Attempts /\ x \in Attempt /\ InUse(x) /\ Cleaning(x)
      BY <1>3, Current DEF IInv, CleaningIsTracked
    <2>2. CASE /\ attempt' = attempt /\ Becomes(attempt, y) /\ UNCHANGED forcePromptOpen
               /\ calls' = calls \union {Await("promote", attempt, App)}
      <3>1. y \in Attempt /\ Evolves(x, y) /\ Cleaning(y) /\ y.state = x.state
        BY <2>1 DEF Attempt, Scopes, Evolves, InUse, Cleaning
      <3>2. /\ Await("promote", attempt, App) \in Call
            /\ \A d \in calls' \ calls : d.of = attempt /\ d.at = "promote"
        BY <2>1, <2>2, CallFields DEF Awaits, Scopes
      <3>3. \A d \in calls' \ calls : NewCall(d)
        BY <1>3, <3>2, FreeCall DEF Bound
      <3>4. Stays
        BY <1>1, <1>3, <2>2, <3>1, <3>3, BecomesStays DEF env
      <3>5. /\ att' \in [Attempts -> Attempt] /\ att'[attempt] = y
            /\ \A b \in Attempts : b # attempt => att'[b] = att[b]
        BY <1>1, <2>1, <2>2, <3>1, BecomesAttempt
      <3>6. TypeOK'
        BY <1>1, <2>2, <3>2, <3>5 DEF TypeOK, env
      <3>7. NothingApproved
        BY <3>1, <3>5 DEF NothingApproved, Approves
      <3> QED  BY <1>1, <2>2, <3>4, <3>6, <3>7, StaysIInv, QuietIsSafe DEF env
    <2>3. CASE /\ attempt' = attempt /\ Prompting(Pursue(attempt, x))
               /\ calls' = calls \union Pursue(attempt, x) /\ UNCHANGED att
      <3>1. Becomes(attempt, x) /\ Evolves(x, x)
        BY <1>1, <2>1, <2>3 DEF Becomes, TypeOK, Evolves
      <3>2. handling' \in [Windows -> Attempts \union {NoAttempt}]
        BY <1>1 DEF TypeOK
      <3> QED  BY <1>1, <1>3, <2>1, <2>3, <3>1, <3>2, PursuingIInv
    <2> QED  BY <1>3, <2>2, <2>3 DEF request
  <1> QED  BY <1>2, <1>3

LEMMA PromotionInspectedIInv ==
  ASSUME IInv, NEW c \in calls, PromotionInspected(c)
  PROVE  IInv' /\ SafeStep
  <1> DEFINE x == IF att[c.of].state = "cleaning"
                  THEN [att[c.of] EXCEPT !.pending = open] ELSE att[c.of]
  <1>1. TypeOK /\ c.at = "promote" /\ UNCHANGED <<env, held, attempt, approved>>
    BY DEF IInv, PromotionInspected
  <1>2. CASE /\ IsCurrent(c) /\ Becomes(c.of, x)
             /\ handling' = IF x.state = "cleaning" THEN Asked(c.of, open) ELSE handling
             /\ Prompting(Pursue(c.of, x)) /\ calls' = (calls \ {c}) \union Pursue(c.of, x)
    <2>1. /\ c.of = attempt /\ attempt # NoAttempt /\ att[c.of] \in Attempt
          /\ c.of \in Attempts /\ InUse(att[c.of]) /\ Cleaning(att[c.of])
      BY <1>2, CallOf DEF IsCurrent, IInv, CleaningIsTracked
    <2>2. x \in Attempt /\ Evolves(att[c.of], x) /\ Cleaning(x) /\ x.state = att[c.of].state
      BY <1>1, <2>1 DEF Attempt, Evolves, InUse, Cleaning, TypeOK
    <2>3. handling' \in [Windows -> Attempts \union {NoAttempt}]
      BY <1>1, <1>2, <2>1, AskedType DEF TypeOK
    <2> HIDE DEF x
    <2> QED  BY <1>1, <1>2, <2>1, <2>2, <2>3, PursuingIInv
  <1>3. CASE calls' = calls \ {c} /\ UNCHANGED <<att, handling, forcePromptOpen>>
    <2>1. TypeOK' /\ Stays
      BY <1>1, <1>3, AloneStays DEF TypeOK, env
    <2> QED  BY <1>1, <1>3, <2>1, StaysIInv, AloneIsSafe, QuietIsSafe DEF env
  <1> QED  BY <1>2, <1>3 DEF PromotionInspected

-----------------------------------------------------------------------------
(* Giving up: the prompt, Keep App Open and the closing of the window *)

LEMMA GivenUp ==
  ASSUME IInv, attempt # NoAttempt, attempt' = NoAttempt, NEW w, open' = open \ {w},
         Becomes(attempt, Dropped(att[attempt])), UNCHANGED <<work, episode, unrestored, held>>,
         forcePromptOpen' \in BOOLEAN, approved' \subseteq Scopes,
         handling' \in [Windows -> Attempts \union {NoAttempt}],
         calls' \subseteq calls \union Restoring(att[attempt]),
         \A c \in calls : c.at = "restore" => c \in calls',
         Restoring(att[attempt]) \subseteq calls' \/ (w = att[attempt].scope /\ w # App)
  PROVE  IInv' /\ SafeStep
  <1> DEFINE a == attempt
             x == att[a]
  <1>1. TypeOK /\ a \in Attempts /\ x \in Attempt /\ InUse(x)
    BY Current DEF IInv
  <1>2. /\ att' \in [Attempts -> Attempt] /\ att'[a] = Dropped(x)
        /\ \A b \in Attempts : b # a => att'[b] = att[b]
    BY <1>1, AttemptFields, BecomesAttempt
  <1>3. Dropped(x).state = "dropped"
    BY <1>1, AttemptFields
  <1>4. /\ Restoring(x) \subseteq Call
        /\ \A c \in Restoring(x) : c.of = a /\ c.at = "restore"
        /\ x.drain => Restoring(x) # {}
    BY <1>1, CallFields DEF Restoring, Awaits, Scopes
  <1> HIDE DEF x
  <1>5. TypeOK'
    BY <1>1, <1>2, <1>4 DEF TypeOK, x
  <1>6. HeldIsOwned'
    <2> SUFFICES ASSUME held \intersect open' # {}, ~Restores'  PROVE FALSE
      BY DEF HeldIsOwned
    <2>1. held \intersect open # {} /\ ~Restores
      BY DEF Restores
    <2>2. DrainsOwn(x)
      BY <2>1 DEF IInv, HeldIsOwned, x
    <2>3. ~(Restoring(x) \subseteq calls')
      BY <1>4, <2>2 DEF Restores, DrainsOwn
    <2> QED  BY <2>2, <2>3 DEF DrainsOwn, x
  <1>7. \A b \in Attempts : att'[b].state = "unused" => att[b].state = "unused"
    BY <1>2, <1>3
  <1>8. \A c \in calls' \ calls : att'[c.of].state # "unused"
    BY <1>2, <1>3, <1>4 DEF x
  <1>9. NothingApproved
    BY <1>2, <1>3 DEF NothingApproved, Approves
  <1> QED  BY <1>5, <1>6, <1>7, <1>8, <1>9, EndsIInv, QuietIsSafe

LEMMA WindowClosesIInv ==
  ASSUME IInv, NEW w \in Windows, WindowCloses(w)
  PROVE  IInv' /\ SafeStep
  <1>1. /\ TypeOK /\ open' = open \ {w} /\ approved' \subseteq Scopes
        /\ handling' \in [Windows -> Attempts \union {NoAttempt}]
        /\ UNCHANGED <<work, episode, unrestored, held, calls, forcePromptOpen>>
    BY DEF IInv, TypeOK, WindowCloses
  <1>2. CASE attempt # NoAttempt /\ att[attempt].scope = w
    <2>1. attempt' = NoAttempt /\ Becomes(attempt, Dropped(att[attempt]))
      BY <1>2 DEF WindowCloses
    <2> QED  BY <1>1, <1>2, <2>1, GivenUp, ShutdownAssumption DEF TypeOK
  <1>3. CASE ~(attempt # NoAttempt /\ att[attempt].scope = w)
    <2>1. UNCHANGED <<attempt, att>>
      BY <1>3 DEF WindowCloses
    <2>2. TypeOK' /\ Stays
      BY <1>1, <2>1, AloneStays DEF TypeOK
    <2> QED  BY <1>1, <2>1, <2>2, StaysIInv, AloneIsSafe, QuietIsSafe
  <1> QED  BY <1>2, <1>3

LEMMA KeepAppOpenIInv ==
  ASSUME IInv, NEW w \in Windows, KeepAppOpen(w)
  PROVE  IInv' /\ SafeStep
  <1>1. attempt # NoAttempt /\ TypeOK /\ open' = open \ {App}
    BY ShutdownAssumption DEF KeepAppOpen, Visible, isMutationBlocked, env, IInv, TypeOK
  <1>2. /\ attempt' = NoAttempt /\ Becomes(attempt, Dropped(att[attempt]))
        /\ calls' = calls \union Restoring(att[attempt]) /\ forcePromptOpen' = FALSE
        /\ UNCHANGED <<work, episode, unrestored, held, handling, approved>>
    BY DEF KeepAppOpen, env
  <1> QED  BY <1>1, <1>2, GivenUp DEF TypeOK

LEMMA PromptCancelledIInv ==
  ASSUME IInv, NEW c \in calls, PromptCancelled(c)
  PROVE  IInv' /\ SafeStep
  <1> DEFINE x == att[c.of]
             y == [x EXCEPT !.prompting = FALSE]
  <1>1. /\ TypeOK /\ c.at = "prompt" /\ open' = open \ {App} /\ open' = open
        /\ UNCHANGED <<work, episode, unrestored, held, handling, approved>>
    BY ShutdownAssumption DEF IInv, TypeOK, PromptCancelled, env
  <1>2. CASE calls' = calls \ {c} /\ UNCHANGED <<att, attempt, forcePromptOpen>>
    <2>1. TypeOK' /\ Stays
      BY <1>1, <1>2, AloneStays DEF TypeOK
    <2> QED  BY <1>1, <1>2, <2>1, StaysIInv, AloneIsSafe, QuietIsSafe
  <1>3. CASE /\ IsCurrent(c) /\ Becomes(c.of, y) /\ calls' = calls \ {c}
             /\ UNCHANGED <<attempt, forcePromptOpen>>
    <2>1. /\ c.of = attempt /\ attempt # NoAttempt /\ x \in Attempt /\ c.of \in Attempts
          /\ InUse(x) /\ Cleaning(x)
      BY <1>3, CallOf DEF IsCurrent, IInv, CleaningIsTracked
    <2>2. y \in Attempt /\ Evolves(x, y) /\ Cleaning(y) /\ y.state = x.state
      BY <2>1 DEF Attempt, Evolves, InUse, Cleaning
    <2> HIDE DEF y
    <2>3. /\ att' \in [Attempts -> Attempt] /\ att'[c.of] = y
          /\ \A b \in Attempts : b # c.of => att'[b] = att[b]
      BY <1>1, <1>3, <2>1, <2>2, BecomesAttempt
    <2>4. TypeOK' /\ Stays
      BY <1>1, <1>3, <2>1, <2>2, <2>3, BecomesStays DEF TypeOK
    <2>5. NothingApproved
      BY <2>2, <2>3 DEF NothingApproved, Approves
    <2> QED  BY <1>1, <1>3, <2>4, <2>5, StaysIInv, QuietIsSafe
  <1>4. CASE /\ IsCurrent(c) /\ Becomes(c.of, Dropped(x)) /\ attempt' = NoAttempt
             /\ forcePromptOpen' = FALSE /\ calls' = (calls \ {c}) \union Restoring(x)
    <2>1. c.of = attempt /\ attempt # NoAttempt
      BY <1>4, CallOf DEF IsCurrent
    <2>2. handling' \in [Windows -> Attempts \union {NoAttempt}] /\ approved' \subseteq Scopes
      BY <1>1 DEF TypeOK
    <2> QED  BY <1>1, <1>4, <2>1, <2>2, GivenUp
  <1> QED  BY <1>2, <1>3, <1>4 DEF PromptCancelled

-----------------------------------------------------------------------------
(* Draining and restoring *)

LEMMA RestoredIInv ==
  ASSUME IInv, NEW c \in calls, Restored(c)
  PROVE  IInv' /\ SafeStep
  <1>1. /\ TypeOK /\ held' = {} /\ calls' = (calls \ {c}) \union Notified
        /\ UNCHANGED <<open, work, attempt, att, handling, approved, forcePromptOpen>>
        /\ Notified \subseteq Call
    BY NotifiedCalls DEF IInv, Restored
  <1>2. TypeOK'
    BY <1>1 DEF Restored, Resumed, TypeOK
  <1>3. \A d \in calls' \ calls : NewCall(d)
    BY <1>1, NotifiedCalls, Current DEF NewCall, Knows, InUse
  <1>4. Stays /\ HeldIsOwned'
    BY <1>1, <1>3, AloneStays DEF HeldIsOwned
  <1> QED  BY <1>1, <1>2, <1>4, StaysCore, AloneIsSafe, QuietIsSafe

LEMMA RestoreFailsIInv ==
  ASSUME IInv, NEW c \in calls, RestoreFails(c)
  PROVE  IInv' /\ SafeStep
  <1>1. /\ TypeOK /\ unrestored' = TRUE /\ calls' = (calls \ {c}) \union Notified
        /\ UNCHANGED <<open, work, held, attempt, att, handling, approved, forcePromptOpen>>
        /\ Notified \subseteq Call
    BY NotifiedCalls DEF IInv, RestoreFails
  <1>2. episode' \in [Windows -> {"none", "running", "interrupted"}]
    BY <1>1 DEF RestoreFails, Resumed, TypeOK
  <1>3. TypeOK'
    BY <1>1, <1>2 DEF TypeOK
  <1>4. \A d \in calls' \ calls : NewCall(d)
    BY <1>1, NotifiedCalls, Current DEF NewCall, Knows, InUse
  <1>5. Stays /\ HeldIsOwned'
    BY <1>1, <1>4, AloneStays DEF HeldIsOwned, Restores
  <1> QED  BY <1>1, <1>3, <1>5, StaysCore, AloneIsSafe, QuietIsSafe

LEMMA PromptAcceptedIInv ==
  ASSUME IInv, NEW c \in calls, PromptAccepted(c)
  PROVE  IInv' /\ SafeStep
  <1> DEFINE x0 == att[c.of]
             x == [x0 EXCEPT !.prompting = FALSE]
             y == [x EXCEPT !.drain = TRUE]
  <1>1. /\ TypeOK /\ c.at = "prompt" /\ open' = open /\ attempt' = attempt
        /\ UNCHANGED <<work, episode, unrestored, handling, approved, forcePromptOpen>>
    BY DEF IInv, PromptAccepted, env
  <1>2. CASE calls' = calls \ {c} /\ UNCHANGED <<att, held>>
    <2>1. TypeOK' /\ Stays
      BY <1>1, <1>2, AloneStays DEF TypeOK
    <2> QED  BY <1>1, <1>2, <2>1, StaysIInv, AloneIsSafe, QuietIsSafe
  <1>3. ASSUME IsCurrent(c)
        PROVE  /\ c.of = attempt /\ attempt # NoAttempt /\ c.of \in Attempts /\ x0 \in Attempt
               /\ InUse(x0) /\ Cleaning(x0)
               /\ x \in Attempt /\ y \in Attempt /\ Draining(y) \in Attempt
    <2>1. /\ c.of = attempt /\ attempt # NoAttempt /\ c.of \in Attempts /\ x0 \in Attempt
          /\ InUse(x0) /\ Cleaning(x0)
      BY <1>3, CallOf DEF IsCurrent, IInv, CleaningIsTracked
    <2>2. x \in Attempt /\ y \in Attempt
      BY <2>1 DEF Attempt
    <2> QED  BY <2>1, <2>2, AttemptFields
  <1>4. ASSUME IsCurrent(c), NEW z \in {x, Draining(y)}, Becomes(c.of, z),
               calls' = calls \ {c}, UNCHANGED held
        PROVE  IInv' /\ SafeStep
    <2>1. z \in Attempt /\ Evolves(x0, z) /\ Cleaning(z)
          /\ (z.state = "approved" => x0.state = "approved")
      BY <1>3, <1>4 DEF Attempt, Evolves, InUse, Cleaning, Draining
    <2>2. /\ att' \in [Attempts -> Attempt] /\ att'[c.of] = z
          /\ \A b \in Attempts : b # c.of => att'[b] = att[b]
      BY <1>1, <1>3, <1>4, <2>1, BecomesAttempt
    <2>3. TypeOK' /\ Stays
      BY <1>1, <1>3, <1>4, <2>1, <2>2, BecomesStays DEF TypeOK
    <2>4. NothingApproved
      BY <2>1, <2>2 DEF NothingApproved, Approves
    <2> QED  BY <1>1, <1>4, <2>3, <2>4, StaysIInv, QuietIsSafe
  <1>5. CASE /\ IsCurrent(c) /\ Becomes(c.of, y) /\ held' = Drainable(x.scope)
             /\ calls' = (calls \ {c}) \union {Await("drain", c.of, x.scope)}
    <2>1. /\ Evolves(x0, y) /\ Cleaning(y) /\ y.state = x0.state /\ y.drain /\ y.scope = x.scope
          /\ y.scope \in Scopes
      BY <1>3, <1>5 DEF Attempt, Evolves, InUse, Cleaning
    <2>2. /\ att' \in [Attempts -> Attempt] /\ att'[c.of] = y
          /\ \A b \in Attempts : b # c.of => att'[b] = att[b]
      BY <1>1, <1>3, <1>5, BecomesAttempt
    <2>3. /\ Await("drain", c.of, x.scope) \in Call
          /\ \A d \in calls' \ calls : d.of = attempt /\ d.at = "drain"
      BY <1>3, <1>5, <2>1, CallFields DEF Awaits
    <2>4. \A d \in calls' \ calls : NewCall(d)
      BY <1>3, <1>5, <2>3, FreeCall DEF Bound
    <2>5. Stays
      BY <1>1, <1>3, <1>5, <2>1, <2>4, BecomesStays
    <2>6. TypeOK'
      BY <1>1, <1>5, <2>2, <2>3 DEF TypeOK, Drainable
    <2>7. y.scope # App => held' \subseteq {y.scope}
      BY <1>5, <2>1 DEF Drainable, InScope
    <2>8. HeldIsOwned'
      BY <1>1, <1>3, <1>5, <2>1, <2>2, <2>7 DEF HeldIsOwned, DrainsOwn
    <2>9. NothingApproved
      BY <2>1, <2>2 DEF NothingApproved, Approves
    <2> QED  BY <2>5, <2>6, <2>8, <2>9, StaysCore, QuietIsSafe
  <1> QED  BY <1>2, <1>4, <1>5 DEF PromptAccepted

-----------------------------------------------------------------------------
(* Steps that change only what the current attempt is about to do *)

Typed == /\ UNCHANGED <<work, episode, unrestored, open, attempt, held>>
         /\ calls' \subseteq Call /\ approved' \subseteq Scopes /\ forcePromptOpen' \in BOOLEAN
         /\ handling' \in [Windows -> Attempts \union {NoAttempt}]
         /\ \A c \in calls : c.at = "restore" => c \in calls'
         /\ \A c \in calls' \ calls : att[c.of].state # "unused" /\ c.at \notin Bound

LEMMA LeavesIInv ==
  ASSUME IInv, Typed, att' = att
  PROVE  IInv' /\ SafeStep
  <1>1. \A c \in calls' \ calls : NewCall(c)
    BY DEF Typed, NewCall, Knows, Bound
  <1>2. TypeOK' /\ Stays
    BY <1>1, AloneStays DEF IInv, Typed, TypeOK
  <1> QED  BY <1>2, StaysIInv, AloneIsSafe, QuietIsSafe DEF Typed

LEMMA ChangesIInv ==
  ASSUME IInv, Typed, attempt # NoAttempt, NEW y \in Attempt, Becomes(attempt, y),
         Evolves(att[attempt], y), Cleaning(y)
  PROVE  /\ IInv'
         /\ (y.state = "approved" => att[attempt].state = "approved") => SafeStep
         /\ \A b \in Attempts : Approves(b) => b = attempt
  <1>1. \A c \in calls' \ calls : NewCall(c)
    BY DEF Typed, NewCall, Knows, Bound
  <1>2. attempt \in Attempts /\ TypeOK
    BY Current DEF IInv
  <1>3. /\ att' \in [Attempts -> Attempt] /\ att'[attempt] = y
        /\ \A b \in Attempts : b # attempt => att'[b] = att[b]
    BY <1>2, BecomesAttempt
  <1>4. TypeOK' /\ Stays
    BY <1>1, <1>2, <1>3, BecomesStays DEF Typed, TypeOK
  <1>5. \A b \in Attempts : Approves(b) => b = attempt
    BY <1>3 DEF Approves
  <1>6. ASSUME y.state = "approved" => att[attempt].state = "approved"  PROVE SafeStep
    BY <1>3, <1>5, <1>6, QuietIsSafe DEF NothingApproved, Approves
  <1> QED  BY <1>4, <1>5, <1>6, StaysIInv DEF Typed

LEMMA DrainingIInv ==
  ASSUME IInv, NEW c \in calls, DrainBegun(c) \/ DrainFails(c) \/ MarkingFails(c)
  PROVE  IInv' /\ SafeStep
  <1>1. Typed
    BY DEF DrainBegun, DrainFails, MarkingFails, Typed, IInv, TypeOK, env
  <1>2. CASE att' = att
    BY <1>1, <1>2, LeavesIInv
  <1>3. CASE /\ attempt # NoAttempt
             /\ \E y \in {Draining(att[attempt]), [att[attempt] EXCEPT !.state = "error"]} :
                  Becomes(attempt, y)
    <2> DEFINE x == att[attempt]
    <2>1. PICK y \in {Draining(x), [x EXCEPT !.state = "error"]} : Becomes(attempt, y)
      BY <1>3
    <2>2. x \in Attempt /\ InUse(x)
      BY <1>3, Current
    <2>3. y \in Attempt /\ Evolves(x, y) /\ Cleaning(y) /\ y.state # "approved"
      BY <2>1, <2>2 DEF Attempt, States, Draining, Evolves, InUse, Cleaning
    <2> QED  BY <1>1, <1>3, <2>1, <2>3, ChangesIInv
  <1>4. IsCurrent(c) => attempt # NoAttempt
    BY CallOf
  <1> QED  BY <1>2, <1>3, <1>4 DEF DrainBegun, DrainFails, MarkingFails, IsCurrent

LEMMA ForceIInv ==
  ASSUME IInv, NEW c \in calls, ForceDeclined(c) \/ ForceChosen(c)
  PROVE  IInv' /\ SafeStep
  <1> DEFINE x == att[c.of]
             y == [x EXCEPT !.state = "forcing", !.forced = TRUE]
  <1>1. UNCHANGED <<env, held, attempt, handling, approved>> /\ TypeOK /\ c.at = "force"
    BY DEF ForceDeclined, ForceChosen, IInv
  <1>2. CASE calls' = calls \ {c} /\ forcePromptOpen' = FALSE /\ UNCHANGED att
    <2>1. Typed
      BY <1>1, <1>2 DEF Typed, TypeOK, env
    <2> QED  BY <1>2, <2>1, LeavesIInv
  <1>3. CASE /\ IsCurrent(c) /\ Becomes(c.of, y) /\ UNCHANGED forcePromptOpen
             /\ calls' = (calls \ {c}) \union {Await("inspect", c.of, x.scope)}
    <2>1. /\ c.of = attempt /\ attempt # NoAttempt /\ c.of \in Attempts /\ x \in Attempt
          /\ InUse(x) /\ x.scope \in Scopes
      BY <1>3, CallOf DEF IsCurrent
    <2>2. /\ Await("inspect", c.of, x.scope) \in Call
          /\ \A d \in calls' \ calls : d.of = c.of /\ d.at = "inspect"
      BY <1>3, <2>1, CallFields DEF Awaits
    <2>3. Typed
      BY <1>1, <1>3, <2>1, <2>2 DEF Typed, TypeOK, env, Bound, InUse
    <2>4. y \in Attempt /\ Evolves(x, y) /\ Cleaning(y) /\ y.state # "approved"
      BY <2>1 DEF Attempt, States, Evolves, InUse, Cleaning
    <2> QED  BY <1>3, <2>1, <2>3, <2>4, ChangesIInv
  <1> QED  BY <1>2, <1>3 DEF ForceDeclined, ForceChosen

LEMMA CreationsMarkedIInv ==
  ASSUME IInv, NEW c \in calls, CreationsMarked(c)
  PROVE  IInv' /\ SafeStep
  <1> DEFINE x == att[c.of]
             ws == WindowIds(x.scope)
             y == [x EXCEPT !.pending = ws]
             d == Await("terminate", c.of, c.scope)
  <1>1. /\ UNCHANGED <<env, held, attempt, approved, forcePromptOpen>> /\ TypeOK /\ c.at = "mark"
        /\ handling' = Asked(c.of, ws) /\ calls' = (calls \ {c}) \union {d}
    BY DEF CreationsMarked, IInv
  <1>2. /\ c.of \in Attempts /\ x \in Attempt /\ x.state # "unused" /\ x.scope \in Scopes
        /\ c.scope \in Scopes /\ (IsCurrent(c) => attempt # NoAttempt /\ InUse(x))
    BY CallOf
  <1>3. d \in Call /\ d.of = c.of /\ d.at = "terminate"
    BY <1>2, CallFields DEF Awaits
  <1> HIDE DEF d
  <1>4. handling' \in [Windows -> Attempts \union {NoAttempt}]
    BY <1>1, <1>2, AskedType
  <1>5. Typed
    BY <1>1, <1>2, <1>3, <1>4 DEF Typed, TypeOK, env, Bound
  <1>6. CASE UNCHANGED att
    BY <1>5, <1>6, LeavesIInv
  <1>7. CASE IsCurrent(c) /\ Becomes(c.of, y)
    <2>1. ws \subseteq Windows
      BY <1>1, <1>2 DEF WindowIds, Scopes, TypeOK
    <2>2. /\ y \in Attempt /\ Evolves(x, y) /\ Cleaning(y) /\ y.state = x.state
          /\ c.of = attempt /\ attempt # NoAttempt
      BY <1>2, <1>7, <2>1 DEF Attempt, Evolves, InUse, Cleaning, IsCurrent
    <2> QED  BY <1>5, <1>7, <2>2, ChangesIInv
  <1> QED  BY <1>6, <1>7 DEF CreationsMarked

(* A call of Force Quit is replaced by its next one.                        *)
LEMMA ForceGoesOnIInv ==
  ASSUME IInv, NEW c \in calls, ForceInspected(c) \/ ForceTerminates(c)
  PROVE  IInv' /\ SafeStep
  <1>1. PICK p \in {"mark", "kill"}, s \in {c.scope, att[c.of].scope} :
          calls' = (calls \ {c}) \union {Await(p, c.of, s)}
    BY DEF ForceInspected, ForceTerminates
  <1>2. /\ UNCHANGED <<env, held, attempt, att, handling, approved, forcePromptOpen>>
        /\ TypeOK /\ c.at # "restore"
    BY DEF ForceInspected, ForceTerminates, IInv
  <1>3. /\ Await(p, c.of, s) \in Call /\ Await(p, c.of, s).at = p
        /\ Await(p, c.of, s).of = c.of /\ att[c.of].state # "unused"
    BY CallOf, CallFields DEF Awaits
  <1>4. Typed
    BY <1>1, <1>2, <1>3 DEF Typed, TypeOK, env, Bound
  <1> QED  BY <1>2, <1>4, LeavesIInv

(* An await that is rejected leaves the attempt as it was.                   *)
LEMMA RejectedIInv ==
  ASSUME IInv, NEW c \in calls, InspectFails(c) \/ CleanupInspectFails(c)
  PROVE  IInv' /\ SafeStep
  <1> DEFINE x == [att[c.of] EXCEPT !.rejected = TRUE]
  <1>1. Typed
    BY DEF InspectFails, CleanupInspectFails, Typed, IInv, TypeOK, env
  <1>2. CASE att' = att
    BY <1>1, <1>2, LeavesIInv
  <1>3. CASE /\ IsCurrent(c)
             /\ \/ Becomes(c.of, x)
                \/ Becomes(c.of, [x EXCEPT !.state = "error"])
                \/ x.state = "forcing" /\ Becomes(c.of, [x EXCEPT !.pending = @ \ {c.win}])
    <2>1. c.of = attempt /\ attempt # NoAttempt /\ att[c.of] \in Attempt /\ InUse(att[c.of])
          /\ Cleaning(att[c.of])
      BY <1>3, CallOf DEF IsCurrent, IInv, CleaningIsTracked
    <2>2. PICK y : /\ Becomes(attempt, y)
                   /\ \/ y = x \/ y = [x EXCEPT !.state = "error"]
                      \/ x.state = "forcing" /\ y = [x EXCEPT !.pending = @ \ {c.win}]
      BY <1>3, <2>1
    <2>3. /\ x \in Attempt /\ Evolves(att[attempt], x) /\ Cleaning(x) /\ InUse(x)
          /\ x.state = att[attempt].state
      BY <2>1 DEF Attempt, Evolves, InUse, Cleaning
    <2> HIDE DEF x
    <2>4. /\ y \in Attempt /\ InUse(y) /\ y.scope = x.scope /\ y.promoted = x.promoted
          /\ y.cleaned = x.cleaned /\ y.drain = x.drain
          /\ y = x \/ y.state = "error" \/ y.state = "forcing"
      BY <2>2, <2>3 DEF Attempt, States, InUse
    <2>5. Evolves(att[attempt], y) /\ Cleaning(y)
      BY <2>3, <2>4 DEF Evolves, Cleaning
    <2> QED  BY <1>1, <2>1, <2>2, <2>3, <2>4, <2>5, ChangesIInv
  <1> QED  BY <1>2, <1>3 DEF InspectFails, CleanupInspectFails

LEMMA TerminatedIInv ==
  ASSUME IInv, NEW c \in calls, Terminated(c)
  PROVE  IInv' /\ SafeStep
  <1> DEFINE x == att[attempt]
             z == [x EXCEPT !.state = "approved", !.forceEligible = FALSE]
  <1>1. /\ UNCHANGED <<env, held, attempt, handling>> /\ TypeOK /\ c.at = "kill"
        /\ calls' = calls \ {c} /\ forcePromptOpen' = FALSE
    BY DEF Terminated, IInv
  <1>2. SafeStep
    BY <1>1 DEF SafeStep
  <1>3. CASE att' = att /\ UNCHANGED approved
    <2>1. Typed
      BY <1>1, <1>3 DEF Typed, TypeOK, env
    <2> QED  BY <1>2, <1>3, <2>1, LeavesIInv
  <1>4. CASE attempt # NoAttempt /\ Becomes(attempt, z) /\ approved' = approved \union {x.scope}
    <2>1. attempt \in Attempts /\ x \in Attempt /\ InUse(x) /\ x.scope \in Scopes
      BY <1>4, Current
    <2>2. Typed
      BY <1>1, <1>4, <2>1 DEF Typed, TypeOK, env
    <2>3. z \in Attempt /\ Evolves(x, z) /\ Cleaning(z)
      BY <2>1 DEF Attempt, States, Evolves, InUse, Cleaning
    <2> QED  BY <1>2, <1>4, <2>2, <2>3, ChangesIInv
  <1>5. CASE attempt # NoAttempt /\ Becomes(attempt, x) /\ UNCHANGED approved
    <2>1. att' = att
      BY <1>1, <1>5 DEF Becomes, TypeOK
    <2> QED  BY <1>3, <1>5, <2>1
  <1> QED  BY <1>3, <1>4, <1>5 DEF Terminated, approve

LEMMA ReviewOptionsIInv ==
  ASSUME IInv, NEW w \in Windows, ReviewOptions(w)
  PROVE  IInv' /\ SafeStep
  <1> DEFINE x == att[attempt]
             new == IF x.state = "error" THEN {Await("review", attempt, x.scope)}
                    ELSE ForcePrompt(attempt, x)
  <1>1. /\ UNCHANGED <<env, held, attempt, att, handling, approved>> /\ TypeOK
        /\ attempt # NoAttempt /\ Prompting(new) /\ calls' = calls \union new
    BY DEF ReviewOptions, Visible, isMutationBlocked, IInv
  <1>2. attempt \in Attempts /\ x \in Attempt /\ InUse(x) /\ x.scope \in Scopes
    BY <1>1, Current
  <1>3. new \subseteq Call /\ \A d \in new : /\ d.of = attempt /\ d.scope = x.scope
                                         /\ d.at \in {"review", "force"}
    BY <1>2, CallFields, ForceCalls DEF Awaits, ForcePrompt
  <1> HIDE DEF new
  <1>4. \A d \in calls' \ calls : NewCall(d)
    BY <1>1, <1>2, <1>3 DEF NewCall, Knows, InUse
  <1>5. TypeOK' /\ Stays
    BY <1>1, <1>3, <1>4, AloneStays DEF TypeOK, env, Prompting
  <1> QED  BY <1>1, <1>5, StaysIInv, AloneIsSafe, QuietIsSafe DEF env

-----------------------------------------------------------------------------
(* completeRendererCleanup *)

LEMMA RendererCleansIInv ==
  ASSUME IInv, NEW w \in Windows, NEW ok \in BOOLEAN, RendererCleans(w, ok)
  PROVE  IInv' /\ SafeStep
  <1> DEFINE a == handling[w]
             x == IF ok THEN [att[a] EXCEPT !.cleaned = @ \union {w}] ELSE att[a]
             d == [Await("cleanup", a, x.scope) EXCEPT !.win = w]
  <1>1. /\ UNCHANGED <<env, held, attempt, approved, forcePromptOpen>> /\ TypeOK
        /\ a \in Attempts
    BY DEF RendererCleans, IInv, TypeOK
  <1>2. handling' \in [Windows -> Attempts \union {NoAttempt}]
    BY <1>1 DEF RendererCleans, TypeOK
  <1>3. CASE UNCHANGED <<att, calls>>
    <2>1. Typed
      BY <1>1, <1>2, <1>3 DEF Typed, TypeOK, env
    <2> QED  BY <1>3, <2>1, LeavesIInv
  <1>4. ASSUME attempt = a
        PROVE  /\ attempt # NoAttempt /\ att[a] \in Attempt /\ InUse(att[a]) /\ Cleaning(att[a])
               /\ x \in Attempt /\ Evolves(att[a], x) /\ Cleaning(x)
               /\ x.state = att[a].state /\ x.promoted = att[a].promoted
               /\ x.scope = att[a].scope /\ x.scope \in Scopes
               /\ ok => x.cleaned = att[a].cleaned \union {w}
               /\ x.pending = att[a].pending /\ att[a].cleaned \subseteq x.cleaned
    <2>1. attempt # NoAttempt /\ att[a] \in Attempt /\ InUse(att[a]) /\ Cleaning(att[a])
      BY <1>1, <1>4, Current, ShutdownAssumption DEF IInv, CleaningIsTracked
    <2>2. /\ x \in Attempt /\ x.state = att[a].state /\ x.promoted = att[a].promoted
          /\ x.scope = att[a].scope /\ x.pending = att[a].pending /\ x.drain = att[a].drain
          /\ ok => x.cleaned = att[a].cleaned \union {w}
      BY <2>1 DEF Attempt
    <2>3. att[a].cleaned \subseteq x.cleaned
      BY <2>1 DEF Attempt
    <2>4. Evolves(att[a], x) /\ Cleaning(x)
      BY <2>1, <2>2, <2>3 DEF Evolves, InUse, Cleaning
    <2> QED  BY <2>1, <2>2, <2>3, <2>4 DEF Attempt
  <1> HIDE DEF x
  <1> DEFINE less == [x EXCEPT !.pending = @ \ {w}]
             error == [x EXCEPT !.state = "error"]
             none == [x EXCEPT !.pending = {}]
  <1>5. ASSUME attempt = a
        PROVE  /\ less \in Attempt /\ error \in Attempt /\ none \in Attempt
               /\ Evolves(att[a], less) /\ Evolves(att[a], error) /\ Evolves(att[a], none)
               /\ less.state = x.state /\ error.state = "error" /\ none.state = x.state
               /\ less.pending = x.pending \ {w} /\ less.scope = x.scope
               /\ less.promoted = x.promoted /\ less.cleaned = x.cleaned
               /\ none.pending = {} /\ none.scope = x.scope
               /\ none.promoted = x.promoted /\ none.cleaned = x.cleaned
    BY <1>4, <1>5 DEF Attempt, States, Evolves, InUse
  <1> HIDE DEF less, error, none
  <1>6. ASSUME attempt = a, UNCHANGED calls, NEW y \in {x, less, error}, Becomes(a, y), Cleaning(y)
        PROVE  IInv' /\ SafeStep
    <2>1. Typed
      BY <1>1, <1>2, <1>6 DEF Typed, TypeOK, env
    <2>2. /\ y \in Attempt /\ Evolves(att[attempt], y)
          /\ (y.state = "approved" => att[attempt].state = "approved")
      BY <1>4, <1>5, <1>6
    <2> QED  BY <1>4, <1>6, <2>1, <2>2, ChangesIInv
  <1>7. CASE attempt = a /\ UNCHANGED calls /\ Becomes(a, x)
    BY <1>4, <1>6, <1>7
  <1>8. CASE attempt = a /\ UNCHANGED calls /\ Becomes(a, less) /\ (ok \/ x.state = "forcing")
    <2>1. Cleaning(less)
      BY <1>4, <1>5, <1>8 DEF Cleaning
    <2> QED  BY <1>6, <1>8, <2>1
  <1>9. CASE attempt = a /\ UNCHANGED calls /\ Becomes(a, error)
    <2>1. Cleaning(error)
      BY <1>5, <1>9 DEF Cleaning
    <2> QED  BY <1>6, <1>9, <2>1
  <1>10. CASE /\ attempt = a /\ ok /\ x.state = "cleaning" /\ x.pending = {w}
              /\ Becomes(a, none) /\ calls' = calls \union {d} /\ UNCHANGED handling
    <2>1. d \in Call /\ d.of = a /\ d.at = "cleanup" /\ d.scope = x.scope
      BY <1>1, <1>4, <1>10 DEF Await, Call, Awaits
    <2> HIDE DEF d
    <2>2. \A e \in calls' \ calls : e.of = a /\ e.at = "cleanup" /\ e.scope = x.scope
      BY <1>10, <2>1
    <2>3. ~none.promoted => Cleaned(none)
      BY <1>4, <1>5, <1>10 DEF Cleaning, Cleaned
    <2>4. /\ att' \in [Attempts -> Attempt] /\ att'[a] = none
          /\ \A b \in Attempts : b # a => att'[b] = att[b]
      BY <1>1, <1>5, <1>10, BecomesAttempt
    <2>5. ~att'[a].promoted => Cleaned(att[a])'
      BY <1>1, <1>10, <2>3, <2>4 DEF Cleaned, WindowIds, env
    <2>6. ASSUME NEW e \in calls' \ calls  PROVE NewCall(e)
      <3>1. att'[e.of].scope = e.scope
        BY <1>5, <1>10, <2>2, <2>4
      <3> QED  BY <1>4, <1>10, <2>2, <2>4, <2>5, <3>1 DEF NewCall, Knows, InUse
    <2>7. Cleaning(none)
      BY <2>3 DEF Cleaning, Cleaned
    <2>8. Stays
      BY <1>1, <1>4, <1>5, <1>10, <2>6, <2>7, BecomesStays DEF env
    <2>9. TypeOK'
      BY <1>1, <1>2, <1>10, <2>1, <2>4 DEF TypeOK, env
    <2>10. NothingApproved
      BY <1>4, <1>5, <1>10, <2>4 DEF NothingApproved, Approves
    <2> QED  BY <1>1, <1>10, <2>8, <2>9, <2>10, StaysIInv, QuietIsSafe DEF env
  <1> QED  BY <1>3, <1>7, <1>8, <1>9, <1>10 DEF RendererCleans, x, less, error, none

-----------------------------------------------------------------------------
(* Every step *)

LEMMA NextIInv ==
  ASSUME IInv, [Next]_vars
  PROVE  IInv' /\ SafeStep
  <1>1. CASE WorkNext
    BY <1>1, WorkIInv
  <1>2. CASE UserNext
    <2>1. ASSUME NEW w \in Windows, RequestClose(w)  PROVE IInv' /\ SafeStep
      BY <2>1, RequestIInv DEF RequestClose, Scopes
    <2>2. ASSUME RequestQuit  PROVE IInv' /\ SafeStep
      BY <2>2, RequestIInv DEF RequestQuit, Scopes
    <2> QED  BY <1>2, <2>1, <2>2, KeepAppOpenIInv, ReviewOptionsIInv, PromptCancelledIInv,
                PromptAcceptedIInv, ForceIInv DEF UserNext
  <1>3. CASE WindowNext
    BY <1>3, WindowClosesIInv, RendererCleansIInv DEF WindowNext
  <1>4. CASE CallNext
    BY <1>4, PromotionInspectedIInv, DecisionInspectedIInv, NotifyInspectedIInv,
       CleanupInspectedIInv, ReviewInspectedIInv, DrainingIInv, RestoredIInv,
       RestoreFailsIInv, RejectedIInv, ForceGoesOnIInv, CreationsMarkedIInv,
       TerminatedIInv DEF CallNext
  <1> QED  BY <1>1, <1>2, <1>3, <1>4, StutterIInv DEF Next

(* Every variable keeps its declared shape, so the calls in flight name     *)
(* attempts that exist.                                                     *)
THEOREM TypeCorrect == Spec => []TypeOK
  <1>1. Init => IInv
    BY InitIInv
  <1>2. IInv /\ [Next]_vars => IInv'
    BY NextIInv
  <1>3. IInv => TypeOK
    BY DEF IInv
  <1> QED  BY <1>1, <1>2, <1>3, PTL DEF Spec

(* A shutdown that is given up, by Cancel, by Keep App Open or because its   *)
(* window closes, releases the episodes it had drained, however attempts      *)
(* follow one another: none stays drained without a restoration on its way,   *)
(* unless the last one to end was rejected (cancelOptimizationShutdownDrain   *)
(* of agentRuntimeManager.ts skips its clear then).                           *)
THEOREM DrainsAreReleased == Spec => []CancelledDrainReleased
  <1>1. Init => IInv
    BY InitIInv
  <1>2. IInv /\ [Next]_vars => IInv'
    BY NextIInv
  <1>3. IInv => CancelledDrainReleased
    BY ReleasedFromIInv
  <1> QED  BY <1>1, <1>2, <1>3, PTL DEF Spec

(* What Safe Shutdown approves without Force Quit is idle and cleaned up,    *)
(* whatever calls of older attempts are still in flight.                     *)
THEOREM ApprovalsAreSafe == Spec => SafeApproval
  <1>1. Init => IInv
    BY InitIInv
  <1>2. IInv /\ [Next]_vars => IInv'
    BY NextIInv
  <1>3. IInv /\ [Next]_vars =>
          [\A a \in Attempts :
             LET x == att'[a] IN
             /\ att[a].state # "approved" /\ x.state = "approved"
             /\ ~x.forced /\ ~x.promoted
             /\ \A c \in calls : c.at # "kill"
             => /\ ~Blocked(x.scope)
                /\ WindowIds(x.scope) \intersect open \subseteq x.cleaned]_vars
    BY NextIInv DEF SafeStep, Approves
  <1> QED  BY <1>1, <1>2, <1>3, PTL DEF Spec, SafeApproval

-----------------------------------------------------------------------------
(* Whoever waits for a call of the coordinator waits for one that is made *)

Decisive == {"decide", "prompt", "drain", "promote"}
Forces   == {"inspect", "mark", "terminate", "kill"}
Dialog   == {"force"} \union Forces

(* Among calls cs one of the kinds ats works for attempt a.                 *)
Works(cs, a, ats) == \E c \in cs : c.of = a /\ c.at \in ats

(* An attempt that has decided nothing yet is being decided, and a Force Quit *)
(* is on its way to its end, unless one of its awaits was rejected; a prompt  *)
(* is open while it is said to be, and the Force Quit dialog is not taken for *)
(* open when it is not.                                                      *)
Attended(x, cs, a) == /\ x.state = "idle" => x.rejected \/ Works(cs, a, Decisive)
                      /\ x.prompting => Works(cs, a, {"prompt"})
                      /\ x.state = "forcing" => x.rejected \/ Works(cs, a, Forces)
AttemptsAreAttended ==
  /\ attempt # NoAttempt => Attended(att[attempt], calls, attempt)
  /\ forcePromptOpen => \E c \in calls : c.at \in Dialog

Undecided(x) == x.state = "idle" => ~x.forceEligible
AInv == AttemptsAreAttended /\ (attempt # NoAttempt => Undecided(att[attempt]))

(* The attempt stays, and of what worked for it only calls that are gone are  *)
(* missing: they are replaced, or nothing waits for them any more.           *)
DialogKept(gone) ==
  forcePromptOpen' => \/ \E c \in calls' : c.at \in Dialog
                      \/ forcePromptOpen /\ \A c \in gone : c.at \notin Dialog
Attends(gone, x, y) ==
  /\ y.state = "idle" => /\ x.state = "idle" /\ ~y.forceEligible
                         /\ \/ y.rejected \/ Works(calls', attempt, Decisive)
                            \/ ~x.rejected /\ ~Works(gone, attempt, Decisive)
  /\ y.prompting => \/ Works(calls', attempt, {"prompt"})
                    \/ x.prompting /\ ~Works(gone, attempt, {"prompt"})
  /\ y.state = "forcing" => \/ y.rejected \/ Works(calls', attempt, Forces)
                            \/ /\ x.state = "forcing" /\ ~x.rejected
                               /\ ~Works(gone, attempt, Forces)

LEMMA AttendedStays ==
  ASSUME AInv, attempt' = attempt, NEW gone, calls \ gone \subseteq calls', DialogKept(gone),
         attempt # NoAttempt => Attends(gone, att[attempt], att'[attempt])
  PROVE  AInv'
  <1>1. ASSUME NEW ats, Works(calls, attempt, ats), ~Works(gone, attempt, ats)
        PROVE  Works(calls', attempt, ats)
    BY <1>1 DEF Works
  <1>2. ASSUME attempt # NoAttempt
        PROVE  Attended(att'[attempt], calls', attempt) /\ Undecided(att'[attempt])
    BY <1>1, <1>2 DEF AInv, AttemptsAreAttended, Attended, Attends, Undecided
  <1>3. forcePromptOpen' => \E c \in calls' : c.at \in Dialog
    BY DEF DialogKept, AInv, AttemptsAreAttended
  <1> QED  BY <1>2, <1>3 DEF AInv, AttemptsAreAttended

(* A step that leaves the attempts alone and removes at most a call nobody    *)
(* waits for.                                                               *)
LEMMA AloneAttends ==
  ASSUME AInv, attempt' = attempt, att' = att, NEW gone, calls \ gone \subseteq calls',
         \A c \in gone : c.of # attempt \/ c.at \notin Decisive \union Forces,
         DialogKept(gone)
  PROVE  AInv'
  <1>1. attempt # NoAttempt => Attends(gone, att[attempt], att'[attempt])
    BY DEF AInv, AttemptsAreAttended, Attended, Attends, Undecided, Works, Decisive, Forces
  <1> QED  BY <1>1, AttendedStays

(* The current attempt changes.                                             *)
LEMMA ChangeAttends ==
  ASSUME IInv, AInv, attempt # NoAttempt, attempt' = attempt, NEW y \in Attempt,
         Becomes(attempt, y), NEW gone, calls \ gone \subseteq calls', DialogKept(gone),
         Attends(gone, att[attempt], y)
  PROVE  AInv'
  <1>1. att'[attempt] = y
    BY Current, BecomesAttempt DEF IInv
  <1> QED  BY <1>1, AttendedStays

LEMMA SameDialog ==
  ASSUME UNCHANGED forcePromptOpen, NEW gone, \A c \in gone : c.at \notin Dialog
  PROVE  DialogKept(gone)
  BY DEF DialogKept

LEMMA WorkAttends ==
  ASSUME IInv, AInv, WorkNext
  PROVE  AInv'
  <1>1. /\ attempt' = attempt /\ att' = att /\ calls \ {} \subseteq calls'
        /\ UNCHANGED forcePromptOpen
    BY DEF WorkNext, WorkBegins, WorkEnds, EpisodeEnds, EpisodeResumes, ProjectionInvalidated
  <1>2. DialogKept({})
    BY <1>1, SameDialog
  <1> QED  BY <1>1, <1>2, AloneAttends

(* What beginRendererCleanup makes of an attempt is neither undecided nor    *)
(* forced.                                                                  *)
LEMMA CleanupBegins ==
  ASSUME IInv, NEW a \in Attempts, NEW x \in Attempt, beginRendererCleanup(a, x)
  PROVE  \E y \in Attempt : /\ Becomes(a, y) /\ y.state \notin {"idle", "forcing"}
                            /\ y.prompting = x.prompting
  <1>1. WindowIds(x.scope) \subseteq Windows
    BY DEF WindowIds, IInv, TypeOK, Attempt, Scopes
  <1>2. CASE Becomes(a, x) /\ x.state \in {"cleaning", "approved"}
    BY <1>2
  <1>3. CASE Becomes(a, [x EXCEPT !.state = "approved", !.forceEligible = FALSE])
    <2>1. PICK y : y = [x EXCEPT !.state = "approved", !.forceEligible = FALSE]
      OBVIOUS
    <2>2. y \in Attempt /\ y.state = "approved" /\ y.prompting = x.prompting
      BY <2>1 DEF Attempt, States
    <2> QED  BY <1>3, <2>1, <2>2
  <1>4. CASE Becomes(a, [x EXCEPT !.state = "cleaning", !.forceEligible = TRUE,
                                  !.pending = WindowIds(x.scope)])
    <2>1. PICK y : y = [x EXCEPT !.state = "cleaning", !.forceEligible = TRUE,
                                 !.pending = WindowIds(x.scope)]
      OBVIOUS
    <2>2. y \in Attempt /\ y.state = "cleaning" /\ y.prompting = x.prompting
      BY <1>1, <2>1 DEF Attempt, States
    <2> QED  BY <1>4, <2>1, <2>2
  <1> QED  BY <1>2, <1>3, <1>4 DEF beginRendererCleanup, approve

LEMMA CleanupAttends ==
  ASSUME IInv, AInv, attempt # NoAttempt, attempt' = attempt,
         beginRendererCleanup(attempt, att[attempt]),
         NEW gone, calls \ gone \subseteq calls', DialogKept(gone),
         \A c \in gone : c.at # "prompt"
  PROVE  AInv'
  <1>1. PICK y \in Attempt : /\ Becomes(attempt, y) /\ y.state \notin {"idle", "forcing"}
                             /\ y.prompting = att[attempt].prompting
    BY Current, CleanupBegins
  <1>2. Attends(gone, att[attempt], y)
    BY <1>1 DEF Attends, Works
  <1> QED  BY <1>1, <1>2, ChangeAttends

LEMMA NotifyInspectedAttends ==
  ASSUME IInv, AInv, NEW c \in calls, NotifyInspected(c)
  PROVE  AInv'
  <1>1. attempt' = attempt /\ calls \ {c} \subseteq calls' /\ DialogKept({c}) /\ c.at = "notify"
    BY SameDialog DEF NotifyInspected, Dialog, Forces
  <1>2. CASE IsCurrent(c) /\ beginRendererCleanup(c.of, att[c.of])
    <2>1. c.of = attempt /\ attempt # NoAttempt
      BY <1>2, CallOf DEF IsCurrent
    <2> QED  BY <1>1, <1>2, <2>1, CleanupAttends
  <1>3. CASE UNCHANGED att
    BY <1>1, <1>3, AloneAttends DEF Decisive, Forces
  <1> QED  BY <1>2, <1>3 DEF NotifyInspected

LEMMA CleanupInspectedAttends ==
  ASSUME IInv, AInv, NEW c \in calls, CleanupInspected(c)
  PROVE  AInv'
  <1>1. attempt' = attempt /\ calls \ {c} \subseteq calls' /\ DialogKept({c}) /\ c.at = "cleanup"
    BY SameDialog DEF CleanupInspected, Dialog, Forces
  <1>2. CASE UNCHANGED att
    BY <1>1, <1>2, AloneAttends DEF Decisive, Forces
  <1>3. CASE IsCurrent(c) /\ \E y \in {Draining(att[c.of]), [att[c.of] EXCEPT !.state = "approved",
                                       !.forceEligible = FALSE]} : Becomes(c.of, y)
    <2>1. c.of = attempt /\ attempt # NoAttempt /\ att[attempt] \in Attempt
      BY <1>3, CallOf, Current DEF IsCurrent
    <2>2. PICK y \in {Draining(att[c.of]), [att[c.of] EXCEPT !.state = "approved",
                                       !.forceEligible = FALSE]} : Becomes(c.of, y)
      BY <1>3
    <2>3. y \in Attempt /\ y.state \in {"draining", "approved"} /\ y.prompting = att[attempt].prompting
      BY <2>1, <2>2 DEF Attempt, States, Draining
    <2>4. Attends({c}, att[attempt], y)
      BY <1>1, <2>3 DEF Attends, Works
    <2> QED  BY <1>1, <2>1, <2>2, <2>3, <2>4, ChangeAttends
  <1>4. CASE IsCurrent(c) /\ Becomes(c.of, att[c.of])
    <2>1. att' = att
      BY <1>4, CallOf DEF Becomes, IInv, TypeOK
    <2> QED  BY <1>2, <2>1
  <1> QED  BY <1>2, <1>3, <1>4 DEF CleanupInspected, approve

(* What request opens once the scope is settled attends to the attempt.      *)
LEMMA PursueAttends ==
  ASSUME IInv, AInv, attempt # NoAttempt, attempt' = attempt, NEW y \in Attempt,
         Becomes(attempt, y), y.state = att[attempt].state,
         y.prompting = att[attempt].prompting, y.forceEligible = att[attempt].forceEligible,
         y.rejected = att[attempt].rejected,
         NEW gone, \A c \in gone : c.at = "promote",
         calls' = (calls \ gone) \union Pursue(attempt, y), Prompting(Pursue(attempt, y))
  PROVE  AInv'
  <1>1. calls \ gone \subseteq calls'
    OBVIOUS
  <1>2. DialogKept(gone)
    BY DEF DialogKept, Prompting, Dialog, Forces
  <1>3. ASSUME y.state = "idle"
        PROVE  Works(calls', attempt, Decisive) /\ ~y.forceEligible
    <2>1. ~y.forceEligible
      BY <1>3 DEF AInv, Undecided
    <2>2. PICK d : d = Await("decide", attempt, y.scope)
      OBVIOUS
    <2>3. d \in Pursue(attempt, y)
      BY <1>3, <2>1, <2>2 DEF Pursue
    <2>4. d.of = attempt /\ d.at = "decide"
      BY <2>2 DEF Await
    <2> QED  BY <2>1, <2>3, <2>4 DEF Works, Decisive
  <1>4. Attends(gone, att[attempt], y)
    BY <1>3 DEF Attends, Works, Forces
  <1> QED  BY <1>1, <1>2, <1>4, ChangeAttends

LEMMA RequestAttends ==
  ASSUME IInv, AInv, NEW s \in Scopes, request(s)
  PROVE  AInv'
  <1>1. CASE attempt = NoAttempt
    <2>1. PICK a \in Attempts : /\ attempt' = a /\ Becomes(a, NewAttempt(s))
                                /\ calls' = calls \union {Await("decide", a, s)}
                                /\ UNCHANGED forcePromptOpen
      BY <1>1 DEF request
    <2>2. PICK y : y = NewAttempt(s)
      OBVIOUS
    <2>3. /\ y \in Attempt /\ y.state = "idle"
          /\ ~y.forceEligible /\ ~y.prompting
      BY <2>2 DEF NewAttempt, Unused, Attempt, States
    <2>4. PICK d : d = Await("decide", a, s)
      OBVIOUS
    <2>5. d.of = a /\ d.at = "decide"
      BY <2>4 DEF Await
    <2>6. att'[a] = y /\ d \in calls'
      BY <2>1, <2>2, <2>3, <2>4, BecomesAttempt DEF IInv
    <2>7. Attended(y, calls', a) /\ Undecided(y)
      BY <2>3, <2>5, <2>6 DEF Attended, Undecided, Works, Decisive
    <2>8. forcePromptOpen' => \E c \in calls' : c.at \in Dialog
      BY <2>1 DEF AInv, AttemptsAreAttended
    <2> QED  BY <2>1, <2>6, <2>7, <2>8 DEF AInv, AttemptsAreAttended
  <1>2. CASE attempt # NoAttempt
    <2> DEFINE x == att[attempt]
    <2>1. attempt \in Attempts /\ x \in Attempt /\ TypeOK
      BY <1>2, Current DEF IInv
    <2>2. CASE /\ attempt' = attempt
               /\ Becomes(attempt, [x EXCEPT !.scope = App, !.promoted = TRUE])
               /\ calls' = calls \union {Await("promote", attempt, App)}
               /\ UNCHANGED forcePromptOpen
      <3>1. PICK y : y = [x EXCEPT !.scope = App, !.promoted = TRUE]
        OBVIOUS
      <3>2. /\ y \in Attempt /\ y.state = x.state
            /\ y.prompting = x.prompting /\ y.forceEligible = x.forceEligible
            /\ y.rejected = x.rejected
        BY <2>1, <3>1 DEF Attempt, Scopes
      <3>3. DialogKept({})
        BY <2>2, SameDialog
      <3>4. Attends({}, x, y)
        BY <1>2, <3>2 DEF Attends, AInv, Undecided, Works
      <3> QED  BY <1>2, <2>2, <3>1, <3>2, <3>3, <3>4, ChangeAttends
    <2>3. CASE /\ attempt' = attempt /\ Prompting(Pursue(attempt, x))
               /\ calls' = calls \union Pursue(attempt, x) /\ UNCHANGED att
      <3>1. PICK gone : gone = {}
        OBVIOUS
      <3>2. PICK y : y = x
        OBVIOUS
      <3>3. /\ Becomes(attempt, y) /\ Prompting(Pursue(attempt, y))
            /\ calls' = (calls \ gone) \union Pursue(attempt, y)
        BY <2>1, <2>3, <3>1, <3>2 DEF Becomes, TypeOK
      <3> QED  BY <1>2, <2>1, <2>3, <3>1, <3>2, <3>3, PursueAttends
    <2> QED  BY <1>2, <2>2, <2>3 DEF request
  <1> QED  BY <1>1, <1>2

LEMMA PromotionInspectedAttends ==
  ASSUME IInv, AInv, NEW c \in calls, PromotionInspected(c)
  PROVE  AInv'
  <1>1. TypeOK /\ c.at = "promote" /\ attempt' = attempt /\ open \subseteq Windows
    BY DEF IInv, TypeOK, PromotionInspected
  <1>2. CASE IsCurrent(c)
    <2>1. /\ c.of = attempt /\ attempt # NoAttempt
          /\ att[c.of] \in Attempt /\ c.of \in Attempts
      BY <1>2, CallOf DEF IsCurrent
    <2>2. PICK y : y = IF att[c.of].state = "cleaning"
                       THEN [att[c.of] EXCEPT !.pending = open] ELSE att[c.of]
      OBVIOUS
    <2>3. /\ y \in Attempt /\ y.state = att[c.of].state
          /\ y.prompting = att[c.of].prompting /\ y.forceEligible = att[c.of].forceEligible
          /\ y.rejected = att[c.of].rejected
      BY <1>1, <2>1, <2>2 DEF Attempt
    <2>4. /\ Becomes(c.of, y) /\ Prompting(Pursue(c.of, y))
          /\ calls' = (calls \ {c}) \union Pursue(c.of, y)
      BY <1>2, <2>2 DEF PromotionInspected
    <2>5. PICK gone : gone = {c}
      OBVIOUS
    <2>6. /\ Becomes(attempt, y) /\ Prompting(Pursue(attempt, y))
          /\ calls' = (calls \ gone) \union Pursue(attempt, y)
      BY <2>1, <2>4, <2>5
    <2> QED  BY <1>1, <2>1, <2>3, <2>5, <2>6, PursueAttends
  <1>3. CASE ~IsCurrent(c)
    <2>1. calls' = calls \ {c} /\ UNCHANGED <<att, forcePromptOpen>>
      BY <1>3 DEF PromotionInspected
    <2>2. DialogKept({c})
      BY <1>1, <2>1, SameDialog DEF Dialog, Forces
    <2> QED  BY <1>1, <1>3, <2>1, <2>2, AloneAttends DEF IsCurrent
  <1> QED  BY <1>2, <1>3

LEMMA DecisionInspectedAttends ==
  ASSUME IInv, AInv, NEW c \in calls, DecisionInspected(c)
  PROVE  AInv'
  <1> DEFINE x == att[c.of]
  <1>1. attempt' = attempt /\ calls \ {c} \subseteq calls' /\ DialogKept({c}) /\ c.at = "decide"
    BY SameDialog DEF DecisionInspected, Dialog, Forces
  <1>2. ASSUME IsCurrent(c)
        PROVE  /\ c.of = attempt /\ attempt # NoAttempt /\ x \in Attempt /\ c.of \in Attempts
               /\ TypeOK
    BY <1>2, CallOf DEF IsCurrent, IInv
  <1>3. CASE ~IsCurrent(c)
    BY <1>1, <1>3, AloneAttends DEF DecisionInspected, IsCurrent
  <1>4. CASE IsCurrent(c) /\ UNCHANGED att /\ (x.state # "idle" \/ x.prompting)
    <2>1. x.prompting => Works(calls, attempt, {"prompt"})
      BY <1>2, <1>4 DEF AInv, AttemptsAreAttended, Attended
    <2>2. x.state = "idle" => Works(calls', attempt, Decisive)
      BY <1>1, <1>4, <2>1 DEF Works, Decisive
    <2>3. Attends({c}, att[attempt], att'[attempt])
      BY <1>1, <1>2, <1>4, <2>2 DEF Attends, AInv, Undecided, AttemptsAreAttended, Attended,
         Works, Forces
    <2> QED  BY <1>1, <2>3, AttendedStays
  <1>5. ASSUME IsCurrent(c), NEW p \in {"decide", "prompt"}, NEW y \in Attempt, Becomes(c.of, y),
               calls' = (calls \ {c}) \union {Await(p, c.of, x.scope)},
               y.state = x.state, y.forceEligible = x.forceEligible, y.rejected = x.rejected,
               y.prompting => x.prompting \/ p = "prompt"
        PROVE  AInv'
    <2>1. PICK d : d = Await(p, c.of, x.scope)
      OBVIOUS
    <2>2. d.of = attempt /\ d.at = p /\ d \in calls'
      BY <1>2, <1>5, <2>1 DEF Await
    <2>3. Attends({c}, att[attempt], y)
      BY <1>1, <1>2, <1>5, <2>2 DEF Attends, AInv, Undecided, Works, Decisive, Forces
    <2> QED  BY <1>1, <1>2, <1>5, <2>3, ChangeAttends
  <1>6. CASE /\ IsCurrent(c) /\ UNCHANGED att
             /\ calls' = (calls \ {c}) \union {Await("decide", c.of, x.scope)}
    <2>1. Becomes(c.of, x)
      BY <1>2, <1>6 DEF Becomes, TypeOK
    <2> QED  BY <1>2, <1>5, <1>6, <2>1
  <1>7. CASE /\ IsCurrent(c) /\ Becomes(c.of, [x EXCEPT !.prompting = TRUE])
             /\ calls' = (calls \ {c}) \union {Await("prompt", c.of, x.scope)}
    <2>1. PICK y : y = [x EXCEPT !.prompting = TRUE]
      OBVIOUS
    <2>2. /\ y \in Attempt /\ y.state = x.state /\ y.forceEligible = x.forceEligible
          /\ y.rejected = x.rejected
      BY <1>2, <1>7, <2>1 DEF Attempt
    <2> QED  BY <1>5, <1>7, <2>1, <2>2
  <1>8. CASE IsCurrent(c) /\ beginRendererCleanup(c.of, x)
    BY <1>1, <1>2, <1>8, CleanupAttends
  <1> QED  BY <1>3, <1>4, <1>6, <1>7, <1>8 DEF DecisionInspected

LEMMA GivenUpAttends ==
  ASSUME AInv, attempt' = NoAttempt,
         ~forcePromptOpen' \/ (UNCHANGED forcePromptOpen /\ calls \subseteq calls')
  PROVE  AInv'
  BY DEF AInv, AttemptsAreAttended

LEMMA WindowClosesAttends ==
  ASSUME IInv, AInv, NEW w \in Windows, WindowCloses(w)
  PROVE  AInv'
  <1>1. CASE attempt' = NoAttempt
    BY <1>1, GivenUpAttends DEF WindowCloses
  <1>2. CASE UNCHANGED <<attempt, att>>
    <2>1. DialogKept({}) /\ calls \ {} \subseteq calls'
      BY SameDialog DEF WindowCloses
    <2> QED  BY <1>2, <2>1, AloneAttends
  <1> QED  BY <1>1, <1>2 DEF WindowCloses

LEMMA PromptCancelledAttends ==
  ASSUME IInv, AInv, NEW c \in calls, PromptCancelled(c)
  PROVE  AInv'
  <1>1. c.at = "prompt"
    BY DEF PromptCancelled
  <1>2. CASE ~IsCurrent(c)
    <2>1. calls' = calls \ {c} /\ UNCHANGED <<att, attempt, forcePromptOpen>>
      BY <1>2 DEF PromptCancelled
    <2>2. DialogKept({c})
      BY <1>1, <2>1, SameDialog DEF Dialog, Forces
    <2> QED  BY <1>2, <2>1, <2>2, AloneAttends DEF IsCurrent
  <1>3. CASE IsCurrent(c) /\ att[c.of].state \in {"forcing", "approved"}
    <2>1. /\ c.of = attempt /\ attempt # NoAttempt /\ att[c.of] \in Attempt
      BY <1>3, CallOf DEF IsCurrent
    <2>2. PICK y : y = [att[c.of] EXCEPT !.prompting = FALSE]
      OBVIOUS
    <2>3. /\ y \in Attempt /\ y.state = att[c.of].state /\ ~y.prompting
          /\ y.rejected = att[c.of].rejected
      BY <2>1, <2>2 DEF Attempt
    <2>4. Becomes(c.of, y) /\ calls' = calls \ {c} /\ UNCHANGED <<attempt, forcePromptOpen>>
      BY <1>3, <2>2 DEF PromptCancelled
    <2>5. DialogKept({c}) /\ calls \ {c} \subseteq calls'
      BY <1>1, <2>4, SameDialog DEF Dialog, Forces
    <2>6. Attends({c}, att[attempt], y)
      BY <1>1, <1>3, <2>1, <2>3 DEF Attends, Works, Forces
    <2> QED  BY <2>1, <2>3, <2>4, <2>5, <2>6, ChangeAttends
  <1>4. CASE IsCurrent(c) /\ att[c.of].state \notin {"forcing", "approved"}
    BY <1>4, GivenUpAttends DEF PromptCancelled
  <1> QED  BY <1>2, <1>3, <1>4

LEMMA PromptAcceptedAttends ==
  ASSUME IInv, AInv, NEW c \in calls, PromptAccepted(c)
  PROVE  AInv'
  <1> DEFINE x == att[c.of]
             z == [x EXCEPT !.prompting = FALSE]
             y == [z EXCEPT !.drain = TRUE]
  <1>1. /\ c.at = "prompt" /\ attempt' = attempt /\ calls \ {c} \subseteq calls'
        /\ DialogKept({c})
    BY SameDialog DEF PromptAccepted, Dialog, Forces
  <1>2. CASE ~IsCurrent(c)
    BY <1>1, <1>2, AloneAttends DEF PromptAccepted, IsCurrent
  <1>3. ASSUME IsCurrent(c)
        PROVE  /\ c.of = attempt /\ attempt # NoAttempt /\ x \in Attempt
               /\ z \in Attempt /\ y \in Attempt /\ Draining(y) \in Attempt
               /\ z.state = x.state /\ y.state = x.state /\ Draining(y).state = "draining"
               /\ ~z.prompting /\ ~y.prompting /\ ~Draining(y).prompting
               /\ y.forceEligible = x.forceEligible
               /\ z.rejected = x.rejected /\ y.rejected = x.rejected
    <2>1. c.of = attempt /\ attempt # NoAttempt /\ x \in Attempt
      BY <1>3, CallOf DEF IsCurrent
    <2>2. /\ z \in Attempt /\ y \in Attempt
          /\ z.state = x.state /\ y.state = x.state
          /\ ~z.prompting /\ ~y.prompting
          /\ y.forceEligible = x.forceEligible
          /\ z.rejected = x.rejected /\ y.rejected = x.rejected
      BY <2>1 DEF Attempt
    <2>3. Draining(y) \in Attempt /\ Draining(y).state = "draining" /\ ~Draining(y).prompting
      BY <2>2 DEF Draining, Attempt, States
    <2> QED  BY <2>1, <2>2, <2>3
  <1>4. PICK e : e = Draining(y)
    OBVIOUS
  <1> HIDE DEF z, y
  <1>5. CASE IsCurrent(c) /\ x.state # "idle" /\ Becomes(c.of, z)
    <2>1. Attends({c}, att[attempt], z)
      BY <1>1, <1>3, <1>5 DEF Attends, Works, Forces, AInv, AttemptsAreAttended, Attended
    <2> QED  BY <1>1, <1>3, <1>5, <2>1, ChangeAttends
  <1>6. CASE IsCurrent(c) /\ Becomes(c.of, Draining(y))
    <2>1. Attends({c}, att[attempt], e)
      BY <1>1, <1>3, <1>4, <1>6 DEF Attends, Works
    <2> QED  BY <1>1, <1>3, <1>4, <1>6, <2>1, ChangeAttends
  <1>7. CASE /\ IsCurrent(c) /\ x.state = "idle" /\ Becomes(c.of, y)
             /\ calls' = (calls \ {c}) \union {Await("drain", c.of, z.scope)}
    <2>1. PICK d : d = Await("drain", c.of, z.scope)
      OBVIOUS
    <2>2. d.of = attempt /\ d.at = "drain" /\ d \in calls'
      BY <1>3, <1>7, <2>1 DEF Await
    <2>3. Attends({c}, att[attempt], y)
      BY <1>1, <1>3, <1>7, <2>2 DEF Attends, Works, Decisive, AInv, Undecided
    <2> QED  BY <1>1, <1>3, <1>7, <2>3, ChangeAttends
  <1> QED  BY <1>2, <1>5, <1>6, <1>7 DEF PromptAccepted, z, y

(* The coordinator's calls that end in a state of their own.                 *)
LEMMA DrainingAttends ==
  ASSUME IInv, AInv, NEW c \in calls, DrainBegun(c) \/ DrainFails(c) \/ MarkingFails(c)
  PROVE  AInv'
  <1>1. /\ attempt' = attempt /\ calls \ {c} \subseteq calls' /\ c.at \in {"drain", "mark"}
    BY DEF DrainBegun, DrainFails, MarkingFails
  <1>2. DialogKept({c})
    BY SameDialog DEF DrainBegun, DrainFails, MarkingFails, Dialog, Forces, DialogKept
  <1>3. CASE attempt = NoAttempt \/ (c.of # attempt /\ UNCHANGED att)
    BY <1>1, <1>2, <1>3, AttendedStays, AloneAttends
  <1>4. CASE /\ attempt # NoAttempt
             /\ \E y \in {Draining(att[attempt]), [att[attempt] EXCEPT !.state = "error"]} :
                  Becomes(attempt, y)
    <2>1. PICK y \in {Draining(att[attempt]), [att[attempt] EXCEPT !.state = "error"]} :
            Becomes(attempt, y)
      BY <1>4
    <2>2. att[attempt] \in Attempt
      BY <1>4, Current
    <2>3. /\ y \in Attempt /\ y.state \in {"draining", "error"}
          /\ y.prompting = att[attempt].prompting
      BY <2>1, <2>2 DEF Attempt, States, Draining
    <2>4. Attends({c}, att[attempt], y)
      BY <1>1, <2>3 DEF Attends, Works
    <2> QED  BY <1>1, <1>2, <1>4, <2>1, <2>3, <2>4, ChangeAttends
  <1> QED  BY <1>3, <1>4 DEF DrainBegun, DrainFails, MarkingFails, IsCurrent

LEMMA ForceAttends ==
  ASSUME IInv, AInv, NEW c \in calls, ForceDeclined(c) \/ ForceChosen(c)
  PROVE  AInv'
  <1>1. attempt' = attempt /\ c.at = "force" /\ calls \ {c} \subseteq calls'
    BY DEF ForceDeclined, ForceChosen
  <1>2. CASE forcePromptOpen' = FALSE /\ UNCHANGED att
    <2>1. DialogKept({c})
      BY <1>2 DEF DialogKept
    <2> QED  BY <1>1, <1>2, <2>1, AloneAttends DEF Decisive, Forces
  <1>3. CASE /\ IsCurrent(c)
             /\ Becomes(c.of, [att[c.of] EXCEPT !.state = "forcing", !.forced = TRUE])
             /\ calls' = (calls \ {c}) \union {Await("inspect", c.of, att[c.of].scope)}
    <2>1. c.of = attempt /\ attempt # NoAttempt /\ att[c.of] \in Attempt
      BY <1>3, CallOf DEF IsCurrent
    <2>2. PICK y : y = [att[c.of] EXCEPT !.state = "forcing", !.forced = TRUE]
      OBVIOUS
    <2>3. y \in Attempt /\ y.state = "forcing" /\ y.prompting = att[c.of].prompting
      BY <2>1, <2>2 DEF Attempt, States
    <2>4. PICK d : d = Await("inspect", c.of, att[c.of].scope)
      OBVIOUS
    <2>5. d.of = attempt /\ d.at = "inspect" /\ d \in calls'
      BY <1>3, <2>1, <2>4 DEF Await
    <2>6. DialogKept({c}) /\ Attends({c}, att[attempt], y)
      BY <1>1, <2>1, <2>3, <2>5 DEF DialogKept, Dialog, Forces, Attends, Works
    <2> QED  BY <1>1, <1>3, <2>1, <2>2, <2>3, <2>6, ChangeAttends
  <1> QED  BY <1>2, <1>3 DEF ForceDeclined, ForceChosen

LEMMA CreationsMarkedAttends ==
  ASSUME IInv, AInv, NEW c \in calls, CreationsMarked(c)
  PROVE  AInv'
  <1>1. PICK d : d = Await("terminate", c.of, c.scope)
    OBVIOUS
  <1>2. /\ attempt' = attempt /\ c.at = "mark" /\ calls' = (calls \ {c}) \union {d}
        /\ d.of = c.of /\ d.at = "terminate"
    BY <1>1 DEF CreationsMarked, Await
  <1>3. DialogKept({c})
    BY <1>2 DEF DialogKept, Dialog, Forces
  <1>4. CASE ~IsCurrent(c)
    BY <1>2, <1>3, <1>4, AloneAttends DEF CreationsMarked, IsCurrent
  <1>5. CASE IsCurrent(c)
    <2>1. /\ c.of = attempt /\ attempt # NoAttempt /\ att[c.of] \in Attempt
          /\ att[c.of].scope \in Scopes /\ open \subseteq Windows
      BY <1>5, CallOf DEF IsCurrent, IInv, TypeOK
    <2>2. WindowIds(att[c.of].scope) \subseteq Windows
      BY <2>1 DEF WindowIds, Scopes
    <2>3. PICK y : y = [att[c.of] EXCEPT !.pending = WindowIds(att[c.of].scope)]
      OBVIOUS
    <2>4. /\ y \in Attempt /\ y.state = att[c.of].state /\ y.prompting = att[c.of].prompting
          /\ y.forceEligible = att[c.of].forceEligible
          /\ y.rejected = att[c.of].rejected
      BY <2>1, <2>2, <2>3 DEF Attempt
    <2>5. Becomes(c.of, y)
      BY <1>5, <2>3 DEF CreationsMarked
    <2>6. Attends({c}, att[attempt], y)
      BY <1>2, <2>1, <2>4 DEF Attends, Works, Decisive, Forces, AInv, Undecided
    <2> QED  BY <1>2, <1>3, <2>1, <2>4, <2>5, <2>6, ChangeAttends
  <1> QED  BY <1>4, <1>5

LEMMA ForceGoesOnAttends ==
  ASSUME IInv, AInv, NEW c \in calls, ForceInspected(c) \/ ForceTerminates(c)
  PROVE  AInv'
  <1>1. PICK p \in {"mark", "kill"}, s \in {c.scope, att[c.of].scope} :
          calls' = (calls \ {c}) \union {Await(p, c.of, s)}
    BY DEF ForceInspected, ForceTerminates
  <1>2. /\ attempt' = attempt /\ att' = att /\ UNCHANGED forcePromptOpen
        /\ c.at \in {"inspect", "terminate"} /\ calls \ {c} \subseteq calls'
    BY <1>1 DEF ForceInspected, ForceTerminates
  <1>3. PICK d \in calls' : d.of = c.of /\ d.at \in {"mark", "kill"}
    <2>1. Await(p, c.of, s) \in calls'
      BY <1>1
    <2>2. Await(p, c.of, s).of = c.of /\ Await(p, c.of, s).at = p
      BY DEF Await
    <2> QED  BY <2>1, <2>2
  <1>4. DialogKept({c})
    BY <1>3 DEF DialogKept, Dialog, Forces
  <1>5. CASE c.of # attempt
    BY <1>2, <1>4, <1>5, AloneAttends
  <1>6. CASE c.of = attempt
    <2>1. Works(calls', attempt, Forces) /\ ~Works({c}, attempt, Decisive)
          /\ ~Works({c}, attempt, {"prompt"})
      BY <1>2, <1>3, <1>6 DEF Works, Forces, Decisive
    <2>2. attempt # NoAttempt => Attends({c}, att[attempt], att'[attempt])
      BY <1>2, <2>1 DEF Attends, AInv, Undecided, AttemptsAreAttended, Attended
    <2> QED  BY <1>2, <1>4, <2>2, AttendedStays
  <1> QED  BY <1>5, <1>6

LEMMA RejectedAttends ==
  ASSUME IInv, AInv, NEW c \in calls, InspectFails(c) \/ CleanupInspectFails(c)
  PROVE  AInv'
  <1> DEFINE x == [att[c.of] EXCEPT !.rejected = TRUE]
  <1>1. /\ attempt' = attempt /\ calls \ {c} \subseteq calls'
        /\ c.at \notin {"prompt", "force", "mark", "terminate"}
    BY DEF InspectFails, CleanupInspectFails
  <1>2. DialogKept({c})
    BY DEF InspectFails, CleanupInspectFails, DialogKept, Dialog, Forces
  <1>3. CASE ~IsCurrent(c) /\ UNCHANGED att
    BY <1>1, <1>2, <1>3, AloneAttends DEF IsCurrent
  <1>4. CASE /\ IsCurrent(c)
             /\ \E y \in {x, [x EXCEPT !.state = "error"], [x EXCEPT !.pending = @ \ {c.win}]} :
                  Becomes(c.of, y)
    <2>1. c.of = attempt /\ attempt # NoAttempt /\ att[attempt] \in Attempt
      BY <1>4, CallOf DEF IsCurrent
    <2>2. PICK y \in {x, [x EXCEPT !.state = "error"], [x EXCEPT !.pending = @ \ {c.win}]} :
            Becomes(c.of, y)
      BY <1>4
    <2>3. x \in Attempt /\ x.state = att[attempt].state /\ x.rejected
          /\ x.prompting = att[attempt].prompting
          /\ x.forceEligible = att[attempt].forceEligible
      BY <2>1 DEF Attempt
    <2> HIDE DEF x
    <2>4. /\ y \in Attempt /\ y.state \in {x.state, "error"} /\ y.rejected
          /\ y.prompting = x.prompting /\ y.forceEligible = x.forceEligible
      BY <2>2, <2>3 DEF Attempt, States
    <2>5. Attends({c}, att[attempt], y)
      BY <1>1, <2>1, <2>3, <2>4 DEF Attends, Works, AInv, Undecided, AttemptsAreAttended, Attended
    <2> QED  BY <1>1, <1>2, <2>1, <2>2, <2>4, <2>5, ChangeAttends
  <1> QED  BY <1>3, <1>4 DEF InspectFails, CleanupInspectFails

LEMMA TerminatedAttends ==
  ASSUME IInv, AInv, NEW c \in calls, Terminated(c)
  PROVE  AInv'
  <1>1. /\ attempt' = attempt /\ c.at = "kill" /\ calls \ {c} \subseteq calls'
        /\ DialogKept({c})
    BY DEF Terminated, DialogKept
  <1>2. CASE attempt = NoAttempt
    BY <1>1, <1>2, AttendedStays
  <1>3. CASE attempt # NoAttempt /\ approve(attempt, att[attempt])
    <2>1. att[attempt] \in Attempt /\ attempt \in Attempts
      BY <1>3, Current
    <2>2. PICK y \in {att[attempt], [att[attempt] EXCEPT !.state = "approved",
                                       !.forceEligible = FALSE]} :
            Becomes(attempt, y) /\ (y = att[attempt] => y.state = "approved")
      BY <1>3, <2>1 DEF approve, Attempt
    <2>3. y \in Attempt /\ y.state = "approved" /\ y.prompting = att[attempt].prompting
      BY <2>1, <2>2 DEF Attempt, States
    <2>4. Attends({c}, att[attempt], y)
      BY <1>1, <2>3 DEF Attends, Works
    <2> QED  BY <1>1, <1>3, <2>2, <2>3, <2>4, ChangeAttends
  <1> QED  BY <1>2, <1>3 DEF Terminated

LEMMA ReviewAttends ==
  ASSUME IInv, AInv, NEW new, Prompting(new), attempt' = attempt, UNCHANGED att,
         NEW gone, \A c \in gone : c.at = "review", calls' = (calls \ gone) \union new
  PROVE  AInv'
  <1>1. DialogKept(gone)
    BY DEF DialogKept, Prompting, Dialog, Forces
  <1> QED  BY <1>1, AloneAttends DEF Decisive, Forces

LEMMA ReviewOptionsAttends ==
  ASSUME IInv, AInv, NEW w \in Windows, ReviewOptions(w)
  PROVE  AInv'
  <1>1. PICK new : Prompting(new) /\ calls' = calls \union new
    BY DEF ReviewOptions
  <1>2. PICK gone : gone = {}
    OBVIOUS
  <1>3. calls' = (calls \ gone) \union new
    BY <1>1, <1>2
  <1> QED  BY <1>1, <1>2, <1>3, ReviewAttends DEF ReviewOptions

LEMMA ReviewInspectedAttends ==
  ASSUME IInv, AInv, NEW c \in calls, ReviewInspected(c)
  PROVE  AInv'
  <1> DEFINE x == att[c.of]
             y == [x EXCEPT !.state = IF x.forceEligible THEN "force-eligible"
                                      ELSE "draining"]
  <1>1. attempt' = attempt /\ c.at = "review" /\ calls \ {c} \subseteq calls'
    BY DEF ReviewInspected
  <1>2. DialogKept({c})
    BY <1>1 DEF ReviewInspected, DialogKept, Prompting, Dialog, Forces
  <1>3. CASE UNCHANGED att
    BY <1>1, <1>2, <1>3, AloneAttends DEF Decisive, Forces
  <1>4. CASE IsCurrent(c) /\ Becomes(c.of, y)
    <2>1. c.of = attempt /\ attempt # NoAttempt /\ x \in Attempt
      BY <1>4, CallOf DEF IsCurrent
    <2>2. y \in Attempt /\ y.state \in {"force-eligible", "draining"} /\ y.prompting = x.prompting
      BY <2>1 DEF Attempt, States
    <2>3. Attends({c}, att[attempt], y)
      BY <1>1, <2>1, <2>2 DEF Attends, Works
    <2> QED  BY <1>1, <1>2, <1>4, <2>1, <2>2, <2>3, ChangeAttends
  <1>5. CASE IsCurrent(c) /\ beginRendererCleanup(c.of, x)
    <2>1. c.of = attempt /\ attempt # NoAttempt
      BY <1>5, CallOf DEF IsCurrent
    <2> QED  BY <1>1, <1>2, <1>5, <2>1, CleanupAttends
  <1> QED  BY <1>3, <1>4, <1>5 DEF ReviewInspected

LEMMA RendererCleansAttends ==
  ASSUME IInv, AInv, NEW w \in Windows, NEW ok \in BOOLEAN, RendererCleans(w, ok)
  PROVE  AInv'
  <1> DEFINE a == handling[w]
             x == IF ok THEN [att[a] EXCEPT !.cleaned = @ \union {w}] ELSE att[a]
  <1>1. /\ attempt' = attempt /\ calls \ {} \subseteq calls' /\ DialogKept({})
        /\ a \in Attempts
    BY SameDialog DEF RendererCleans, IInv, TypeOK
  <1>2. CASE UNCHANGED att
    BY <1>1, <1>2, AloneAttends
  <1>3. CASE /\ attempt = a
             /\ \E y \in {x, [x EXCEPT !.pending = @ \ {w}], [x EXCEPT !.state = "error"],
                          [x EXCEPT !.pending = {}]} : Becomes(a, y)
    <2>1. att[a] \in Attempt /\ attempt # NoAttempt
      BY <1>1, <1>3, Current, ShutdownAssumption DEF IInv, TypeOK
    <2>2. /\ x \in Attempt /\ x.state = att[a].state /\ x.prompting = att[a].prompting
          /\ x.forceEligible = att[a].forceEligible /\ x.rejected = att[a].rejected
      BY <2>1 DEF Attempt
    <2>3. PICK y \in {x, [x EXCEPT !.pending = @ \ {w}], [x EXCEPT !.state = "error"],
                      [x EXCEPT !.pending = {}]} : Becomes(a, y)
      BY <1>3
    <2> HIDE DEF x
    <2>4. /\ y \in Attempt /\ y.state \in {x.state, "error"} /\ y.prompting = x.prompting
          /\ y.forceEligible = x.forceEligible /\ y.rejected = x.rejected
      BY <2>2, <2>3 DEF Attempt, States
    <2>5. Attends({}, att[attempt], y)
      BY <1>3, <2>1, <2>2, <2>4 DEF Attends, Works, AInv, Undecided, AttemptsAreAttended, Attended
    <2> QED  BY <1>1, <1>3, <2>1, <2>3, <2>4, <2>5, ChangeAttends
  <1> QED  BY <1>2, <1>3 DEF RendererCleans

LEMMA RestoredAttends ==
  ASSUME IInv, AInv, NEW c \in calls, Restored(c) \/ RestoreFails(c)
  PROVE  AInv'
  <1>1. /\ attempt' = attempt /\ att' = att /\ c.at = "restore"
        /\ calls \ {c} \subseteq calls' /\ UNCHANGED forcePromptOpen
    BY DEF Restored, RestoreFails
  <1>2. DialogKept({c})
    BY <1>1, SameDialog DEF Dialog, Forces
  <1> QED  BY <1>1, <1>2, AloneAttends DEF Decisive, Forces

LEMMA NextAttends ==
  ASSUME IInv, AInv, [Next]_vars
  PROVE  AInv'
  <1>1. CASE WorkNext
    BY <1>1, WorkAttends
  <1>2. CASE UserNext
    <2>1. ASSUME NEW w \in Windows, RequestClose(w)  PROVE AInv'
      BY <2>1, RequestAttends DEF RequestClose, Scopes
    <2>2. ASSUME RequestQuit  PROVE AInv'
      BY <2>2, RequestAttends DEF RequestQuit, Scopes
    <2>3. ASSUME NEW w \in Windows, KeepAppOpen(w)  PROVE AInv'
      BY <2>3, GivenUpAttends DEF KeepAppOpen
    <2> QED  BY <1>2, <2>1, <2>2, <2>3, ReviewOptionsAttends, PromptCancelledAttends,
                PromptAcceptedAttends, ForceAttends DEF UserNext
  <1>3. CASE WindowNext
    BY <1>3, WindowClosesAttends, RendererCleansAttends DEF WindowNext
  <1>4. CASE CallNext
    BY <1>4, PromotionInspectedAttends, DecisionInspectedAttends, NotifyInspectedAttends,
       CleanupInspectedAttends, ReviewInspectedAttends, DrainingAttends, RestoredAttends,
       RejectedAttends, ForceGoesOnAttends, CreationsMarkedAttends, TerminatedAttends
       DEF CallNext
  <1>5. CASE UNCHANGED vars
    BY <1>5 DEF vars, AInv, AttemptsAreAttended
  <1> QED  BY <1>1, <1>2, <1>3, <1>4, <1>5 DEF Next

(* No flag of the coordinator outlives the call it stands for, unless an      *)
(* await of the attempt was rejected: an attempt that is idle is being        *)
(* decided and one that is forcing has a call of Force Quit ahead.  With or   *)
(* without rejections, initialPromptOpen means that its prompt is open, and   *)
(* forcePromptOpen means that a dialog or the Force Quit it led to is under   *)
(* way, however older attempts, cancellations and promotions interleave       *)
(* (resolveInitialDecision, showForcePrompt and forceQuit of                 *)
(* shutdownCoordinator.ts).                                                  *)
THEOREM AttemptsStayAttended == Spec => []AttemptsAreAttended
  <1>1. Init => AInv
    BY DEF Init, AInv, AttemptsAreAttended
  <1>2. IInv /\ AInv /\ [Next]_vars => AInv'
    BY NextAttends
  <1>3. Init => IInv
    BY InitIInv
  <1>4. IInv /\ [Next]_vars => IInv'
    BY NextIInv
  <1>5. AInv => AttemptsAreAttended
    BY DEF AInv
  <1> QED  BY <1>1, <1>2, <1>3, <1>4, <1>5, PTL DEF Spec
=============================================================================
