------------------------- MODULE ShutdownCoordinator -------------------------
(***************************************************************************)
(* Safe Shutdown: ShutdownCoordinator (main/shutdownCoordinator.ts), the    *)
(* drain of optimization episodes it asks of AgentRuntimeManager, and the   *)
(* cleanup it asks of each window's renderer.                               *)
(*                                                                         *)
(* One attempt at a time closes a window or quits the application.  Every   *)
(* await of the coordinator is an entry of `calls`; what follows the await  *)
(* is the action that removes the entry, and anything may happen before it. *)
(* A call that repeats one in flight is answered together with it.          *)
(***************************************************************************)
EXTENDS Naturals, FiniteSets

CONSTANTS Windows,    \* BrowserWindows, each with its Workspace
          App,        \* the scope of a quit; the other scopes are windows
          Attempts,   \* Attempt objects
          NoAttempt, NoWindow,
          MaxWork     \* bound: accepted commands and creations of a window

ASSUME ShutdownAssumption == /\ App \notin Windows /\ NoWindow \notin Windows
                             /\ NoAttempt \notin Attempts
                             /\ MaxWork \in Nat

VARIABLES
  open,            \* windows that exist
  work,            \* work[w]: accepted commands and active creations of w
  episode,         \* episode[w]: the optimization episode of w's Workspace
  held,            \* optimizationShutdownStates: episodes asked to drain
  attempt,         \* this.attempt
  att,             \* the Attempt objects
  calls,           \* suspended calls of the coordinator
  handling,        \* handling[w]: attempt whose cleanup w's renderer runs
  approved,        \* approvedWindows, and App for applicationApproved
  forcePromptOpen,
  unrestored       \* history: the last restoration to end was rejected

env  == <<open, work, episode, unrestored>>
vars == <<open, work, episode, held, attempt, att, calls, handling, approved,
          forcePromptOpen, unrestored>>

Scopes == Windows \union {App}
States == {"unused", "dropped", "idle", "draining", "force-eligible", "cleaning",
           "forcing", "approved", "error"}
Attempt == [state : States, scope : Scopes,
            forceEligible : BOOLEAN,
            prompting : BOOLEAN,          \* initialPromptOpen
            drain : BOOLEAN,              \* optimizationDrainStarted
            pending : SUBSET Windows,     \* pendingCleanup
            promoted : BOOLEAN,           \* history: window scope became App
            forced : BOOLEAN,             \* history: the user chose Force Quit
            rejected : BOOLEAN,           \* history: one of its awaits was rejected
            cleaned : SUBSET Windows]     \* history: renderers that finished
Awaits == {"notify", "decide", "prompt", "drain", "promote", "review",
           "cleanup", "force", "inspect", "mark", "terminate", "kill", "restore"}
Call == [at : Awaits, of : Attempts, scope : Scopes,
         win : Windows \union {NoWindow}]

Unused == [state |-> "unused", scope |-> App, forceEligible |-> FALSE,
           prompting |-> FALSE, drain |-> FALSE, pending |-> {},
           promoted |-> FALSE, forced |-> FALSE, rejected |-> FALSE, cleaned |-> {}]
(* An Attempt that is no longer current is a mere name in the calls and the  *)
(* renderers that still hold it; every check of the code tells it apart.      *)
Dropped(x) == [Unused EXCEPT !.state = "dropped", !.scope = x.scope]
NewAttempt(s) == [Unused EXCEPT !.state = "idle", !.scope = s]

Await(at, a, s) == [at |-> at, of |-> a, scope |-> s, win |-> NoWindow]
Becomes(a, x) == att' = [att EXCEPT ![a] = x]
IsCurrent(c) == attempt = c.of

InScope(s, w) == s = App \/ s = w
Blocked(s) == \E w \in Windows :
                InScope(s, w) /\ (work[w] > 0 \/ episode[w] = "running")
WindowIds(s) == IF s = App THEN open ELSE {s}

isMutationBlocked(w) ==
  /\ attempt # NoAttempt
  /\ att[attempt].state \in {"draining", "force-eligible", "cleaning",
                             "forcing", "error"}
  /\ InScope(att[attempt].scope, w)

Init == /\ open = Windows
        /\ work = [w \in Windows |-> 0]
        /\ episode \in [Windows -> {"none", "running"}]
        /\ held = {}
        /\ attempt = NoAttempt
        /\ att = [a \in Attempts |-> Unused]
        /\ calls = {}
        /\ handling = [w \in Windows |-> NoAttempt]
        /\ approved = {}
        /\ forcePromptOpen = FALSE
        /\ unrestored = FALSE

-----------------------------------------------------------------------------
(* Pieces shared by the handlers: x is the attempt as the handler left it.   *)

(* requestRendererCleanup: a renderer that is still cleaning up ignores it. *)
Asked(a, ws) == [w \in Windows |-> IF w \in ws /\ handling[w] = NoAttempt
                                   THEN a ELSE handling[w]]

approve(a, x) ==
  IF x.state = "approved" THEN Becomes(a, x) /\ UNCHANGED approved
  ELSE /\ Becomes(a, [x EXCEPT !.state = "approved", !.forceEligible = FALSE])
       /\ approved' = approved \union {x.scope}

beginRendererCleanup(a, x) ==
  IF x.state = "cleaning" THEN Becomes(a, x) /\ UNCHANGED <<handling, approved>>
  ELSE IF WindowIds(x.scope) = {} THEN approve(a, x) /\ UNCHANGED handling
  ELSE /\ Becomes(a, [x EXCEPT !.state = "cleaning", !.forceEligible = TRUE,
                               !.pending = WindowIds(x.scope)])
       /\ handling' = Asked(a, WindowIds(x.scope))
       /\ UNCHANGED approved

Draining(x) == [x EXCEPT !.state = "draining", !.forceEligible = TRUE]

ForcePrompt(a, x) ==           \* the call showForcePrompt opens, if any
  IF x.forceEligible /\ ~forcePromptOpen THEN {Await("force", a, x.scope)} ELSE {}

Notified ==                    \* notifyBlockersChanged up to its await
  IF attempt # NoAttempt /\ att[attempt].state \in {"draining", "force-eligible",
                                                   "error"}
  THEN {Await("notify", attempt, att[attempt].scope)} ELSE {}

-----------------------------------------------------------------------------
(* The work that may hold a shutdown back; each change notifies. *)

WorkBegins(w) ==
  /\ w \in open /\ work[w] < MaxWork
  /\ work' = [work EXCEPT ![w] = @ + 1]
  /\ calls' = calls \union Notified
  /\ UNCHANGED <<open, episode, held, attempt, att, handling, approved,
                 forcePromptOpen, unrestored>>

(* Mistaken variant: a finished command may be counted off twice. *)
WorkEndsTwice(w) ==
  /\ work' = [work EXCEPT ![w] = @ - 1]
  /\ calls' = calls \union Notified
  /\ UNCHANGED <<open, episode, held, attempt, att, handling, approved,
                 forcePromptOpen, unrestored>>

WorkEnds(w) ==
  /\ work[w] > 0
  /\ work' = [work EXCEPT ![w] = @ - 1]
  /\ calls' = calls \union Notified
  /\ UNCHANGED <<open, episode, held, attempt, att, handling, approved,
                 forcePromptOpen, unrestored>>

EpisodeEnds(w) ==              \* by itself, or interrupted once drained
  /\ episode[w] = "running"
  /\ \E s \in {"none"} \union (IF w \in held THEN {"interrupted"} ELSE {}) :
       episode' = [episode EXCEPT ![w] = s]
  /\ calls' = calls \union Notified
  /\ UNCHANGED <<open, work, held, attempt, att, handling, approved,
                 forcePromptOpen, unrestored>>

(* Resumed by the user, or by what is left of a rejected restoration. *)
EpisodeResumes(w) ==
  /\ episode[w] = "interrupted"
  /\ episode' = [episode EXCEPT ![w] = "running"]
  /\ calls' = calls \union Notified
  /\ UNCHANGED <<open, work, held, attempt, att, handling, approved,
                 forcePromptOpen, unrestored>>

(* An invalidation of the ECC or episode projection that changes no blocker. *)
ProjectionInvalidated ==
  /\ Notified # {}
  /\ calls' = calls \union Notified
  /\ UNCHANGED <<env, held, attempt, att, handling, approved, forcePromptOpen>>

WindowCloses(w) ==             \* after confirmWindowClose; then windowClosed(w)
  /\ w \in open /\ {w, App} \intersect approved # {}
  /\ open' = open \ {w}
  /\ approved' = approved \ {w}
  /\ handling' = [handling EXCEPT ![w] = NoAttempt]
  /\ IF attempt # NoAttempt /\ att[attempt].scope = w
     THEN attempt' = NoAttempt /\ Becomes(attempt, Dropped(att[attempt]))
     ELSE UNCHANGED <<attempt, att>>
  /\ UNCHANGED <<work, episode, held, calls, forcePromptOpen, unrestored>>

-----------------------------------------------------------------------------
(* request *)

(* What request does once the scope is settled. *)
Pursue(a, x) ==
  CASE x.state = "error" -> {Await("review", a, x.scope)}
    [] x.state # "error" /\ x.forceEligible -> ForcePrompt(a, x)
    [] x.state = "idle" -> {Await("decide", a, x.scope)}
    [] OTHER -> {}

Prompting(new) == forcePromptOpen' = (forcePromptOpen \/ \E c \in new : c.at = "force")

request(s) ==
  /\ UNCHANGED <<env, held, handling, approved>>
  /\ IF attempt = NoAttempt
     THEN \E a \in Attempts :
            /\ att[a] = Unused
            /\ attempt' = a
            /\ Becomes(a, NewAttempt(s))
            /\ calls' = calls \union {Await("decide", a, s)}
            /\ UNCHANGED forcePromptOpen
     ELSE LET a == attempt
              x == att[a]
          IN  /\ UNCHANGED attempt
              /\ IF s = App /\ x.scope # App
                 THEN /\ Becomes(a, [x EXCEPT !.scope = App, !.promoted = TRUE])
                      /\ calls' = calls \union {Await("promote", a, App)}
                      /\ UNCHANGED forcePromptOpen
                 ELSE /\ Prompting(Pursue(a, x))
                      /\ calls' = calls \union Pursue(a, x)
                      /\ UNCHANGED att

RequestClose(w) ==             \* the user closes a window
  /\ w \in open /\ {w, App} \intersect approved = {}
  /\ request(IF Cardinality(open) = 1 THEN App ELSE w)

RequestQuit == App \notin approved /\ request(App)         \* 'before-quit'

PromotionInspected(c) ==
  /\ c \in calls /\ c.at = "promote"
  /\ IF IsCurrent(c)
     THEN LET x == IF att[c.of].state = "cleaning"
                   THEN [att[c.of] EXCEPT !.pending = open] ELSE att[c.of]
              new == Pursue(c.of, x)
          IN  /\ Becomes(c.of, x)
              /\ handling' = IF x.state = "cleaning" THEN Asked(c.of, open)
                             ELSE handling
              /\ Prompting(new)
              /\ calls' = (calls \ {c}) \union new
     ELSE /\ calls' = calls \ {c}
          /\ UNCHANGED <<att, handling, forcePromptOpen>>
  /\ UNCHANGED <<env, held, attempt, approved>>

(* resolveInitialDecision *)
DecisionInspected(c) ==
  /\ c \in calls /\ c.at = "decide"
  /\ LET x == att[c.of]
     IN  IF ~IsCurrent(c) \/ x.state # "idle"
         THEN calls' = calls \ {c} /\ UNCHANGED <<att, handling, approved>>
         ELSE IF x.scope # c.scope
         THEN /\ calls' = (calls \ {c}) \union {Await("decide", c.of, x.scope)}
              /\ UNCHANGED <<att, handling, approved>>
         ELSE IF ~Blocked(c.scope)
         THEN calls' = calls \ {c} /\ beginRendererCleanup(c.of, x)
         ELSE IF x.prompting
         THEN calls' = calls \ {c} /\ UNCHANGED <<att, handling, approved>>
         ELSE /\ calls' = (calls \ {c}) \union {Await("prompt", c.of, x.scope)}
              /\ Becomes(c.of, [x EXCEPT !.prompting = TRUE])
              /\ UNCHANGED <<handling, approved>>
  /\ UNCHANGED <<env, held, attempt, forcePromptOpen>>

(* cancelShutdown asks AgentRuntimeManager to restore the drained episodes. *)
Restoring(x) == IF x.drain THEN {Await("restore", attempt, App)} ELSE {}

PromptCancelled(c) ==
  /\ c \in calls /\ c.at = "prompt"
  /\ IF ~IsCurrent(c)
     THEN calls' = calls \ {c} /\ UNCHANGED <<att, attempt, forcePromptOpen>>
     ELSE IF att[c.of].state \in {"forcing", "approved"}
     THEN /\ Becomes(c.of, [att[c.of] EXCEPT !.prompting = FALSE])
          /\ calls' = calls \ {c}
          /\ UNCHANGED <<attempt, forcePromptOpen>>
     ELSE /\ Becomes(c.of, Dropped(att[c.of]))
          /\ attempt' = NoAttempt
          /\ forcePromptOpen' = FALSE
          /\ calls' = (calls \ {c}) \union Restoring(att[c.of])
  /\ UNCHANGED <<env, held, handling, approved>>

Drainable(s) == {w \in Windows : InScope(s, w) /\ episode[w] = "running"}

PromptAccepted(c) ==           \* 'wait', then beginOptimizationShutdownDrain
  /\ c \in calls /\ c.at = "prompt"
  /\ LET x == [att[c.of] EXCEPT !.prompting = FALSE]
         a == c.of
     IN  IF ~IsCurrent(c)
         THEN calls' = calls \ {c} /\ UNCHANGED <<att, held>>
         ELSE IF x.state # "idle"
         THEN calls' = calls \ {c} /\ Becomes(a, x) /\ UNCHANGED held
         ELSE IF held # {} \/ Drainable(x.scope) = {}
         THEN /\ Becomes(a, Draining([x EXCEPT !.drain = TRUE]))
              /\ calls' = calls \ {c}
              /\ UNCHANGED held
         ELSE /\ Becomes(a, [x EXCEPT !.drain = TRUE])
              /\ held' = Drainable(x.scope)
              /\ calls' = (calls \ {c}) \union {Await("drain", a, x.scope)}
  /\ UNCHANGED <<env, attempt, handling, approved, forcePromptOpen>>

DrainBegun(c) ==               \* enterDraining, of whatever attempt is current
  /\ c \in calls /\ c.at = "drain"
  /\ calls' = calls \ {c}
  /\ IF attempt # NoAttempt THEN Becomes(attempt, Draining(att[attempt]))
     ELSE UNCHANGED att
  /\ UNCHANGED <<env, held, attempt, handling, approved, forcePromptOpen>>

DrainFails(c) ==
  /\ c \in calls /\ c.at = "drain"
  /\ calls' = calls \ {c}
  /\ IF IsCurrent(c) THEN Becomes(c.of, [att[c.of] EXCEPT !.state = "error"])
     ELSE UNCHANGED att
  /\ UNCHANGED <<env, held, attempt, handling, approved, forcePromptOpen>>

-----------------------------------------------------------------------------
(* notifyBlockersChanged after its await, and the renderers' cleanup *)

NotifyInspected(c) ==
  /\ c \in calls /\ c.at = "notify"
  /\ calls' = calls \ {c}
  /\ IF IsCurrent(c) /\ ~Blocked(c.scope)
     THEN beginRendererCleanup(c.of, att[c.of])
     ELSE UNCHANGED <<att, handling, approved>>
  /\ UNCHANGED <<env, held, attempt, forcePromptOpen>>

(* Mistaken variant: a completion is taken for the attempt that is current. *)
RendererCleansAny(w, ok) ==
  /\ handling[w] # NoAttempt /\ attempt # NoAttempt /\ ok
  /\ w \in att[attempt].pending /\ att[attempt].state = "cleaning"
  /\ LET x == IF attempt = handling[w]
              THEN [att[attempt] EXCEPT !.cleaned = @ \union {w}] ELSE att[attempt]
     IN  Becomes(attempt, [x EXCEPT !.pending = @ \ {w}])
  /\ calls' = IF att[attempt].pending # {w} THEN calls
              ELSE calls \union {[Await("cleanup", attempt, att[attempt].scope)
                                    EXCEPT !.win = w]}
  /\ UNCHANGED <<env, held, attempt, handling, approved, forcePromptOpen>>

(* completeRendererCleanup up to its await.  The history field `cleaned`     *)
(* records that the renderer of w has finished the cleanup of that attempt.  *)
RendererCleans(w, ok) ==
  /\ handling[w] # NoAttempt
  /\ LET a == handling[w]
         x == IF ok THEN [att[a] EXCEPT !.cleaned = @ \union {w}] ELSE att[a]
         Done == handling' = [handling EXCEPT ![w] = NoAttempt]
     IN  IF attempt # a THEN Done /\ UNCHANGED <<att, calls>>
         ELSE IF w \notin x.pending \/ x.state \notin {"forcing", "cleaning"}
         THEN Becomes(a, x) /\ Done /\ UNCHANGED calls
         ELSE IF x.state = "forcing"
         THEN Becomes(a, [x EXCEPT !.pending = @ \ {w}]) /\ Done /\ UNCHANGED calls
         ELSE IF ~ok
         THEN Becomes(a, [x EXCEPT !.state = "error"]) /\ Done /\ UNCHANGED calls
         ELSE IF x.pending # {w}
         THEN Becomes(a, [x EXCEPT !.pending = @ \ {w}]) /\ Done /\ UNCHANGED calls
         ELSE /\ Becomes(a, [x EXCEPT !.pending = {}])
              /\ calls' = calls \union {[Await("cleanup", a, x.scope) EXCEPT !.win = w]}
              /\ UNCHANGED handling
  /\ UNCHANGED <<env, held, attempt, approved, forcePromptOpen>>

(* Mistaken variant: the blockers are not inspected again after the cleanup. *)
CleanupNotInspected(c) ==
  /\ c \in calls /\ c.at = "cleanup"
  /\ calls' = calls \ {c}
  /\ handling' = IF handling[c.win] = c.of
                 THEN [handling EXCEPT ![c.win] = NoAttempt] ELSE handling
  /\ IF ~IsCurrent(c) \/ att[c.of].state # "cleaning" THEN UNCHANGED <<att, approved>>
     ELSE approve(c.of, att[c.of])
  /\ UNCHANGED <<env, held, attempt, forcePromptOpen>>

CleanupInspected(c) ==
  /\ c \in calls /\ c.at = "cleanup"
  /\ calls' = calls \ {c}
  /\ handling' = IF handling[c.win] = c.of
                 THEN [handling EXCEPT ![c.win] = NoAttempt] ELSE handling
  /\ IF ~IsCurrent(c) \/ att[c.of].state # "cleaning" THEN UNCHANGED <<att, approved>>
     ELSE IF Blocked(c.scope)
     THEN Becomes(c.of, Draining(att[c.of])) /\ UNCHANGED approved
     ELSE approve(c.of, att[c.of])
  /\ UNCHANGED <<env, held, attempt, forcePromptOpen>>

-----------------------------------------------------------------------------
(* Keep App Open, Force Quit *)

Visible(w) ==                  \* the status button is shown to window w
  w \in open /\ isMutationBlocked(w)

(* Mistaken variant: the episodes stay drained after a cancelled shutdown. *)
KeepAppOpenDrained(w) ==
  /\ Visible(w) /\ att[attempt].state # "forcing"
  /\ attempt' = NoAttempt
  /\ Becomes(attempt, Dropped(att[attempt]))
  /\ forcePromptOpen' = FALSE
  /\ calls' = calls \union (IF att[attempt].state = "error" THEN {}
                            ELSE Restoring(att[attempt]))
  /\ UNCHANGED <<env, held, handling, approved>>

KeepAppOpen(w) ==              \* cancelShutdown
  /\ Visible(w) /\ att[attempt].state # "forcing"
  /\ attempt' = NoAttempt
  /\ Becomes(attempt, Dropped(att[attempt]))
  /\ forcePromptOpen' = FALSE
  /\ calls' = calls \union Restoring(att[attempt])
  /\ UNCHANGED <<env, held, handling, approved>>

(* cancelOptimizationShutdownDrain: every held episode is asked to go on.     *)
Resumed(ws) == [w \in Windows |-> IF w \in ws /\ episode[w] = "interrupted"
                                  THEN "running" ELSE episode[w]]

Restored(c) ==
  /\ c \in calls /\ c.at = "restore"
  /\ episode' = Resumed(held)
  /\ held' = {} /\ unrestored' = FALSE
  /\ calls' = (calls \ {c}) \union Notified
  /\ UNCHANGED <<open, work, attempt, att, handling, approved, forcePromptOpen>>

(* One of the requests is rejected: some episodes go on, none is forgotten.   *)
RestoreFails(c) ==
  /\ c \in calls /\ c.at = "restore" /\ held # {}
  /\ \E ws \in SUBSET held : episode' = Resumed(ws)
  /\ unrestored' = TRUE
  /\ calls' = (calls \ {c}) \union Notified
  /\ UNCHANGED <<open, work, held, attempt, att, handling, approved, forcePromptOpen>>

ReviewOptions(w) ==            \* reviewShutdownOptions
  /\ Visible(w)
  /\ LET x == att[attempt]
         new == IF x.state = "error" THEN {Await("review", attempt, x.scope)}
                ELSE ForcePrompt(attempt, x)
     IN  Prompting(new) /\ calls' = calls \union new
  /\ UNCHANGED <<env, held, attempt, att, handling, approved>>

ReviewInspected(c) ==
  /\ c \in calls /\ c.at = "review"
  /\ LET x == att[c.of]
         y == [x EXCEPT !.state = IF x.forceEligible THEN "force-eligible"
                                  ELSE "draining"]
         new == IF Blocked(c.scope) THEN ForcePrompt(c.of, y)
                ELSE IF WindowIds(x.scope) = {} THEN {}
                ELSE ForcePrompt(c.of, [x EXCEPT !.forceEligible = TRUE])
     IN  IF ~IsCurrent(c) \/ x.state # "error"
         THEN /\ calls' = calls \ {c}
              /\ UNCHANGED <<att, handling, approved, forcePromptOpen>>
         ELSE /\ calls' = (calls \ {c}) \union new
              /\ Prompting(new)
              /\ IF Blocked(c.scope)
                 THEN Becomes(c.of, y) /\ UNCHANGED <<handling, approved>>
                 ELSE beginRendererCleanup(c.of, x)
  /\ UNCHANGED <<env, held, attempt>>

ForceDeclined(c) ==            \* Keep Waiting
  /\ c \in calls /\ c.at = "force"
  /\ calls' = calls \ {c}
  /\ forcePromptOpen' = FALSE
  /\ UNCHANGED <<env, held, attempt, att, handling, approved>>

ForceChosen(c) ==
  /\ c \in calls /\ c.at = "force"
  /\ LET x == att[c.of]
     IN  IF IsCurrent(c) /\ x.forceEligible /\ x.state # "approved"
         THEN /\ Becomes(c.of, [x EXCEPT !.state = "forcing", !.forced = TRUE])
              /\ calls' = (calls \ {c}) \union {Await("inspect", c.of, x.scope)}
              /\ UNCHANGED forcePromptOpen
         ELSE calls' = calls \ {c} /\ forcePromptOpen' = FALSE /\ UNCHANGED att
  /\ UNCHANGED <<env, held, attempt, handling, approved>>

ForceInspected(c) ==           \* the blockers shown with the attempt are refreshed
  /\ c \in calls /\ c.at = "inspect"
  /\ calls' = (calls \ {c}) \union {Await("mark", c.of, att[c.of].scope)}
  /\ UNCHANGED <<env, held, attempt, att, handling, approved, forcePromptOpen>>

CreationsMarked(c) ==          \* markCreationsUnfinished, then the cleanup
  /\ c \in calls /\ c.at = "mark"
  /\ LET ws == WindowIds(att[c.of].scope)
     IN  /\ handling' = Asked(c.of, ws)
         /\ IF IsCurrent(c) THEN Becomes(c.of, [att[c.of] EXCEPT !.pending = ws])
            ELSE UNCHANGED att
  /\ calls' = (calls \ {c}) \union {Await("terminate", c.of, c.scope)}
  /\ UNCHANGED <<env, held, attempt, approved, forcePromptOpen>>

MarkingFails(c) ==
  /\ c \in calls /\ c.at = "mark"
  /\ IF IsCurrent(c) THEN Becomes(c.of, [att[c.of] EXCEPT !.state = "error"])
     ELSE UNCHANGED att
  /\ calls' = calls \ {c}
  /\ forcePromptOpen' = FALSE
  /\ UNCHANGED <<env, held, attempt, handling, approved>>

(* Mistaken variant: no deadline, so every renderer has to answer. *)
ForceTerminatesAnswered(c) ==
  /\ c \in calls /\ c.at = "terminate" /\ att[c.of].pending = {}
  /\ calls' = (calls \ {c}) \union {Await("kill", c.of, c.scope)}
  /\ UNCHANGED <<env, held, attempt, att, handling, approved, forcePromptOpen>>

(* The renderers and the accepted work are awaited for 3 s at most; then      *)
(* forceTerminate is called, and awaited for as long as it takes.             *)
ForceTerminates(c) ==
  /\ c \in calls /\ c.at = "terminate"
  /\ calls' = (calls \ {c}) \union {Await("kill", c.of, c.scope)}
  /\ UNCHANGED <<env, held, attempt, att, handling, approved, forcePromptOpen>>

Terminated(c) ==               \* approves whatever attempt is current
  /\ c \in calls /\ c.at = "kill"
  /\ calls' = calls \ {c}
  /\ forcePromptOpen' = FALSE
  /\ IF attempt # NoAttempt THEN approve(attempt, att[attempt])
     ELSE UNCHANGED <<att, approved>>
  /\ UNCHANGED <<env, held, attempt, handling>>

-----------------------------------------------------------------------------
(* Awaits that nothing guards: the error leaves the handler, and the attempt  *)
(* stays as it was.                                                           *)

InspectFails(c) ==             \* also forceTerminate, the end of Force Quit
  /\ c \in calls
  /\ c.at \in {"notify", "decide", "promote", "review", "inspect", "kill"}
  /\ calls' = calls \ {c}
  /\ forcePromptOpen' = (forcePromptOpen /\ c.at \notin {"inspect", "kill"})
  /\ IF IsCurrent(c) THEN Becomes(c.of, [att[c.of] EXCEPT !.rejected = TRUE])
     ELSE UNCHANGED att
  /\ UNCHANGED <<env, held, attempt, handling, approved>>

(* The renderer reports its cleanup as failed then, which matters only when   *)
(* it has been asked for another one.                                         *)
CleanupInspectFails(c) ==
  /\ c \in calls /\ c.at = "cleanup"
  /\ calls' = calls \ {c}
  /\ handling' = IF handling[c.win] = c.of
                 THEN [handling EXCEPT ![c.win] = NoAttempt] ELSE handling
  /\ LET x == [att[c.of] EXCEPT !.rejected = TRUE]
     IN  IF ~IsCurrent(c) THEN UNCHANGED att
         ELSE IF c.win \notin x.pending \/ x.state \notin {"forcing", "cleaning"}
         THEN Becomes(c.of, x)
         ELSE IF x.state = "forcing"
         THEN Becomes(c.of, [x EXCEPT !.pending = @ \ {c.win}])
         ELSE Becomes(c.of, [x EXCEPT !.state = "error"])
  /\ UNCHANGED <<env, held, attempt, approved, forcePromptOpen>>

-----------------------------------------------------------------------------
WorkNext == \/ \E w \in Windows : \/ WorkBegins(w) \/ WorkEnds(w)
                               \/ EpisodeEnds(w) \/ EpisodeResumes(w)
            \/ ProjectionInvalidated

UserNext == \/ \E w \in Windows : \/ RequestClose(w) \/ KeepAppOpen(w)
                                 \/ ReviewOptions(w)
            \/ RequestQuit
            \/ \E c \in calls : \/ PromptCancelled(c) \/ PromptAccepted(c)
                               \/ ForceDeclined(c) \/ ForceChosen(c)

WindowNext == \E w \in Windows : \/ WindowCloses(w)
                                \/ \E ok \in BOOLEAN : RendererCleans(w, ok)

CallNext == \E c \in calls : \/ PromotionInspected(c) \/ DecisionInspected(c)
                            \/ NotifyInspected(c) \/ CleanupInspected(c)
                            \/ ReviewInspected(c)
                            \/ InspectFails(c) \/ CleanupInspectFails(c)
                            \/ DrainBegun(c) \/ DrainFails(c)
                            \/ Restored(c) \/ RestoreFails(c)
                            \/ ForceInspected(c)
                            \/ CreationsMarked(c) \/ MarkingFails(c)
                            \/ ForceTerminates(c) \/ Terminated(c)

Next == WorkNext \/ UserNext \/ WindowNext \/ CallNext

Spec == Init /\ [][Next]_vars

(* The deadline of Force Quit is a timer; no answer is taken for granted. *)
LiveSpec ==
  /\ Spec
  /\ \A a \in Attempts :
       WF_vars(\E c \in calls : c.of = a /\ ForceTerminates(c))

-----------------------------------------------------------------------------
(* The type invariant: every variable keeps the shape declared for it above. *)
TypeOK == /\ open \subseteq Windows
          /\ work \in [Windows -> 0..MaxWork]
          /\ episode \in [Windows -> {"none", "running", "interrupted"}]
          /\ held \subseteq Windows
          /\ attempt \in Attempts \union {NoAttempt}
          /\ att \in [Attempts -> Attempt]
          /\ calls \subseteq Call
          /\ handling \in [Windows -> Attempts \union {NoAttempt}]
          /\ approved \subseteq Scopes
          /\ forcePromptOpen \in BOOLEAN
          /\ unrestored \in BOOLEAN

(* A safe close loses nothing: unless the user chose Force Quit, what an      *)
(* attempt approves has no command, creation or episode in progress at that   *)
(* moment, and every renderer it closes has finished its cleanup for this      *)
(* attempt, whatever notifications, cancellations and late completions of       *)
(* other attempts arrive in between.  (Not claimed of an attempt whose scope   *)
(* was promoted, nor while a Force Quit waits for forceTerminate.)             *)
SafeApproval ==
  [][\A a \in Attempts :
       LET x == att'[a] IN
       /\ att[a].state # "approved" /\ x.state = "approved"
       /\ ~x.forced /\ ~x.promoted
       /\ \A c \in calls : c.at # "kill"
       => /\ ~Blocked(x.scope)
          /\ WindowIds(x.scope) \intersect open \subseteq x.cleaned]_vars

(* After a shutdown is given up, an episode of an open window stays drained  *)
(* only while it is being restored, or because the last restoration to end    *)
(* was rejected: the next shutdown that is given up then tries it again.       *)
CancelledDrainReleased ==
  attempt = NoAttempt /\ held \intersect open # {}
    => unrestored \/ \E c \in calls : c.at = "restore"

(* Force Quit ends, in an approval or in an error the user sees, even if no  *)
(* renderer answers and accepted work never finishes: unless one of its        *)
(* awaits is rejected, all that it can wait for for ever is its inspection of   *)
(* the blockers, the journal of creations, or forceTerminate.                  *)
ForceWaits(a) ==
  \E c \in calls : c.of = a /\ c.at \in {"inspect", "mark", "kill"}
ForceQuitEnds ==
  \A a \in Attempts :
    (attempt = a /\ att[a].state = "forcing")
      ~> \/ attempt # a \/ att[a].state \in {"approved", "error"}
         \/ att[a].rejected \/ []ForceWaits(a)
=============================================================================
