---------------------------- MODULE AudioPlayer ----------------------------
(* The preview player of the public site: one media element at a time,      *)
(* whose play() answers by a promise and whose events are queued, while the *)
(* visitor goes on pressing.  A track switch disposes of the element and    *)
(* makes another; a request number and a media generation tell late answers *)
(* and events from current ones.                                            *)
(*                                                                          *)
(* An element is named by the generation that made it.  What a browser does *)
(* with an element follows the HTML standard as far as the player sees it:  *)
(* one task queue per element, settled promises and events in one order.    *)
(* The position inside a track and the visitor's queue of tracks are left   *)
(* out: previous and next play some other track.                            *)
EXTENDS Naturals, Sequences

CONSTANTS
  Tracks,       \* tracks with a preview
  None,         \* no track
  MaxRequests   \* bound on playbackRequest

ASSUME AudioPlayerAssumption == None \notin Tracks /\ MaxRequests \in Nat

VARIABLES
  current,      \* state.current
  status,       \* state.status
  duration,     \* the track whose duration is shown
  request,      \* playbackRequest
  generation,   \* mediaGeneration
  media,        \* the element in use, 0 for none
  elements      \* every element made, by its generation

vars == <<current, status, duration, request, generation, media, elements>>

\* Making and disposing of an element each advance the generation.
Generations == 1 .. 2 * MaxRequests

Task == [kind : {"error", "ended", "loadedmetadata", "resolved", "rejected"},
         requests : SUBSET (1 .. MaxRequests)]

\* bound: its listeners are attached.  waiting: requests whose play() is pending.
Element == [src : Tracks \cup {None}, bound : BOOLEAN, paused : BOOLEAN, sounding : BOOLEAN,
            metadata : BOOLEAN, waiting : SUBSET (1 .. MaxRequests), tasks : Seq(Task)]
NewElement == [src |-> None, bound |-> TRUE, paused |-> TRUE, sounding |-> FALSE,
               metadata |-> FALSE, waiting |-> {}, tasks |-> <<>>]
Unmade == [NewElement EXCEPT !.bound = FALSE]

----------------------------------------------------------------------------
\* What the methods of a media element do to it.

Event(kind) == [kind |-> kind, requests |-> {}]

\* Settle the pending promises of an element, if there are any.
Settled(element, kind) ==
  IF element.waiting = {} THEN element
  ELSE [element EXCEPT !.waiting = {},
                       !.tasks = Append(@, [kind |-> kind, requests |-> element.waiting])]

Playing(element, r) == [element EXCEPT !.paused = FALSE, !.waiting = @ \cup {r}]

Paused(element) == [Settled(element, "rejected") EXCEPT !.paused = TRUE, !.sounding = FALSE]

\* The tasks of promises: those that answer a request.
Promises(tasks) ==
  LET upTo[n \in 0 .. Len(tasks)] ==
        IF n = 0 THEN <<>>
        ELSE IF tasks[n].requests = {} THEN upTo[n - 1] ELSE Append(upTo[n - 1], tasks[n])
  IN upTo[Len(tasks)]

\* Setting src loads the element anew: queued events are dropped.
Loaded(element, src) ==
  [Paused(element) EXCEPT !.src = src, !.metadata = FALSE, !.tasks = Promises(@)]

\* disposeMedia: listeners off, then pause, an empty source and load().
Disposed(element) == [Loaded(Paused(element), None) EXCEPT !.bound = FALSE]

----------------------------------------------------------------------------
\* The operations of the controller.

\* play disposes of the element of another track.
Switches(track) == media # 0 /\ current # None /\ current # track

Play(track) ==
  LET kept == media # 0 /\ ~Switches(track)
      disposed == IF Switches(track) THEN [elements EXCEPT ![media] = Disposed(@)] ELSE elements
      fresh == generation + (IF Switches(track) THEN 2 ELSE 1)
      used == IF kept THEN media ELSE fresh
      element == IF kept THEN disposed[used] ELSE NewElement
  IN
  /\ request < MaxRequests
  /\ request' = request + 1
  /\ elements' = [disposed EXCEPT ![used] = Playing(Loaded(element, track), request + 1)]
  /\ media' = used
  /\ generation' = IF kept THEN generation ELSE fresh
  /\ current' = track
  /\ status' = "loading"
  /\ duration' = IF Switches(track) THEN None ELSE duration

Pause ==
  /\ request < MaxRequests
  /\ request' = request + 1
  /\ elements' = IF media = 0 THEN elements ELSE [elements EXCEPT ![media] = Paused(@)]
  /\ status' = IF current # None /\ status # "error" THEN "paused" ELSE status
  /\ UNCHANGED <<current, duration, generation, media>>

\* Mutant of Resume: the number is taken before it is advanced.
ResumeEarlier ==
  /\ media # 0
  /\ request < MaxRequests
  /\ request' = request + 1
  /\ elements' = [elements EXCEPT ![media] = Playing(@, request)]
  /\ status' = "loading"
  /\ UNCHANGED <<current, duration, generation, media>>

Resume ==
  /\ media # 0
  /\ request < MaxRequests
  /\ request' = request + 1
  /\ elements' = [elements EXCEPT ![media] = Playing(@, request + 1)]
  /\ status' = "loading"
  /\ UNCHANGED <<current, duration, generation, media>>

\* toggle: what pressing a track does.
Toggle(track) ==
  \/ current # track /\ Play(track)
  \/ current = track /\ status \in {"playing", "loading"} /\ Pause
  \/ current = track /\ status \notin {"playing", "loading"} /\ Resume

\* previous and next.
Move(track) == current # None /\ current # track /\ Play(track)

\* Mutant of Close: the element is forgotten, not disposed of.
CloseState ==
  /\ request < MaxRequests
  /\ request' = request + 1
  /\ media' = 0
  /\ current' = None /\ status' = "idle" /\ duration' = None
  /\ UNCHANGED <<elements, generation>>

Close ==
  /\ request < MaxRequests
  /\ request' = request + 1
  /\ IF media = 0 THEN UNCHANGED <<elements, generation>>
     ELSE /\ elements' = [elements EXCEPT ![media] = Disposed(@)]
          /\ generation' = generation + 1
  /\ media' = 0
  /\ current' = None /\ status' = "idle" /\ duration' = None

----------------------------------------------------------------------------
\* The browser, with an element that was asked to play.

Change(e, element) ==
  /\ elements' = [elements EXCEPT ![e] = element]
  /\ UNCHANGED <<current, status, duration, request, generation, media>>

Wanted(e) == elements[e].src # None /\ ~elements[e].paused

\* Enough has been read: the element sounds and its promises are kept.
Start(e) ==
  /\ Wanted(e) /\ elements[e].waiting # {}
  /\ Change(e, [Settled(elements[e], "resolved") EXCEPT !.sounding = TRUE])

ReadMetadata(e) ==
  /\ Wanted(e) /\ ~elements[e].metadata
  /\ Change(e, [elements[e] EXCEPT !.metadata = TRUE,
                                   !.tasks = Append(@, Event("loadedmetadata"))])

\* The source cannot be loaded or decoded, before or while it plays.
Fail(e) ==
  /\ Wanted(e) /\ (elements[e].sounding \/ elements[e].waiting # {})
  /\ Change(e, [Settled([elements[e] EXCEPT !.tasks = Append(@, Event("error"))], "rejected")
                EXCEPT !.sounding = FALSE])

\* play() is refused by a policy, or because the element has failed before.
Refuse(e) ==
  /\ Wanted(e) /\ ~elements[e].sounding /\ elements[e].waiting # {}
  /\ Change(e, [Settled(elements[e], "rejected") EXCEPT !.paused = TRUE])

End(e) ==
  /\ Wanted(e) /\ elements[e].sounding
  /\ Change(e, [Settled([elements[e] EXCEPT !.tasks = Append(@, Event("ended"))], "rejected")
                EXCEPT !.sounding = FALSE, !.paused = TRUE])

----------------------------------------------------------------------------
\* A queued task runs: the code after an await, or a listener.

\* Mutant of Latest: every promise may set the status.
LatestAny(task) == TRUE

\* A settled promise counts only for the latest request.
Latest(task) == request \in task.requests

\* Listeners are removed with their element, and check that it is in use.
Active(e) == elements[e].bound /\ media = e /\ generation = e

StatusAfter(e, task) ==
  CASE task.kind = "resolved" /\ Latest(task) -> "playing"
    [] task.kind = "rejected" /\ Latest(task) -> "error"
    [] task.kind = "error" /\ Active(e) -> "error"
    [] task.kind = "ended" /\ Active(e) -> "paused"
    [] OTHER -> status

Deliver(e) ==
  LET task == Head(elements[e].tasks) IN
  /\ elements[e].tasks # <<>>
  /\ elements' = [elements EXCEPT ![e].tasks = Tail(@)]
  /\ status' = StatusAfter(e, task)
  /\ duration' = IF task.kind = "loadedmetadata" /\ Active(e) THEN elements[e].src ELSE duration
  /\ UNCHANGED <<current, request, generation, media>>

----------------------------------------------------------------------------
Init ==
  /\ current = None /\ status = "idle" /\ duration = None
  /\ request = 0 /\ generation = 0 /\ media = 0
  /\ elements = [e \in Generations |-> Unmade]

Visitor ==
  \/ \E track \in Tracks : Toggle(track) \/ Move(track) \/ Play(track)
  \/ Pause \/ Resume \/ Close

Browser(e) == Start(e) \/ Fail(e) \/ Refuse(e)

Next ==
  \/ Visitor
  \/ \E e \in Generations : Browser(e) \/ ReadMetadata(e) \/ End(e) \/ Deliver(e)

Spec == Init /\ [][Next]_vars

\* A browser answers every play() and runs every task.  Nothing is assumed of
\* the visitor.
Fairness == \A e \in Generations : WF_vars(Browser(e)) /\ WF_vars(Deliver(e))

FairSpec == Spec /\ Fairness

----------------------------------------------------------------------------
\* The player and its elements hold values of their types.
TypeOK ==
  /\ current \in Tracks \cup {None}
  /\ status \in {"idle", "loading", "playing", "paused", "error"}
  /\ duration \in Tracks \cup {None}
  /\ request \in 0 .. MaxRequests
  /\ generation \in 0 .. 2 * MaxRequests
  /\ media \in 0 .. 2 * MaxRequests
  /\ elements \in [Generations -> Element]

\* Nothing sounds that the visitor cannot stop: only the element in use does,
\* and it plays the track that is shown, with that track's duration.
OneSounding ==
  /\ \A e \in Generations : elements[e].sounding => e = media
  /\ media # 0 => elements[media].src = current
  /\ current = None => media = 0 /\ status = "idle"
  /\ duration \in {None, current}

\* When the browser has nothing more to tell, the button tells the truth: it
\* shows a playing track exactly if the track sounds.
ButtonIsTrue ==
  media # 0 /\ elements[media].tasks = <<>> /\ elements[media].waiting = {} =>
    (status = "playing" <=> elements[media].sounding)

\* The spinner ends: no promise that was superseded is waited for.
LoadingEnds == status = "loading" ~> status # "loading"
============================================================================
