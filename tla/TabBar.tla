------------------------------- MODULE TabBar -------------------------------
(***************************************************************************)
(* The tab bar of KlotskiTabController.  Pages ask for it to be shown or   *)
(* hidden when they appear, and the list of levels does when it is         *)
(* scrolled or pulled down.  A request starts an animation that moves the  *)
(* bar at once, as far as `top` says, and sets `hidden` when it has ended. *)
(* A request is dropped when `hidden` says that there is nothing to do.    *)
(***************************************************************************)
EXTENDS Integers, Sequences

CONSTANT MaxFlight  \* bound of the model: animations at once

ASSUME FlightAssumption == MaxFlight \in Nat

VARIABLES
    page,     \* the page on top: "home", "list" or "level"
    root,     \* the tab, "home" or "list"
    moving,   \* whether a page is being pushed or popped
    hidden,   \* tabBar.hidden
    inside,   \* tabBar.top is on the screen
    flight,   \* the animations in flight
    pulled,   \* the list was pulled down and has not hidden the bar yet
    wanted,   \* history: what was asked for last
    dropped,  \* history: a request was dropped with the bar on its way elsewhere
    cut       \* history: animations have ended unfinished

barVars == <<page, root, moving, hidden, inside, flight, pulled, wanted, dropped, cut>>

pages == <<page, root, moving>>

BarInit ==
    /\ page = "home"
    /\ root = "home"
    /\ moving = FALSE
    /\ hidden = FALSE
    /\ inside = TRUE
    /\ flight = <<>>
    /\ pulled = FALSE
    /\ wanted = TRUE
    /\ dropped = FALSE
    /\ cut = FALSE

\* Mutant: without the exclusive or, every request to show is dropped.
Request_IfShown(visible) ==
    /\ Len(flight) < MaxFlight
    /\ wanted' = visible
    /\ IF visible
       THEN /\ dropped' = (dropped \/ (hidden # visible /\ inside # visible))
            /\ UNCHANGED <<inside, flight>>
       ELSE /\ inside' = visible
            /\ flight' = Append(flight, [visible |-> visible, still |-> inside = visible])
            /\ UNCHANGED dropped
    /\ UNCHANGED <<hidden, cut>>

\* tabBarVisible:animated:
Request(visible) ==
    /\ Len(flight) < MaxFlight
    /\ wanted' = visible
    /\ IF hidden # visible
       THEN /\ dropped' = (dropped \/ inside # visible)
            /\ UNCHANGED <<inside, flight>>
       ELSE /\ inside' = visible
            /\ flight' = Append(flight, [visible |-> visible, still |-> inside = visible])
            /\ UNCHANGED dropped
    /\ UNCHANGED <<hidden, cut>>

Without(k) == SubSeq(flight, 1, k - 1) \o SubSeq(flight, k + 1, Len(flight))

\* The completion of an animation that has finished.  They last equally
\* long, but for one with nothing to move.
Complete(k) ==
    /\ k = 1 \/ flight[k].still
    /\ hidden' = ~ flight[k].visible
    /\ flight' = Without(k)
    /\ IF flight' = <<>> THEN cut' = FALSE ELSE UNCHANGED cut
    /\ IF flight' = <<>> /\ hidden' # wanted THEN dropped' = FALSE ELSE UNCHANGED dropped
    /\ UNCHANGED <<pages, inside, pulled, wanted>>

\* The app goes to the background: finished is NO.
Cut ==
    /\ flight # <<>>
    /\ flight' = <<>>
    /\ cut' = TRUE
    /\ UNCHANGED <<pages, hidden, inside, pulled, wanted, dropped>>

\* A page that has appeared asks for the bar.
SelectTab ==
    /\ page # "level"
    /\ ~ moving
    /\ ~ hidden /\ inside
    /\ \E tab \in {"home", "list"} : page' = tab /\ root' = tab
    /\ Request(TRUE)
    /\ UNCHANGED <<moving, pulled>>

\* A level page is pushed: viewWillAppear.
PushLevel ==
    /\ page # "level"
    /\ ~ moving
    /\ page' = "level"
    /\ moving' = TRUE
    /\ Request(FALSE)
    /\ UNCHANGED <<root, pulled>>

Opened ==
    /\ page = "level"
    /\ moving
    /\ moving' = FALSE
    /\ UNCHANGED <<page, root, hidden, inside, flight, pulled, wanted, dropped, cut>>

Pop ==
    /\ page = "level"
    /\ ~ moving
    /\ page' = root
    /\ moving' = TRUE
    /\ UNCHANGED <<root, hidden, inside, flight, pulled, wanted, dropped, cut>>

\* Mutant: a page that comes back asks for nothing.
Popped_Silent ==
    /\ page # "level"
    /\ moving
    /\ moving' = FALSE
    /\ UNCHANGED <<page, root, hidden, inside, flight, pulled, wanted, dropped, cut>>

\* viewDidAppear of the page below.
Popped ==
    /\ page # "level"
    /\ moving
    /\ moving' = FALSE
    /\ Request(TRUE)
    /\ UNCHANGED <<page, root, pulled>>

\* scrollViewDidScroll, at the top or below it.
Scroll ==
    /\ page = "list"
    /\ ~ moving
    /\ Request(TRUE)
    /\ UNCHANGED <<pages, pulled>>

\* scrollViewWillEndDragging, pulled far enough: 10 ms later, on whatever
\* page, the bar is to hide.
PullDown ==
    /\ page = "list"
    /\ ~ moving
    /\ pulled' = TRUE
    /\ UNCHANGED <<pages, hidden, inside, flight, wanted, dropped, cut>>

HidePulled ==
    /\ pulled
    /\ pulled' = FALSE
    /\ Request(FALSE)
    /\ UNCHANGED pages

BarNext ==
    \/ \E k \in DOMAIN flight : Complete(k)
    \/ Cut
    \/ SelectTab
    \/ PushLevel
    \/ Opened
    \/ Pop
    \/ Popped
    \/ Scroll
    \/ PullDown
    \/ HidePulled

\* Animations and transitions end and timers fire; what the user does is up to the user.
BarSpec ==
    /\ BarInit
    /\ [][BarNext]_barVars
    /\ WF_barVars(Cut \/ \E k \in DOMAIN flight : Complete(k))
    /\ WF_barVars(HidePulled)
    /\ WF_barVars(Opened \/ Popped)

-----------------------------------------------------------------------------
(* Properties                                                              *)

\* The variables keep their types.
BarTypeOK ==
    /\ page \in {root, "level"} /\ root \in {"home", "list"}
    /\ flight \in Seq([visible : BOOLEAN, still : BOOLEAN]) /\ Len(flight) =< MaxFlight
    /\ {moving, hidden, inside, pulled, wanted, dropped, cut} \subseteq BOOLEAN

AtRest == flight = <<>>

\* At rest the bar is on the screen and not hidden, or neither: it can be
\* out of reach yet not hidden, and then deaf to every request to show it,
\* only if an animation was cut and none has finished since.
BarIsWhole == AtRest => (inside = ~ hidden) \/ cut

\* At rest the bar is as the last request wanted it, however the requests
\* and animations overlapped, unless a request came while the bar was on
\* its way the other way, or an animation was cut.
BarAsWanted == AtRest => hidden = ~ wanted \/ dropped \/ cut

\* When a level page is left with the bar hidden, the bar comes back, or a
\* request to hide it comes, or something is dropped or cut.
BarComesBack ==
    (page # "level" /\ moving /\ AtRest /\ hidden /\ ~ inside)
        ~> (page = "level" \/ (wanted /\ ~ hidden /\ inside) \/ dropped \/ cut \/ pulled)

\* At rest the bar is one thing, and the thing that was asked for last.
BarCoherent ==
    /\ BarTypeOK
    /\ BarIsWhole
    /\ BarAsWanted

=============================================================================
