----------------------------- MODULE DetailsDialog -----------------------------
(***************************************************************************)
(* What happens inside the dialog with the details of one row              *)
(* (DirectoryDetails.js, DirectoriesTableMembers.js and ConnectDetails.js).*)
(*                                                                         *)
(* Copying the URL marks the copy icon and starts a timer of its own that  *)
(* takes the mark away.  The state belongs to the dialog as mounted: when  *)
(* it closes the state is gone, but the timers run on.  Time is counted in *)
(* ticks, and a timer may fire late, as timers of browsers do.             *)
(***************************************************************************)
EXTENDS Naturals, Sequences, SequencesExt, Widgets

CONSTANTS
    Rows,
    NoRow,          \* the dialog is closed
    Members,        \* Members[r]: how many have access to the container of r
    Delay,          \* three seconds, in ticks
    MaxTimers       \* bound on the timers running

\* What the constants have to be.
Parameters ==
    /\ NoRow \notin Rows
    /\ Members \in [Rows -> Nat]
    /\ Delay \in Nat \ {0}
    /\ MaxTimers \in Nat \ {0}

VARIABLES
    details,    \* the row shown
    copied,     \* the mark on the copy icon
    popover,    \* the names of a long list of members, on hovering over it
    value,      \* the tab of the connection instructions
    timers,     \* oldest first: of the dialog shown (mine) or of one gone by,
                \* ticks left, did it start with no other of this dialog running (alone)?
    clipboard   \* the row whose URL the last copy wrote, NoRow if it was refused

\* No action depends on the field alone.
vars == <<details, copied, popover, value, timers, clipboard>>

Tabs == 0..2
Timers == [mine : BOOLEAN, left : 0..Delay, alone : BOOLEAN]

TypeOK ==
    /\ details \in Rows \cup {NoRow}
    /\ copied \in BOOLEAN
    /\ popover \in BOOLEAN
    /\ value \in Tabs
    /\ timers \in Seq(Timers) /\ Len(timers) <= MaxTimers
    /\ clipboard \in Rows \cup {NoRow}

Init ==
    /\ details = NoRow
    /\ copied = FALSE
    /\ popover = FALSE
    /\ value = 0
    /\ timers = <<>>
    /\ clipboard = NoRow

-----------------------------------------------------------------------------

\* The dialog is mounted: the hooks have their first values.
Opened(r) ==
    /\ details = NoRow
    /\ details' = r
    /\ UNCHANGED <<copied, popover, value, timers, clipboard>>

\* A mistake: the mark is kept outside the dialog and outlives it.
ClosedKeepingMark ==
    /\ details # NoRow
    /\ details' = NoRow
    /\ popover' = FALSE
    /\ value' = 0
    /\ UNCHANGED <<copied, timers, clipboard>>

\* The dialog is unmounted.  Nothing clears its timers.
Closed ==
    /\ details # NoRow
    /\ details' = NoRow
    /\ copied' = FALSE
    /\ popover' = FALSE
    /\ value' = 0
    /\ timers' = [i \in DOMAIN timers |-> [timers[i] EXCEPT !.mine = FALSE]]
    /\ UNCHANGED clipboard

\* The mark does not wait for the clipboard, which may refuse (w is FALSE).
handleCopyUrl(w) ==
    /\ details # NoRow
    /\ Len(timers) < MaxTimers
    /\ clipboard' = IF w THEN details ELSE NoRow
    /\ copied' = TRUE
    /\ timers' = Append(timers, [mine |-> TRUE, left |-> Delay,
                                 alone |-> \A i \in DOMAIN timers : ~timers[i].mine])
    /\ UNCHANGED <<details, popover, value>>

\* A mistake: the timer goes, the mark stays.
unsetCopiedTimer(i) ==
    /\ i \in DOMAIN timers
    /\ timers[i].left = 0
    /\ timers' = RemoveAt(timers, i)
    /\ UNCHANGED <<details, copied, popover, value, clipboard>>

\* A mistake: a timer takes away the mark of whatever dialog is shown.
unsetCopiedAny(i) ==
    /\ i \in DOMAIN timers
    /\ timers[i].left = 0
    /\ timers' = RemoveAt(timers, i)
    /\ copied' = FALSE
    /\ UNCHANGED <<details, popover, value, clipboard>>

\* Timer i fires and is cleared; the mark of its own dialog goes.
unsetCopied(i) ==
    /\ i \in DOMAIN timers
    /\ timers[i].left = 0
    /\ timers' = RemoveAt(timers, i)
    /\ copied' = (copied /\ ~timers[i].mine)
    /\ UNCHANGED <<details, popover, value, clipboard>>

Tick ==
    /\ \E i \in DOMAIN timers : timers[i].left > 0
    /\ timers' = [i \in DOMAIN timers |->
                    [timers[i] EXCEPT !.left = IF @ = 0 THEN 0 ELSE @ - 1]]
    /\ UNCHANGED <<details, copied, popover, value, clipboard>>

\* Only a list that is collapsed has names to open.
handlePopoverOpen ==
    /\ details # NoRow /\ ~popover
    /\ Collapsed(Members[details])
    /\ popover' = TRUE
    /\ UNCHANGED <<details, copied, value, timers, clipboard>>

handlePopoverClose ==
    /\ popover
    /\ popover' = FALSE
    /\ UNCHANGED <<details, copied, value, timers, clipboard>>

\* Another tab of the connection instructions.
handleChange(newValue) ==
    /\ details # NoRow
    /\ value # newValue
    /\ value' = newValue
    /\ UNCHANGED <<details, copied, popover, timers, clipboard>>

-----------------------------------------------------------------------------

\* What the dialog does while it stays as it is.
Inside ==
    \/ \E w \in BOOLEAN : handleCopyUrl(w)
    \/ \E i \in 1..MaxTimers : unsetCopied(i)
    \/ Tick
    \/ handlePopoverOpen \/ handlePopoverClose
    \/ \E v \in Tabs : handleChange(v)

Next == Inside \/ Closed \/ \E r \in Rows : Opened(r)

Spec == Init /\ [][Next]_vars

\* Timers of a browser fire in the end.
TimersFire == WF_vars(Tick) /\ WF_vars(\E i \in 1..MaxTimers : unsetCopied(i))

FairSpec == Spec /\ TimersFire

-----------------------------------------------------------------------------
(* Properties. *)

\* The mark is about the row on display, whatever was copied from the dialogs
\* before, unless the clipboard refused.  DirectoryDetails.js:28-30.
MarkTellsTruth == copied => clipboard \in {details, NoRow}

\* DirectoryDetails.js:29 "Change the icon for three seconds to provide visual
\* feedback": so it is for a copy that was made with no earlier one's timer
\* running, in spite of the timers left over from dialogs closed since.
MarkStays ==
    \A i \in DOMAIN timers :
        timers[i].mine /\ timers[i].alone /\ timers[i].left > 0 => copied

\* The mark goes, however often the URL is copied.
MarkEnds == copied ~> ~copied

-----------------------------------------------------------------------------
(* Why. *)

\* There is no mark without a dialog.
MarkOfDialog == copied => details # NoRow

\* A timer started alone fires before every other of the same dialog, or with it.
AloneIsFirst ==
    \A i, j \in DOMAIN timers :
        timers[i].mine /\ timers[i].alone /\ timers[j].mine => timers[i].left <= timers[j].left

IInv ==
    /\ TypeOK
    /\ MarkOfDialog
    /\ MarkTellsTruth
    /\ AloneIsFirst
    /\ MarkStays
=============================================================================
