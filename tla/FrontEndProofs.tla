---------------------------- MODULE FrontEndProofs ----------------------------
(***************************************************************************)
(* What holds of the front end for all accounts, members and settings, any *)
(* number of requests in flight and of timers running: the page keeps its  *)
(* promises in the company of the dialog, of the other components and of   *)
(* logging in and out; the marks of the dialog tell the truth; the landing *)
(* page stops asking, and what it shows of a server as it is now is true.  *)
(* Page and dialog move only as they do alone, and a user the application  *)
(* knows is not forgotten.                                                 *)
(***************************************************************************)
EXTENDS FrontEnd, FileSystemsPageProofs

-----------------------------------------------------------------------------
(* The dialog. *)

LEMMA DialogConstants ==
    /\ NoRow \notin Accounts
    /\ Members \in [Accounts -> Nat]
    /\ Delay \in Nat \ {0}
    /\ MaxTimers \in Nat \ {0}
  BY FrontEndAssumption DEF Dialog!Parameters

\* What is left when an element is removed was there before.
LEMMA RemoveAtElements ==
    ASSUME NEW S, NEW s \in Seq(S), NEW i \in DOMAIN s, NEW k \in DOMAIN RemoveAt(s, i)
    PROVE  \E k0 \in DOMAIN s : RemoveAt(s, i)[k] = s[k0]
  <1> DEFINE front == SubSeq(s, 1, i - 1)
             back == SubSeq(s, i + 1, Len(s))
  <1>1. RemoveAt(s, i) = front \o back
    BY DEF RemoveAt
  <1>2. front \in Seq(S) /\ Len(front) = i - 1 /\ \A j \in 1..(i - 1) : front[j] = s[j]
    OBVIOUS
  <1>3. back \in Seq(S) /\ Len(back) = Len(s) - i /\ \A j \in 1..(Len(s) - i) : back[j] = s[i + j]
    OBVIOUS
  <1>4. i \in 1..Len(s) /\ Len(s) \in Nat
    OBVIOUS
  <1> HIDE DEF front, back
  <1>5. k \in 1..(Len(s) - 1)
    BY <1>1, <1>2, <1>3, <1>4
  <1>6. CASE k < i
    BY <1>1, <1>2, <1>3, <1>4, <1>5, <1>6
  <1>7. CASE k >= i
    <2>1. (front \o back)[k] = back[k - (i - 1)]
      BY <1>2, <1>3, <1>4, <1>5, <1>7
    <2>2. back[k - (i - 1)] = s[k + 1] /\ k + 1 \in DOMAIN s
      BY <1>3, <1>4, <1>5, <1>7
    <2> QED
      BY <1>1, <2>1, <2>2
  <1> QED
    BY <1>4, <1>5, <1>6, <1>7

LEMMA DialogInit == Dialog!Init => Dialog!IInv
  <1> SUFFICES ASSUME Dialog!Init
               PROVE  Dialog!IInv
    OBVIOUS
  <1> USE DEF Dialog!Init
  <1>1. timers = <<>> /\ Len(timers) <= MaxTimers
    BY DialogConstants
  <1>t. 0 \in Dialog!Tabs
    BY DEF Dialog!Tabs
  <1>s. <<>> \in Seq(Dialog!Timers)
    OBVIOUS
  <1>2. Dialog!TypeOK
    BY <1>1, <1>t, <1>s DEF Dialog!TypeOK
  <1>3. Dialog!AloneIsFirst /\ Dialog!MarkStays
    BY <1>1 DEF Dialog!AloneIsFirst, Dialog!MarkStays
  <1>4. Dialog!MarkOfDialog /\ Dialog!MarkTellsTruth
    BY DEF Dialog!MarkOfDialog, Dialog!MarkTellsTruth
  <1> QED
    BY <1>2, <1>3, <1>4 DEF Dialog!IInv

LEMMA TimerFacts ==
    ASSUME Dialog!TypeOK, NEW k \in DOMAIN timers
    PROVE  /\ timers[k] \in Dialog!Timers
           /\ timers[k].mine \in BOOLEAN /\ timers[k].alone \in BOOLEAN
           /\ timers[k].left \in 0..Delay /\ timers[k].left \in Nat
  <1>1. timers[k] \in Dialog!Timers
    BY DEF Dialog!TypeOK
  <1> QED
    BY <1>1, DialogConstants DEF Dialog!Timers

\* A timer that fires is gone; the mark stays if the timer was another dialog's.
LEMMA DialogUnset ==
    ASSUME Dialog!IInv, NEW i, Dialog!unsetCopied(i)
    PROVE  Dialog!IInv'
  <1> USE DEF Dialog!IInv
  <1>1. /\ i \in DOMAIN timers /\ timers \in Seq(Dialog!Timers) /\ timers[i].left = 0
        /\ timers' = RemoveAt(timers, i)
        /\ UNCHANGED <<details, popover, value, clipboard>>
    BY DEF Dialog!unsetCopied, Dialog!TypeOK, Dialog!RemoveAt, RemoveAt
  <1>c. copied' \in BOOLEAN /\ (copied' <=> copied /\ ~timers[i].mine)
    BY Zenon DEF Dialog!unsetCopied
  <1>2. timers' \in Seq(Dialog!Timers) /\ Len(timers') = Len(timers) - 1
    BY <1>1, RemoveAtFacts
  <1>3. \A k \in DOMAIN timers' : \E k0 \in DOMAIN timers : timers'[k] = timers[k0]
    BY <1>1, RemoveAtElements
  <1>4. Dialog!TypeOK'
    <2>1. Len(timers') <= MaxTimers
      BY <1>1, <1>2, DialogConstants DEF Dialog!TypeOK
    <2> QED
      BY <1>1, <1>c, <1>2, <2>1 DEF Dialog!TypeOK
  <1>5. Dialog!AloneIsFirst'
    BY <1>3 DEF Dialog!AloneIsFirst
  <1>6. Dialog!MarkStays'
    <2> SUFFICES ASSUME NEW k \in DOMAIN timers', timers'[k].mine, timers'[k].alone, timers'[k].left > 0
                 PROVE  copied'
      BY DEF Dialog!MarkStays
    <2>1. PICK k0 \in DOMAIN timers : timers'[k] = timers[k0]
      BY <1>3
    <2>2. copied
      BY <2>1 DEF Dialog!MarkStays
    <2>3. ~timers[i].mine
      <3>1. timers[k0].mine /\ timers[k0].alone /\ timers[k0].left > 0 /\ timers[k0].left \in Nat
        BY <2>1, TimerFacts
      <3> QED
        BY <1>1, <3>1 DEF Dialog!AloneIsFirst
    <2> QED
      BY <1>c, <2>2, <2>3
  <1>7. Dialog!MarkOfDialog' /\ Dialog!MarkTellsTruth'
    BY <1>1, <1>c DEF Dialog!MarkOfDialog, Dialog!MarkTellsTruth
  <1> QED
    BY <1>4, <1>5, <1>6, <1>7

LEMMA DialogTick ==
    ASSUME Dialog!IInv, Dialog!Tick
    PROVE  Dialog!IInv'
  <1> USE DEF Dialog!IInv
  <1>1. /\ timers \in Seq(Dialog!Timers) /\ UNCHANGED <<details, copied, popover, value, clipboard>>
        /\ timers' = [k \in DOMAIN timers |->
                        [timers[k] EXCEPT !.left = IF @ = 0 THEN 0 ELSE @ - 1]]
    BY DEF Dialog!Tick, Dialog!TypeOK
  <1>2. DOMAIN timers' = DOMAIN timers
    BY <1>1
  <1>3. ASSUME NEW k \in DOMAIN timers
        PROVE  /\ timers[k] \in Dialog!Timers /\ timers'[k] \in Dialog!Timers
               /\ timers'[k].mine = timers[k].mine /\ timers'[k].alone = timers[k].alone
               /\ timers'[k].left = IF timers[k].left = 0 THEN 0 ELSE timers[k].left - 1
    <2> DEFINE n == IF timers[k].left = 0 THEN 0 ELSE timers[k].left - 1
    <2>1. timers[k] \in [mine : BOOLEAN, left : 0..Delay, alone : BOOLEAN]
      BY TimerFacts DEF Dialog!Timers
    <2>2. n \in 0..Delay
      BY TimerFacts, DialogConstants
    <2>3. timers'[k] = [timers[k] EXCEPT !.left = n]
      BY <1>1
    <2> HIDE DEF n
    <2>4. /\ [timers[k] EXCEPT !.left = n] \in [mine : BOOLEAN, left : 0..Delay, alone : BOOLEAN]
          /\ [timers[k] EXCEPT !.left = n].mine = timers[k].mine
          /\ [timers[k] EXCEPT !.left = n].alone = timers[k].alone
          /\ [timers[k] EXCEPT !.left = n].left = n
      BY <2>1, <2>2
    <2> QED
      BY <2>1, <2>3, <2>4 DEF Dialog!Timers, n
  <1>4. timers' \in Seq(Dialog!Timers) /\ Len(timers') = Len(timers)
    <2>1. DOMAIN timers' = 1..Len(timers) /\ Len(timers) \in Nat
      BY <1>1
    <2> QED
      BY <1>1, <1>2, <1>3, <2>1
  <1>5. Dialog!TypeOK'
    BY <1>1, <1>4 DEF Dialog!TypeOK
  <1>6. Dialog!AloneIsFirst'
    BY <1>2, <1>3, TimerFacts DEF Dialog!AloneIsFirst
  <1>7. Dialog!MarkStays'
    <2> SUFFICES ASSUME NEW k \in DOMAIN timers, timers'[k].mine, timers'[k].alone, timers'[k].left > 0
                 PROVE  copied
      BY <1>1, <1>2 DEF Dialog!MarkStays
    <2>1. timers[k].mine /\ timers[k].alone /\ timers[k].left > 0
      BY <1>3, TimerFacts
    <2> QED
      BY <2>1 DEF Dialog!MarkStays
  <1>8. Dialog!MarkOfDialog' /\ Dialog!MarkTellsTruth'
    BY <1>1 DEF Dialog!MarkOfDialog, Dialog!MarkTellsTruth
  <1> QED
    BY <1>5, <1>6, <1>7, <1>8

\* The new timer has the longest time to go.
LEMMA DialogCopy ==
    ASSUME Dialog!IInv, NEW w \in BOOLEAN, Dialog!handleCopyUrl(w)
    PROVE  Dialog!IInv'
  <1> USE DEF Dialog!IInv
  <1> DEFINE new == [mine |-> TRUE, left |-> Delay,
                     alone |-> \A i \in DOMAIN timers : ~timers[i].mine]
  <1>1. /\ timers \in Seq(Dialog!Timers) /\ timers' = Append(timers, new)
        /\ details # NoRow /\ details \in Accounts /\ Len(timers) < MaxTimers
        /\ clipboard' = (IF w THEN details ELSE NoRow) /\ copied' = TRUE
        /\ UNCHANGED <<details, popover, value>>
    BY DEF Dialog!handleCopyUrl, Dialog!TypeOK
  <1>2. new \in Dialog!Timers
    BY DialogConstants DEF Dialog!Timers
  <1>3. Dialog!TypeOK'
    <2>1. timers' \in Seq(Dialog!Timers) /\ Len(timers') <= MaxTimers
      BY <1>1, <1>2, DialogConstants
    <2> QED
      BY <1>1, <2>1 DEF Dialog!TypeOK
  <1>4. /\ new.mine /\ new.left = Delay
        /\ new.alone => \A k \in DOMAIN timers : ~timers[k].mine
    OBVIOUS
  <1> HIDE DEF new
  <1>5. \A k \in DOMAIN timers' : (k \in DOMAIN timers /\ timers'[k] = timers[k]) \/ timers'[k] = new
    BY <1>1, <1>2
  <1>6. \A k \in DOMAIN timers : timers[k].left \in 0..Delay
    BY TimerFacts
  <1>7. Dialog!AloneIsFirst'
    BY <1>4, <1>5, <1>6, TimerFacts, DialogConstants DEF Dialog!AloneIsFirst
  <1>8. Dialog!MarkStays' /\ Dialog!MarkOfDialog' /\ Dialog!MarkTellsTruth'
    BY <1>1 DEF Dialog!MarkStays, Dialog!MarkOfDialog, Dialog!MarkTellsTruth
  <1> QED
    BY <1>3, <1>7, <1>8

LEMMA DialogInside == Dialog!IInv /\ Dialog!Inside => Dialog!IInv'
  <1> SUFFICES ASSUME Dialog!IInv, Dialog!Inside
               PROVE  Dialog!IInv'
    OBVIOUS
  <1> USE DEF Dialog!TypeOK, Dialog!MarkOfDialog, Dialog!MarkTellsTruth,
              Dialog!AloneIsFirst, Dialog!MarkStays
  <1>1. CASE Dialog!handlePopoverOpen
    BY <1>1 DEF Dialog!handlePopoverOpen, Dialog!IInv
  <1>2. CASE Dialog!handlePopoverClose
    BY <1>2 DEF Dialog!handlePopoverClose, Dialog!IInv
  <1>3. ASSUME NEW v \in Dialog!Tabs, Dialog!handleChange(v)
        PROVE  Dialog!IInv'
    BY <1>3 DEF Dialog!handleChange, Dialog!IInv
  <1>4. ASSUME NEW w \in BOOLEAN, Dialog!handleCopyUrl(w)
        PROVE  Dialog!IInv'
    BY <1>4, DialogCopy
  <1>5. ASSUME NEW i \in 1..MaxTimers, Dialog!unsetCopied(i)
        PROVE  Dialog!IInv'
    BY <1>5, DialogUnset
  <1> QED
    BY <1>1, <1>2, <1>3, <1>4, <1>5, DialogTick DEF Dialog!Inside

LEMMA DialogOpened ==
    ASSUME Dialog!IInv, NEW r \in Accounts, Dialog!Opened(r)
    PROVE  Dialog!IInv'
  BY DialogConstants
     DEF Dialog!Opened, Dialog!IInv, Dialog!TypeOK, Dialog!MarkOfDialog, Dialog!MarkTellsTruth,
         Dialog!AloneIsFirst, Dialog!MarkStays

\* The timers of a dialog that is closed are nobody's.
LEMMA DialogClosed ==
    ASSUME Dialog!IInv, Dialog!Closed
    PROVE  Dialog!IInv'
  <1> USE DEF Dialog!IInv
  <1>1. /\ timers \in Seq(Dialog!Timers)
        /\ timers' = [k \in DOMAIN timers |-> [timers[k] EXCEPT !.mine = FALSE]]
        /\ details' = NoRow /\ copied' = FALSE /\ popover' = FALSE /\ value' = 0
        /\ UNCHANGED clipboard
    BY DEF Dialog!Closed, Dialog!TypeOK
  <1>2. DOMAIN timers' = DOMAIN timers
    BY <1>1
  <1>3. ASSUME NEW k \in DOMAIN timers
        PROVE  timers'[k] \in Dialog!Timers /\ timers'[k].mine = FALSE
    <2>1. timers[k] \in Dialog!Timers
      BY <1>1
    <2> QED
      BY <1>1, <2>1 DEF Dialog!Timers
  <1>4. timers' \in Seq(Dialog!Timers) /\ Len(timers') = Len(timers)
    <2>1. DOMAIN timers' = 1..Len(timers) /\ Len(timers) \in Nat
      BY <1>1
    <2>2. timers' = [k \in 1..Len(timers) |-> timers'[k]]
      BY <1>1, <2>1
    <2>3. \A k \in 1..Len(timers) : timers'[k] \in Dialog!Timers
      <3>1. DOMAIN timers = 1..Len(timers)
        BY <1>1
      <3> QED
        BY <1>3, <3>1
    <2> QED
      BY <2>1, <2>2, <2>3
  <1>5. Dialog!TypeOK'
    <2>1. Len(timers') <= MaxTimers
      BY <1>4 DEF Dialog!TypeOK
    <2>2. /\ details' = NoRow /\ copied' = FALSE /\ popover' = FALSE /\ value' = 0
          /\ clipboard' \in Accounts \cup {NoRow}
      BY <1>1 DEF Dialog!TypeOK
    <2>3. 0 \in Dialog!Tabs
      BY DEF Dialog!Tabs
    <2> QED
      BY <1>4, <2>1, <2>2, <2>3 DEF Dialog!TypeOK
  <1>6. Dialog!AloneIsFirst' /\ Dialog!MarkStays'
    BY <1>2, <1>3 DEF Dialog!AloneIsFirst, Dialog!MarkStays
  <1>7. Dialog!MarkOfDialog' /\ Dialog!MarkTellsTruth'
    BY <1>1 DEF Dialog!MarkOfDialog, Dialog!MarkTellsTruth
  <1> QED
    BY <1>5, <1>6, <1>7
-----------------------------------------------------------------------------
(* The front end. *)

LEMMA ValidateFacts ==
    ASSUME NEW S \in SUBSET Settings
    PROVE  /\ Validate(S) \in SUBSET Settings
           /\ S \ {"STORAGE_FRIENDLY_TAG_NAME"} \subseteq Validate(S)
           /\ S = {} => Validate(S) = {}
  BY DEF Validate, Settings

\* What belongs to the header and the landing page.
AuthOK ==
    /\ auth \in [Hooks -> {"unmounted", "asked", "user", "none"}]
    /\ auth["FileSystemsPage"] = "unmounted" <=> auth["App"] # "user"
    /\ list # "unasked" => auth["FileSystemsPage"] = "user"

StatusOK ==
    /\ auth["App"] = "user" => answers = {}
    /\ missing \in SUBSET Settings
    /\ serverStatus \in SUBSET Settings
    /\ answers \in SUBSET SUBSET Settings
    /\ fresh \in BOOLEAN
    /\ asked \in 0..MaxAsked

Around == AuthOK /\ StatusOK

LEMMA FrontEndParts == FrontEndIInv <=> IInv /\ Dialog!IInv /\ Around /\ MissingAreNamed /\ SettlesDown
  BY DEF FrontEndIInv, FrontEndTypeOK, Around, AuthOK, StatusOK, Dialog!IInv, IInv

\* A site that was just loaded.
JustLoaded ==
    /\ auth = [h \in Hooks |-> IF h = "FileSystemsPage" THEN "unmounted" ELSE "asked"]
    /\ missing \in MissingSettings /\ serverStatus = {} /\ answers = {Validate(missing)}
    /\ fresh = FALSE /\ asked = 1 /\ list = "unasked"

LEMMA Loaded == JustLoaded => Around /\ MissingAreNamed /\ SettlesDown
  <1> SUFFICES ASSUME JustLoaded
               PROVE  Around /\ MissingAreNamed /\ SettlesDown
    OBVIOUS
  <1> USE DEF JustLoaded
  <1>1. missing \in SUBSET Settings
    BY FrontEndAssumption
  <1>2. Validate(missing) \in SUBSET Settings
    BY <1>1, ValidateFacts
  <1>a. /\ auth \in [Hooks -> {"unmounted", "asked", "user", "none"}]
        /\ auth["FileSystemsPage"] = "unmounted" /\ auth["App"] = "asked"
    BY DEF Hooks
  <1>3. Around
    <2>1. AuthOK
      BY <1>a DEF AuthOK
    <2>2. 1 \in 0..MaxAsked /\ {Validate(missing)} \in SUBSET SUBSET Settings
      BY <1>2 DEF MaxAsked
    <2>3. StatusOK
      BY <1>1, <1>a, <2>2 DEF StatusOK
    <2> QED
      BY <2>1, <2>3 DEF Around
  <1> QED
    BY <1>3 DEF MissingAreNamed, SettlesDown

LEMMA FrontEndInitIInv == FrontEndInit => FrontEndIInv
  <1> SUFFICES ASSUME FrontEndInit
               PROVE  FrontEndIInv
    OBVIOUS
  <1>1. IInv /\ Dialog!IInv
    BY InitIInv, DialogInit DEF FrontEndInit
  <1>2. Around /\ MissingAreNamed /\ SettlesDown
    BY Loaded DEF FrontEndInit, Init, JustLoaded
  <1> QED
    BY <1>1, <1>2, FrontEndParts

LEMMA LoadIInv == Load => FrontEndIInv'
  <1> SUFFICES ASSUME Load
               PROVE  FrontEndIInv'
    OBVIOUS
  <1>1. Init' /\ Dialog!Init'
    BY DEF Load, Init, Dialog!Init
  <1>2. IInv' /\ Dialog!IInv'
    BY <1>1, InitIInv, DialogInit, PTL
  <1>j. JustLoaded'
    BY DEF Load, JustLoaded
  <1>3. Around' /\ MissingAreNamed' /\ SettlesDown'
    BY <1>j, Loaded, PTL
  <1>4. FrontEndIInv' <=> IInv' /\ Dialog!IInv' /\ Around' /\ MissingAreNamed' /\ SettlesDown'
    BY FrontEndParts, PTL
  <1> QED
    BY <1>2, <1>3, <1>4

LEMMA FrontEndStep == FrontEndIInv /\ [FrontEndNext]_allVars => FrontEndIInv'
  <1> SUFFICES ASSUME FrontEndIInv, [FrontEndNext]_allVars
               PROVE  FrontEndIInv'
    OBVIOUS
  <1>0. IInv /\ Dialog!IInv /\ Around /\ MissingAreNamed /\ SettlesDown
    BY FrontEndParts
  <1> USE <1>0
  <1>s. SUFFICES \/ IInv' /\ Dialog!IInv' /\ Around' /\ MissingAreNamed' /\ SettlesDown'
                \/ FrontEndIInv'
    <2>1. FrontEndIInv' <=> IInv' /\ Dialog!IInv' /\ Around' /\ MissingAreNamed' /\ SettlesDown'
      BY FrontEndParts, PTL
    <2> QED
      BY <2>1
  <1>p. (Next \/ UNCHANGED page) => IInv'
    BY StepIInv DEF page, vars
  <1>d. UNCHANGED <<details, inside>> => Dialog!IInv'
    BY DEF inside, Dialog!IInv, Dialog!TypeOK, Dialog!MarkOfDialog, Dialog!MarkTellsTruth,
           Dialog!AloneIsFirst, Dialog!MarkStays
  <1>l. UNCHANGED landing => MissingAreNamed' /\ SettlesDown'
    BY DEF landing, MissingAreNamed, SettlesDown, Validate
  <1>1. ASSUME NEW h \in Hooks, Unknown(h)
        PROVE  IInv' /\ Dialog!IInv' /\ Around' /\ MissingAreNamed' /\ SettlesDown'
    <2>1. UNCHANGED <<page, landing, inside>> /\ UNCHANGED <<details, list>>
      BY <1>1 DEF Unknown, page
    <2>2. Around'
      BY <1>1, <2>1 DEF Unknown, Around, AuthOK, StatusOK, landing
    <2> QED
      BY <2>1, <2>2, <1>p, <1>d, <1>l
  <1>2. ASSUME HeaderKnows
        PROVE  IInv' /\ Dialog!IInv' /\ Around' /\ MissingAreNamed' /\ SettlesDown'
    <2>1. UNCHANGED <<page, landing, inside>> /\ UNCHANGED <<details, list>>
      BY <1>2 DEF HeaderKnows, page
    <2>2. Around'
      <3>1. AuthOK' /\ auth'["App"] = auth["App"]
        BY <1>2, <2>1 DEF HeaderKnows, Around, AuthOK, Hooks
      <3>2. StatusOK'
        BY <2>1, <3>1 DEF landing, Around, StatusOK
      <3> QED
        BY <3>1, <3>2 DEF Around
    <2> QED
      BY <2>1, <2>2, <1>p, <1>d, <1>l
  <1>3. ASSUME AppKnows
        PROVE  IInv' /\ Dialog!IInv' /\ Around' /\ MissingAreNamed' /\ SettlesDown'
    <2>1. UNCHANGED <<page, inside>> /\ UNCHANGED <<details, list>>
      BY <1>3 DEF AppKnows, page
    <2>2. Around'
      <3>1. AuthOK'
        BY <1>3, <2>1 DEF AppKnows, Around, AuthOK, Hooks
      <3>2. 0 \in 0..MaxAsked
        BY DEF MaxAsked
      <3>3. StatusOK'
        BY <1>3, <3>2 DEF AppKnows, StatusOK
      <3> QED
        BY <3>1, <3>3 DEF Around
    <2>3. MissingAreNamed' /\ SettlesDown'
      BY <1>3 DEF AppKnows, MissingAreNamed, SettlesDown
    <2> QED
      BY <2>1, <2>2, <2>3, <1>p, <1>d
  <1>4. ASSUME PageKnows
        PROVE  IInv' /\ Dialog!IInv' /\ Around' /\ MissingAreNamed' /\ SettlesDown'
    <2>1. Next /\ UNCHANGED <<landing, inside>> /\ UNCHANGED details
      BY <1>4 DEF PageKnows, Next, Authenticated, dialog
    <2>2. Around'
      <3>1. AuthOK'
        BY <1>4, <2>1 DEF PageKnows, Around, AuthOK, Hooks
      <3>2. auth'["App"] = auth["App"]
        BY <1>4 DEF PageKnows, Around, AuthOK, Hooks
      <3>3. StatusOK'
        BY <2>1, <3>2 DEF landing, Around, StatusOK
      <3> QED
        BY <3>1, <3>3 DEF Around
    <2> QED
      BY <2>1, <2>2, <1>p, <1>d, <1>l
  <1>5. ASSUME NEW S \in MissingSettings, Restart(S)
        PROVE  IInv' /\ Dialog!IInv' /\ Around' /\ MissingAreNamed' /\ SettlesDown'
    <2>1. UNCHANGED <<page, auth, serverStatus, inside>> /\ UNCHANGED <<details, list>>
      BY <1>5 DEF Restart, page
    <2>2. S \in SUBSET Settings /\ Validate(S) \in SUBSET Settings
      BY FrontEndAssumption, ValidateFacts
    <2>3. Around'
      <3>1. AuthOK'
        BY <2>1 DEF Around, AuthOK
      <3>2. 0 \in 0..MaxAsked /\ answers' \in SUBSET SUBSET Settings
        BY <1>5, <2>2 DEF Restart, Around, StatusOK, MaxAsked
      <3>3. StatusOK'
        BY <1>5, <2>1, <2>2, <3>2 DEF Restart, Around, StatusOK
      <3> QED
        BY <3>1, <3>3 DEF Around
    <2>4. MissingAreNamed' /\ SettlesDown'
      BY <1>5 DEF Restart, MissingAreNamed, SettlesDown
    <2> QED
      BY <2>1, <2>3, <2>4, <1>p, <1>d
  <1>6. ASSUME NEW message \in answers, StatusLoaded(message)
        PROVE  IInv' /\ Dialog!IInv' /\ Around' /\ MissingAreNamed' /\ SettlesDown'
    <2>1. UNCHANGED <<page, auth, missing, inside>> /\ UNCHANGED <<details, list>>
      BY <1>6 DEF StatusLoaded, Answered, page
    <2>2. missing \in SUBSET Settings /\ Validate(missing) \in SUBSET Settings
      BY ValidateFacts DEF Around, AuthOK, StatusOK
    <2>3. /\ fresh' = (answers = {Validate(missing)}) /\ serverStatus' = message
          /\ IF message = serverStatus THEN answers' = {} /\ asked' = asked
             ELSE /\ answers' = {Validate(missing)}
                  /\ asked' = IF asked < MaxAsked THEN asked + 1 ELSE asked
      BY <1>6 DEF StatusLoaded, Answered, Rendered, NotRendered
    <2>4. answers # {} /\ message \in SUBSET Settings /\ auth["App"] # "user"
      BY DEF Around, AuthOK, StatusOK
    <2>5. Around'
      BY <2>1, <2>2, <2>3, <2>4 DEF Around, AuthOK, StatusOK, MaxAsked
    <2>6. MissingAreNamed'
      <3> SUFFICES ASSUME fresh'
                   PROVE  MissingAreNamed'
        BY DEF MissingAreNamed
      <3>1. answers = {Validate(missing)}
        BY <2>3
      <3>2. serverStatus' = Validate(missing) /\ missing' = missing
        BY <2>1, <2>3, <3>1
      <3>3. /\ missing \ {"STORAGE_FRIENDLY_TAG_NAME"} \subseteq Validate(missing)
            /\ missing = {} => Validate(missing) = {}
        BY <2>2, ValidateFacts
      <3> QED
        BY <3>2, <3>3 DEF MissingAreNamed
    <2>7. SettlesDown'
      BY <2>1, <2>3 DEF SettlesDown, MaxAsked, Around, AuthOK, StatusOK
    <2> QED
      BY <2>1, <2>5, <2>6, <2>7, <1>p, <1>d
  <1>7. ASSUME StatusFails
        PROVE  IInv' /\ Dialog!IInv' /\ Around' /\ MissingAreNamed' /\ SettlesDown'
    <2>1. UNCHANGED <<page, auth, missing, serverStatus, fresh, inside, asked>>
          /\ UNCHANGED <<details, list>> /\ answers' = {}
      BY <1>7 DEF StatusFails, NotRendered, page
    <2>2. Around'
      BY <2>1 DEF Around, AuthOK, StatusOK
    <2>3. MissingAreNamed' /\ SettlesDown'
      BY <2>1 DEF MissingAreNamed, SettlesDown, Validate
    <2> QED
      BY <2>1, <2>2, <2>3, <1>p, <1>d
  <1>8. ASSUME Next, UNCHANGED <<auth, landing>>, list # "unasked", Dialog!IInv'
        PROVE  IInv' /\ Dialog!IInv' /\ Around' /\ MissingAreNamed' /\ SettlesDown'
    <2>1. Around'
      BY <1>8 DEF Around, AuthOK, StatusOK, landing
    <2> QED
      BY <1>8, <2>1, <1>p, <1>l
  <1>9. ASSUME Behind, UNCHANGED <<auth, landing, inside>>
        PROVE  IInv' /\ Dialog!IInv' /\ Around' /\ MissingAreNamed' /\ SettlesDown'
    <2>1. Next /\ list # "unasked" /\ UNCHANGED details
      <3>1. CASE AccountsSettle
        BY <3>1 DEF AccountsSettle, AccountsLoaded, NoAccountsLoaded, AccountsFail, Next, dialog
      <3>2. ASSUME NEW i \in 1..MaxRequests, FileSystemsSettle(i)
            PROVE  Next /\ list # "unasked" /\ UNCHANGED details
        <4>1. Settle(i) /\ UNCHANGED details
          BY <3>2 DEF FileSystemsSettle, FileSystemsLoaded, FileSystemsFail, populated, dialog
        <4>2. list = "loaded"
          BY <4>1, SettleFacts
        <4> QED
          BY <3>2, <4>1, <4>2 DEF Next
      <3>3. CASE CloseToast
        <4>1. list # "unasked"
          BY <3>3 DEF CloseToast, IInv, NothingBeforeAccounts
        <4> QED
          BY <3>3, <4>1 DEF CloseToast, Next, dialog
      <3> QED
        BY <1>9, <3>1, <3>2, <3>3 DEF Behind
    <2> QED
      BY <1>8, <1>9, <2>1, <1>d
  <1>10. ASSUME NEW a \in Accounts, Choose(a), UNCHANGED <<auth, landing, inside>>
         PROVE  IInv' /\ Dialog!IInv' /\ Around' /\ MissingAreNamed' /\ SettlesDown'
    <2>1. Next /\ UNCHANGED details /\ storageAccounts # {}
      BY <1>10 DEF Choose, Next, dialog, Picks
    <2>2. list # "unasked"
      BY <2>1 DEF IInv, NothingBeforeAccounts
    <2> QED
      BY <1>8, <1>10, <2>1, <2>2, <1>d
  <1>11. ASSUME OpenDetails, UNCHANGED <<auth, landing>>
         PROVE  IInv' /\ Dialog!IInv' /\ Around' /\ MissingAreNamed' /\ SettlesDown'
    <2>1. Next /\ Dialog!Opened(fileSystems.account)
      BY <1>11 DEF OpenDetails, Next
    <2>2. fileSystems # NoTable
      BY <1>11 DEF OpenDetails, onDetails
    <2>3. fileSystems.account \in Accounts /\ list # "unasked"
      BY <2>2 DEF IInv, TypeOK, Tables, NothingBeforeAccounts
    <2>4. Dialog!IInv'
      BY <2>1, <2>3, DialogOpened
    <2> QED
      BY <1>8, <1>11, <2>1, <2>3, <2>4
  <1>12. ASSUME CloseDetails, UNCHANGED <<auth, landing>>
         PROVE  IInv' /\ Dialog!IInv' /\ Around' /\ MissingAreNamed' /\ SettlesDown'
    <2>1. Next /\ Dialog!Closed /\ details # NoRow
      BY <1>12 DEF CloseDetails, handleCancelDetails, Next
    <2>2. list # "unasked"
      BY <2>1 DEF IInv, QuietBehindDetails
    <2> QED
      BY <1>8, <1>12, <2>1, <2>2, DialogClosed
  <1>13. ASSUME Dialog!Inside, UNCHANGED <<page, auth, landing>>
         PROVE  IInv' /\ Dialog!IInv' /\ Around' /\ MissingAreNamed' /\ SettlesDown'
    <2>1. Around'
      BY <1>13 DEF Around, AuthOK, StatusOK, landing, page
    <2> QED
      BY <1>13, <2>1, <1>p, <1>l, DialogInside
  <1>14. ASSUME UNCHANGED allVars
         PROVE  IInv' /\ Dialog!IInv' /\ Around' /\ MissingAreNamed' /\ SettlesDown'
    <2>1. UNCHANGED <<page, auth, landing, inside>> /\ UNCHANGED <<details, list>>
      BY <1>14 DEF allVars, page
    <2>2. Around'
      BY <2>1 DEF Around, AuthOK, StatusOK, landing
    <2> QED
      BY <2>1, <2>2, <1>p, <1>d, <1>l
  <1>15. ASSUME LogIn \/ LogOut
         PROVE  FrontEndIInv'
    BY <1>15, LoadIInv DEF LogIn, LogOut
  <1>16. ASSUME StatusSettles
         PROVE  IInv' /\ Dialog!IInv' /\ Around' /\ MissingAreNamed' /\ SettlesDown'
    BY <1>6, <1>7, <1>16 DEF StatusSettles
  <1>17. ASSUME NEW h \in Hooks, HookSettles(h)
         PROVE  IInv' /\ Dialog!IInv' /\ Around' /\ MissingAreNamed' /\ SettlesDown'
    BY <1>1, <1>2, <1>3, <1>4, <1>17 DEF HookSettles
  <1> QED
    BY <1>5, <1>9, <1>10, <1>11, <1>12, <1>13, <1>14, <1>15, <1>16, <1>17 DEF FrontEndNext
-----------------------------------------------------------------------------

THEOREM FrontEndInvariant == FrontEndSpec => []FrontEndIInv
  BY FrontEndInitIInv, FrontEndStep, PTL DEF FrontEndSpec

\* The parts of the front end are well formed together: the page is mounted
\* exactly while the application knows the user, and no status is under way then.
THEOREM FrontEndTypeCorrect == FrontEndSpec => []FrontEndTypeOK
  <1>1. FrontEndIInv => FrontEndTypeOK
    BY DEF FrontEndIInv
  <1> QED
    BY <1>1, FrontEndInvariant, PTL

\* The page keeps its promises also when users log in and out, and behind the
\* dialog.
THEOREM PageInFrontEnd ==
    FrontEndSpec => [](InOrderTableIsSelected /\ SpinnerlessTableExplained /\ ToastAgrees /\ DetailsOfTable)
  <1>1. IInv => InOrderTableIsSelected /\ SpinnerlessTableExplained /\ ToastAgrees /\ DetailsOfTable
    BY Explained DEF IInv, NewestIsSelected, InOrderTableIsSelected, SettledTableIsSelected
  <1> QED
    BY <1>1, FrontEndInvariant, PTL DEF FrontEndIInv

\* The copy mark is about the row on display, for any number of timers, also of
\* dialogs closed since.
THEOREM MarksAreTrue == FrontEndSpec => []MarkTellsTruth
  <1>1. FrontEndIInv => MarkTellsTruth
    BY DEF FrontEndIInv, Dialog!IInv, MarkTellsTruth
  <1> QED
    BY <1>1, FrontEndInvariant, PTL

\* The mark of a copy that was made alone stays for as long as its timer runs.
THEOREM MarksStay == FrontEndSpec => []MarkStays
  <1>1. FrontEndIInv => MarkStays
    BY DEF FrontEndIInv, Dialog!IInv, MarkStays
  <1> QED
    BY <1>1, FrontEndInvariant, PTL

\* What the landing page says of the server as it is now names every setting
\* missing but that of the tag, whatever the server lacked before.
THEOREM StatusIsTrue == FrontEndSpec => []MissingAreNamed
  <1>1. FrontEndIInv => MissingAreNamed
    BY DEF FrontEndIInv
  <1> QED
    BY <1>1, FrontEndInvariant, PTL

\* The landing page does not ask for ever.
THEOREM AskingIsBounded == FrontEndSpec => []AskingEnds
  <1>1. FrontEndIInv => AskingEnds
    BY DEF FrontEndIInv, SettlesDown, AskingEnds
  <1> QED
    BY <1>1, FrontEndInvariant, PTL
-----------------------------------------------------------------------------
(* The parts on their own: nothing moves the page or the dialog but their own *)
(* actions and a reload.                                                      *)

LEMMA PageMoves == FrontEndIInv /\ [FrontEndNext]_allVars => [Next]_vars \/ Init'
  <1> SUFFICES ASSUME FrontEndIInv, [FrontEndNext]_allVars
               PROVE  [Next]_vars \/ Init'
    OBVIOUS
  <1>1. UNCHANGED page => [Next]_vars
    BY DEF page, vars
  <1>2. ASSUME NEW h \in Hooks, HookSettles(h)
        PROVE  [Next]_vars
    <2>1. (Unknown(h) \/ HeaderKnows \/ AppKnows) => UNCHANGED page
      BY DEF Unknown, HeaderKnows, AppKnows
    <2>2. PageKnows => Next
      BY DEF PageKnows, Next
    <2> QED
      BY <1>1, <1>2, <2>1, <2>2 DEF HookSettles
  <1>3. CASE LogIn \/ LogOut
    BY <1>3 DEF LogIn, LogOut, Load, Init
  <1>4. ASSUME NEW S \in MissingSettings, Restart(S)
        PROVE  [Next]_vars
    BY <1>1, <1>4 DEF Restart
  <1>5. CASE StatusSettles
    <2>1. UNCHANGED page
      BY <1>5 DEF StatusSettles, StatusLoaded, StatusFails, Answered
    <2> QED
      BY <1>1, <2>1
  <1>6. CASE Behind \/ \E a \in Accounts : Choose(a)
    BY <1>6 DEF Behind, Next
  <1>7. CASE OpenDetails \/ CloseDetails
    BY <1>7 DEF OpenDetails, CloseDetails, Next
  <1>8. CASE UNCHANGED page
    BY <1>1, <1>8
  <1> QED
    BY <1>2, <1>3, <1>4, <1>5, <1>6, <1>7, <1>8 DEF FrontEndNext, allVars

\* In the front end the page behaves as FileSystemsPage does alone, from the
\* beginning at every load of the site.
THEOREM PageIsItself == FrontEndSpec => Init /\ [][Next \/ Init']_vars
  <1>1. FrontEndInit => Init
    BY DEF FrontEndInit
  <1>2. FrontEndIInv /\ [FrontEndNext]_allVars => [Next \/ Init']_vars
    BY PageMoves
  <1> QED
    BY <1>1, <1>2, FrontEndInvariant, PTL DEF FrontEndSpec

LEMMA BehindKeepsDetails == Behind => UNCHANGED details
  BY DEF Behind, AccountsSettle, AccountsLoaded, NoAccountsLoaded, AccountsFail,
         FileSystemsSettle, FileSystemsLoaded, FileSystemsFail, populated, CloseToast, dialog

LEMMA DialogMoves ==
    FrontEndIInv /\ [FrontEndNext]_allVars => [Dialog!Next]_<<details, inside>> \/ Dialog!Init'
  <1> SUFFICES ASSUME FrontEndIInv, [FrontEndNext]_allVars
               PROVE  [Dialog!Next]_<<details, inside>> \/ Dialog!Init'
    OBVIOUS
  <1>0. fileSystems \in Tables \cup {NoTable}
    BY DEF FrontEndIInv, IInv, TypeOK
  <1>1. ASSUME NEW h \in Hooks, HookSettles(h)
        PROVE  UNCHANGED <<details, inside>>
    BY <1>1 DEF HookSettles, Unknown, HeaderKnows, AppKnows, PageKnows, Authenticated, page, dialog
  <1>2. CASE LogIn \/ LogOut
    BY <1>2 DEF LogIn, LogOut, Load, Dialog!Init
  <1>3. ASSUME NEW S \in MissingSettings, Restart(S)
        PROVE  UNCHANGED <<details, inside>>
    BY <1>3 DEF Restart, page
  <1>4. CASE StatusSettles
    BY <1>4 DEF StatusSettles, StatusLoaded, StatusFails, Answered, page
  <1>5. CASE Behind /\ UNCHANGED <<auth, landing, inside>>
    BY <1>5, BehindKeepsDetails
  <1>6. ASSUME NEW a \in Accounts, Choose(a), UNCHANGED <<auth, landing, inside>>
        PROVE  UNCHANGED <<details, inside>>
    BY <1>6 DEF Choose, dialog
  <1>7. CASE OpenDetails
    <2>1. fileSystems.account \in Accounts /\ Dialog!Opened(fileSystems.account)
      BY <1>0, <1>7 DEF OpenDetails, onDetails, Tables
    <2> QED
      BY <2>1 DEF Dialog!Next
  <1>8. CASE CloseDetails \/ Dialog!Inside
    BY <1>8 DEF CloseDetails, Dialog!Next
  <1>9. CASE UNCHANGED allVars
    BY <1>9 DEF allVars, page
  <1> QED
    BY <1>1, <1>2, <1>3, <1>4, <1>5, <1>6, <1>7, <1>8, <1>9 DEF FrontEndNext

\* And so does the dialog, although both keep track of the row it shows.
THEOREM DialogIsItself ==
    FrontEndSpec => Dialog!Init /\ [][Dialog!Next \/ Dialog!Init']_<<details, inside>>
  <1>1. FrontEndInit => Dialog!Init
    BY DEF FrontEndInit
  <1>2. FrontEndIInv /\ [FrontEndNext]_allVars =>
            [Dialog!Next \/ Dialog!Init']_<<details, inside>>
    BY DialogMoves
  <1> QED
    BY <1>1, <1>2, FrontEndInvariant, PTL DEF FrontEndSpec

-----------------------------------------------------------------------------
(* Nobody waits for nothing. *)

\* The page asks for the accounts as soon as it knows the user.
PageAsks == auth["FileSystemsPage"] = "user" => list # "unasked"

\* A user the application knows sees containers, or they are on their way, or
\* there is a reason why not: what has to hold for UserSeesContainers to be true.
UserIsServed ==
    auth["App"] = "user" =>
        \/ fileSystems # NoTable \/ requests # <<>>
        \/ list = "asked" \/ auth["FileSystemsPage"] = "asked"
        \/ lastFailed \/ list \in {"empty", "failed"} \/ auth["FileSystemsPage"] = "none"

LEMMA AsksInit == FrontEndInit => PageAsks
  BY DEF FrontEndInit, PageAsks, Hooks

LEMMA AsksStep == FrontEndIInv /\ PageAsks /\ [FrontEndNext]_allVars => PageAsks'
  <1> SUFFICES ASSUME FrontEndIInv, PageAsks, [FrontEndNext]_allVars
               PROVE  PageAsks'
    OBVIOUS
  <1> USE DEF PageAsks
  <1>0. auth \in [Hooks -> {"unmounted", "asked", "user", "none"}]
    BY DEF FrontEndIInv, FrontEndTypeOK
  <1>1. UNCHANGED <<page, auth>> => PageAsks'
    BY DEF page
  <1>2. ASSUME NEW h \in Hooks, HookSettles(h)
        PROVE  PageAsks'
    BY <1>0, <1>2 DEF HookSettles, Unknown, HeaderKnows, AppKnows, PageKnows, Authenticated,
                      page, Hooks
  <1>3. CASE LogIn \/ LogOut
    BY <1>3 DEF LogIn, LogOut, Load, Hooks
  <1>4. ASSUME NEW S \in MissingSettings, Restart(S)
        PROVE  PageAsks'
    BY <1>1, <1>4 DEF Restart
  <1>5. CASE StatusSettles
    <2>1. UNCHANGED <<page, auth>>
      BY <1>5 DEF StatusSettles, StatusLoaded, StatusFails, Answered
    <2> QED
      BY <1>1, <2>1
  <1>6. ASSUME Behind \/ (\E a \in Accounts : Choose(a)) \/ OpenDetails \/ CloseDetails,
               UNCHANGED auth
        PROVE  PageAsks'
    <2>1. list' = "unasked" => list = "unasked"
      BY <1>6 DEF Behind, AccountsSettle, AccountsLoaded, NoAccountsLoaded, AccountsFail,
                  FileSystemsSettle, FileSystemsLoaded, FileSystemsFail, populated, CloseToast,
                  Choose, OpenDetails, onDetails, CloseDetails, handleCancelDetails
    <2> QED
      BY <1>6, <2>1
  <1>7. CASE Dialog!Inside /\ UNCHANGED <<page, auth, landing>>
    BY <1>1, <1>7
  <1>8. CASE UNCHANGED allVars
    BY <1>1, <1>8 DEF allVars
  <1> QED
    BY <1>2, <1>3, <1>4, <1>5, <1>6, <1>7, <1>8 DEF FrontEndNext

LEMMA ReasonStep ==
    FrontEndIInv /\ SpinnerHasReason /\ OneIsSelected /\ [FrontEndNext]_allVars =>
        SpinnerHasReason' /\ OneIsSelected'
  <1>1. Init' => SpinnerHasReason' /\ OneIsSelected'
    BY InitReason, PTL
  <1> QED
    BY <1>1, PageMoves, StepReason DEF FrontEndIInv

\* Whatever fails and whoever logs in or out, a user the application knows is
\* never left on an empty page with nothing under way and nothing gone wrong, and
\* the spinner is never left on for nothing.
THEOREM UsersAreServed == FrontEndSpec => [](UserIsServed /\ SpinnerHasReason)
  <1>1. FrontEndInit => SpinnerHasReason /\ OneIsSelected
    BY InitReason DEF FrontEndInit
  <1>2. FrontEndIInv /\ PageAsks /\ SpinnerHasReason /\ OneIsSelected => UserIsServed
    <2> SUFFICES ASSUME FrontEndIInv, PageAsks, ContainersOnTheirWay, auth["App"] = "user"
                 PROVE  UserIsServed
      BY OnTheirWay DEF FrontEndIInv, UserIsServed
    <2>1. auth["FileSystemsPage"] \in {"asked", "user", "none"}
      BY DEF FrontEndIInv, FrontEndTypeOK, Hooks
    <2>2. list \in {"unasked", "asked", "loaded", "empty", "failed"}
      BY DEF FrontEndIInv, IInv, TypeOK
    <2> QED
      BY <2>1, <2>2 DEF UserIsServed, PageAsks, ContainersOnTheirWay
  <1> QED
    BY <1>1, <1>2, AsksInit, AsksStep, ReasonStep, FrontEndInvariant, PTL DEF FrontEndSpec

-----------------------------------------------------------------------------
(* No mark is for ever: what has to hold for MarkEnds to be true. *)

\* A mark has a timer that will take it away.
MarkHasTimer == copied => \E k \in DOMAIN timers : timers[k].mine

LEMMA RemoveAtKeeps ==
    ASSUME NEW S, NEW s \in Seq(S), NEW i \in DOMAIN s, NEW k \in DOMAIN s, k # i
    PROVE  \E k1 \in DOMAIN RemoveAt(s, i) : RemoveAt(s, i)[k1] = s[k]
  <1> DEFINE front == SubSeq(s, 1, i - 1)
             back == SubSeq(s, i + 1, Len(s))
  <1>1. RemoveAt(s, i) = front \o back
    BY DEF RemoveAt
  <1>2. front \in Seq(S) /\ Len(front) = i - 1 /\ \A j \in 1..(i - 1) : front[j] = s[j]
    OBVIOUS
  <1>3. back \in Seq(S) /\ Len(back) = Len(s) - i /\ \A j \in 1..(Len(s) - i) : back[j] = s[i + j]
    OBVIOUS
  <1>4. i \in 1..Len(s) /\ k \in 1..Len(s) /\ Len(s) \in Nat
    OBVIOUS
  <1> HIDE DEF front, back
  <1>5. CASE k < i
    BY <1>1, <1>2, <1>3, <1>4, <1>5
  <1>6. CASE k > i
    <2>1. k - 1 \in 1..Len(front \o back) /\ front \o back \in Seq(S)
      BY <1>2, <1>3, <1>4, <1>6
    <2>2. (front \o back)[k - 1] = back[k - i]
      BY <1>2, <1>3, <1>4, <1>6
    <2>3. back[k - i] = s[k]
      BY <1>3, <1>4, <1>6
    <2> QED
      BY <1>1, <2>1, <2>2, <2>3
  <1> QED
    BY <1>4, <1>5, <1>6

LEMMA TimerStep ==
    Dialog!TypeOK /\ MarkHasTimer /\ [Dialog!Next]_<<details, inside>> => MarkHasTimer'
  <1> SUFFICES ASSUME Dialog!TypeOK, MarkHasTimer, [Dialog!Next]_<<details, inside>>, copied'
               PROVE  \E k \in DOMAIN timers' : timers'[k].mine
    BY DEF MarkHasTimer
  <1>t. timers \in Seq(Dialog!Timers)
    BY DEF Dialog!TypeOK
  <1>1. ASSUME copied, UNCHANGED timers
        PROVE  \E k \in DOMAIN timers' : timers'[k].mine
    BY <1>1 DEF MarkHasTimer
  <1>2. ASSUME NEW w \in BOOLEAN, Dialog!handleCopyUrl(w)
        PROVE  \E k \in DOMAIN timers' : timers'[k].mine
    <2> DEFINE new == [mine |-> TRUE, left |-> Delay,
                       alone |-> \A i \in DOMAIN timers : ~timers[i].mine]
    <2>1. timers' = Append(timers, new) /\ new.mine
      BY <1>2 DEF Dialog!handleCopyUrl
    <2> HIDE DEF new
    <2>2. Len(timers) + 1 \in DOMAIN timers' /\ timers'[Len(timers) + 1] = new
      BY <1>t, <2>1
    <2> QED
      BY <2>1, <2>2
  <1>3. ASSUME NEW i \in 1..MaxTimers, Dialog!unsetCopied(i)
        PROVE  \E k \in DOMAIN timers' : timers'[k].mine
    <2>1. i \in DOMAIN timers /\ timers' = RemoveAt(timers, i)
      BY <1>3 DEF Dialog!unsetCopied, Dialog!RemoveAt, RemoveAt
    <2>2. copied /\ ~timers[i].mine
      BY <1>3, Zenon DEF Dialog!unsetCopied
    <2>3. PICK k \in DOMAIN timers : timers[k].mine
      BY <2>2 DEF MarkHasTimer
    <2>4. \E k1 \in DOMAIN timers' : timers'[k1] = timers[k]
      BY <1>t, <2>1, <2>2, <2>3, RemoveAtKeeps
    <2> QED
      BY <2>3, <2>4
  <1>4. CASE Dialog!Tick
    <2>1. PICK k \in DOMAIN timers : timers[k].mine
      BY <1>4 DEF Dialog!Tick, MarkHasTimer
    <2>2. timers' = [j \in DOMAIN timers |-> [timers[j] EXCEPT !.left = IF @ = 0 THEN 0 ELSE @ - 1]]
      BY <1>4 DEF Dialog!Tick
    <2>3. timers[k] \in Dialog!Timers
      BY <1>t
    <2>4. k \in DOMAIN timers' /\ timers'[k].mine = timers[k].mine
      BY <2>2, <2>3 DEF Dialog!Timers
    <2> QED
      BY <2>1, <2>4
  <1>5. CASE Dialog!handlePopoverOpen \/ Dialog!handlePopoverClose
                \/ \E v \in Dialog!Tabs : Dialog!handleChange(v)
    BY <1>1, <1>5 DEF Dialog!handlePopoverOpen, Dialog!handlePopoverClose, Dialog!handleChange
  <1>6. CASE Dialog!Closed
    BY <1>6 DEF Dialog!Closed
  <1>7. CASE \E r \in Accounts : Dialog!Opened(r)
    BY <1>1, <1>7 DEF Dialog!Opened
  <1>8. CASE UNCHANGED <<details, inside>>
    BY <1>1, <1>8 DEF inside
  <1> QED
    BY <1>2, <1>3, <1>4, <1>5, <1>6, <1>7, <1>8 DEF Dialog!Next, Dialog!Inside

\* Every mark has a timer of its own dialog running, for any number of copies and
\* of dialogs closed before.
THEOREM MarksHaveTimers == FrontEndSpec => []MarkHasTimer
  <1>1. Dialog!Init => MarkHasTimer
    BY DEF Dialog!Init, MarkHasTimer
  <1>2. FrontEndIInv /\ MarkHasTimer /\ [FrontEndNext]_allVars => MarkHasTimer'
    <2>1. Dialog!Init' => MarkHasTimer'
      BY <1>1, PTL
    <2> QED
      BY <2>1, DialogMoves, TimerStep DEF FrontEndIInv, Dialog!IInv
  <1> QED
    BY <1>1, <1>2, FrontEndInvariant, PTL DEF FrontEndSpec, FrontEndInit
=============================================================================

