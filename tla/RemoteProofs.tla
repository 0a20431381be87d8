------------------------------ MODULE RemoteProofs ------------------------------
(***************************************************************************)
(* Proofs about Remote for every set of keys, every number of servers, any *)
(* volume scale and any number of events that wait to be read.             *)
(*                                                                         *)
(* The static variables outlive the places that use them, so what holds in *)
(* one place depends on who read the earlier events of a key.  The         *)
(* invariant says three things of it: the events that wait continue the    *)
(* press that was read last (Chain), the count of repeats in the event     *)
(* loop belongs to that press (Counted), and a key that the dialogs        *)
(* remember is this press's or closed a dialog (Remembered).               *)
(***************************************************************************)
EXTENDS Remote, SequenceTheorems, TLAPS

\* The key that is down before the i-th of the waiting events.
Before(i) ==
  IF i = 1 THEN last.key
  ELSE IF input[i - 1].value = 0 THEN "none" ELSE input[i - 1].key

\* A press comes when no key is down, repeats and the release are of the key that is.
\* After all of them it is the key the user holds.
Chain ==
  /\ \A i \in 1..Len(input) : Before(i) = IF input[i].value = 1 THEN "none" ELSE input[i].key
  /\ held = Before(Len(input) + 1)

\* keypress_count counts the repeats of a press the event loop has read; of others it
\* counts at most one too many, and it is 0 before a dialog or a key of the box.
Counted ==
  /\ ~ Forwarded(last.key) \/ mode \notin {"loop", "ended"} => keypress_count = 0
  /\ IF last.by = "loop" /\ Forwarded(last.key)
     THEN mode \in {"loop", "ended"} /\ keypress_count = Least(last.repeats, 2)
     ELSE keypress_count <= last.repeats + 1

\* A press that comes now and is swallowed is therefore of the closing key.
Remembered ==
  rc_last_key # "none" =>
    \/ rc_last_key = closer
    \/ mode \in {"menu", "ask"} /\ last.key = rc_last_key

\* The inductive invariant.
IInv == TypeOK /\ SelectionShown /\ Chain /\ KeysDelivered /\ Counted /\ Remembered

USE DEF Modes, REPEAT_TIMER, Events, Histories, Menus, Volumes, Flags

--------------------------------------------------------------------------------
(***************************************************************************)
(* Reading an event.                                                       *)
(***************************************************************************)
\* The event that is read next, and what Chain says of it.
LEMMA FirstEvent ==
  ASSUME TypeOK, Chain, input # << >>
  PROVE  /\ Head(input) \in Events
         /\ Tail(input) \in Seq(Events)
         /\ Len(Tail(input)) = Len(input) - 1
         /\ \A i \in 1..Len(Tail(input)) : Tail(input)[i] = input[i + 1]
         /\ last.key = IF Head(input).value = 1 THEN "none" ELSE Head(input).key
<1>1. input \in Seq(Events) /\ Len(input) \in Nat \ {0}
  BY DEF TypeOK
<1>2. Head(input) = input[1]
  BY <1>1
<1>3. Before(1) = IF input[1].value = 1 THEN "none" ELSE input[1].key
  BY <1>1 DEF Chain
<1>4. /\ Head(input) \in Events
      /\ Tail(input) \in Seq(Events)
      /\ Len(Tail(input)) = Len(input) - 1
      /\ \A i \in 1..Len(Tail(input)) : Tail(input)[i] = input[i + 1]
  BY <1>1, HeadTailProperties
<1> QED
  BY <1>2, <1>3, <1>4 DEF Before

\* Reading an event moves the chain on by one.
LEMMA ChainRead ==
  ASSUME TypeOK, Chain, input # << >>, NEW n \in 0..1,
         input' = Tail(input), held' = held, last' = Heard(Head(input), n)
  PROVE  Chain'
<1> DEFINE e == Head(input)
<1>1. /\ e \in Events
      /\ Len(input') = Len(input) - 1 /\ Len(input) \in Nat \ {0}
      /\ \A i \in 1..Len(input') : input'[i] = input[i + 1]
      /\ last.key = IF e.value = 1 THEN "none" ELSE e.key
      /\ e = input[1]
  BY FirstEvent DEF TypeOK
<1>2. last \in Histories
  BY DEF TypeOK
<1>3. last'.key = IF e.value = 0 THEN "none" ELSE e.key
  <2>1. CASE e.value = 0
    BY <2>1 DEF Heard, NoPress
  <2>2. CASE e.value = 1
    BY <2>2 DEF Heard
  <2>3. CASE e.value = 2
    BY <2>3, <1>1, <1>2 DEF Heard
  <2> QED
    BY <2>1, <2>2, <2>3, <1>1
<1>4. \A i \in 1..(Len(input') + 1) : Before(i)' = Before(i + 1)
  BY <1>1, <1>3 DEF Before
<1> QED
  BY <1>1, <1>4 DEF Chain

\* The history of a press keeps its type.
LEMMA HeardType ==
  ASSUME TypeOK, NEW e \in Events, NEW n \in 0..1
  PROVE  Heard(e, n) \in Histories
<1>1. last \in Histories /\ mode \in Modes
  BY DEF TypeOK
<1>2. CASE e.value = 0
  BY <1>2 DEF Heard, NoPress
<1>3. CASE e.value = 1
  BY <1>1, <1>3 DEF Heard
<1>4. CASE e.value = 2
  <2> DEFINE r == Least(last.repeats + 1, 4)
             s == Least(last.sent + n, 3)
  <2>1. Heard(e, n) = [[last EXCEPT !.repeats = r] EXCEPT !.sent = s]
    BY <1>1, <1>4 DEF Heard
  <2>2. r \in 0..4 /\ s \in 0..3
    BY <1>1 DEF Least
  <2> HIDE DEF r, s
  <2> QED
    BY <1>1, <2>1, <2>2
<1> QED
  BY <1>2, <1>3, <1>4

\* What Heard makes of a press, field by field.
LEMMA HeardFields ==
  ASSUME TypeOK, NEW e \in Events, NEW n \in 0..1
  PROVE  /\ e.value = 0 => Heard(e, n) = NoPress
         /\ e.value = 1 => Heard(e, n) = [key |-> e.key, by |-> mode, repeats |-> 0, sent |-> n]
         /\ e.value = 2 => /\ Heard(e, n).key = last.key
                           /\ Heard(e, n).by = last.by
                           /\ Heard(e, n).repeats = IF last.repeats < 4 THEN last.repeats + 1 ELSE 4
                           /\ Heard(e, n).sent = IF last.sent + n < 3 THEN last.sent + n ELSE 3
<1>1. last \in Histories
  BY DEF TypeOK
<1>2. e.value = 2 =>
        Heard(e, n) = [last EXCEPT !.repeats = Least(@ + 1, 4), !.sent = Least(@ + n, 3)]
  BY DEF Heard
<1>3. e.value \in {0, 1} =>
        Heard(e, n) = IF e.value = 0 THEN NoPress
                      ELSE [key |-> e.key, by |-> mode, repeats |-> 0, sent |-> n]
  BY DEF Heard
<1>4. CASE e.value = 2
  <2> DEFINE r == Least(last.repeats + 1, 4)
             s == Least(last.sent + n, 3)
  <2>1. Heard(e, n) = [[last EXCEPT !.repeats = r] EXCEPT !.sent = s]
    BY <1>1, <1>2, <1>4
  <2>2. /\ r = IF last.repeats < 4 THEN last.repeats + 1 ELSE 4
        /\ s = IF last.sent + n < 3 THEN last.sent + n ELSE 3
    BY <1>1 DEF Least
  <2> HIDE DEF r, s
  <2> QED
    BY <1>1, <1>4, <2>1, <2>2
<1> QED
  BY <1>3, <1>4

\* Reading without sending: in a dialog, or in the loop a key that is not forwarded.
LEMMA ReadQuietly ==
  ASSUME TypeOK, Chain, KeysDelivered, Counted, input # << >>, mode # "ended",
         mode = "loop" => ~ Forwarded(Head(input).key),
         last' = Heard(Head(input), 0)
  PROVE  /\ keypress_count = 0
         /\ KeysDelivered'
         /\ ~ (last'.by = "loop" /\ Forwarded(last'.key))
<1> DEFINE e == Head(input)
<1>1. /\ e \in Events
      /\ last.key = IF e.value = 1 THEN "none" ELSE e.key
  BY FirstEvent
<1>2. /\ last \in Histories
      /\ mode \in Modes
  BY DEF TypeOK
<1>3. ~ Forwarded("none")
  BY DEF Forwarded
<1>4. keypress_count = 0 /\ ~ (last.by = "loop" /\ Forwarded(last.key))
  <2>1. CASE mode = "loop"
    BY <1>1, <1>3, <2>1 DEF Counted
  <2>2. CASE mode # "loop"
    BY <2>2 DEF Counted
  <2> QED
    BY <2>1, <2>2
<1>5. /\ e.value = 0 => last' = NoPress
      /\ e.value = 1 => last' = [key |-> e.key, by |-> mode, repeats |-> 0, sent |-> 0]
      /\ e.value = 2 => /\ last'.key = last.key
                        /\ last'.by = last.by
                        /\ last'.repeats = IF last.repeats < 4 THEN last.repeats + 1 ELSE 4
                        /\ last'.sent = IF last.sent + 0 < 3 THEN last.sent + 0 ELSE 3
  BY <1>1, HeardFields
<1>6. CASE e.value = 0
  BY <1>4, <1>5, <1>6, <1>3 DEF KeysDelivered, NoPress
<1>7. CASE e.value = 1
  BY <1>4, <1>5, <1>7 DEF KeysDelivered
<1>8. CASE e.value = 2
  BY <1>2, <1>4, <1>5, <1>8 DEF KeysDelivered
<1> QED
  BY <1>1, <1>4, <1>6, <1>7, <1>8

\* Reading through cMenu::GetRCCode.
LEMMA ReadDialog ==
  ASSUME TypeOK, Chain, Remembered, input # << >>, mode \in {"menu", "ask"},
         NEW k, k = RcCode(Head(input)), GetRCCode(Head(input)),
         last' = Heard(Head(input), 0), closer' = Closer(k),
         mode' \in {"menu", "ask"} \/ k \in {"ok", "home"}
  PROVE  /\ Remembered'
         /\ count' \in 0..REPEAT_TIMER
         /\ rc_last_key' \in Keys \cup {"none"}
         /\ closer' \in Keys \cup {"none"}
         /\ k \in Keys \cup {"none"}
<1> DEFINE e == Head(input)
<1>1. /\ e \in Events
      /\ last.key = IF e.value = 1 THEN "none" ELSE e.key
  BY FirstEvent
<1>2. count \in 0..REPEAT_TIMER /\ closer \in Keys \cup {"none"}
  BY DEF TypeOK
<1>3. /\ k = "none" \/ k = e.key
      /\ k # "none" => e.value # 0
  BY <1>1 DEF RcCode
<1>4. rc_last_key' = IF e.value = 0 THEN "none" ELSE e.key
  BY DEF GetRCCode
<1>5. count' \in 0..REPEAT_TIMER
  BY <1>2 DEF GetRCCode, Least
<1>6. closer' \in Keys \cup {"none"} /\ (k \in {"ok", "home"} => closer' = k)
  <2>1. Closer(k) \in {k, "none", closer} /\ (k \in {"ok", "home"} => Closer(k) = k)
    BY DEF Closer
  <2> QED
    BY <1>1, <1>2, <1>3, <2>1
<1>7. e.value # 0 => last'.key = e.key
  <2>1. /\ e.value = 1 => Heard(e, 0) = [key |-> e.key, by |-> mode, repeats |-> 0, sent |-> 0]
        /\ e.value = 2 => Heard(e, 0).key = last.key
    BY <1>1, 0 \in 0..1, HeardFields
  <2> QED
    BY <1>1, <2>1
<1>8. Remembered'
  BY <1>1, <1>3, <1>4, <1>6, <1>7 DEF Remembered
<1> QED
  BY <1>1, <1>3, <1>4, <1>5, <1>6, <1>8

\* What every reading step has in common.
LEMMA ReadFacts ==
  ASSUME IInv, NEW n \in 0..1, input # << >>,
         input' = Tail(input), held' = held, last' = Heard(Head(input), n)
  PROVE  /\ input' \in Seq(Events) /\ Len(input') <= MaxInput
         /\ held' \in Keys \cup {"none"}
         /\ last' \in Histories
         /\ Chain'
         /\ Head(input) \in Events
         /\ last.key = IF Head(input).value = 1 THEN "none" ELSE Head(input).key
<1>1. TypeOK /\ Chain
  BY DEF IInv
<1>2. Chain'
  BY <1>1, ChainRead
<1>3. /\ Head(input) \in Events
      /\ last.key = IF Head(input).value = 1 THEN "none" ELSE Head(input).key
      /\ input' \in Seq(Events) /\ Len(input') = Len(input) - 1
  BY <1>1, FirstEvent
<1>4. last' \in Histories
  BY <1>1, <1>3, HeardType
<1>5. held' \in Keys \cup {"none"} /\ Len(input) <= MaxInput /\ Len(input) \in Nat
  BY <1>1 DEF TypeOK
<1> QED
  BY <1>2, <1>3, <1>4, <1>5, ParameterAssumption

--------------------------------------------------------------------------------
(***************************************************************************)
(* The steps.                                                              *)
(***************************************************************************)
\* The user adds an event: a press, a repeat or the release of the key that is down.
LEMMA UserStep ==
  ASSUME IInv, NEW k \in Keys, NEW v \in 0..2, Event(k, v),
         held' = IF v = 0 THEN "none" ELSE k,
         held = IF v = 1 THEN "none" ELSE k
  PROVE  IInv'
<1> DEFINE e == [key |-> k, value |-> v]
<1>1. TypeOK /\ SelectionShown /\ Chain /\ KeysDelivered /\ Counted /\ Remembered
  BY DEF IInv
<1>2. /\ input \in Seq(Events) /\ Len(input) \in Nat
      /\ e \in Events
      /\ input' = Append(input, e) /\ Len(input) < MaxInput
  BY <1>1 DEF TypeOK, Event
<1>3. /\ input' \in Seq(Events)
      /\ Len(input') = Len(input) + 1
      /\ \A i \in 1..Len(input) : input'[i] = input[i]
      /\ input'[Len(input) + 1] = e
  BY <1>2, AppendProperties
<1>4. TypeOK'
  BY <1>1, <1>2, <1>3, ParameterAssumption DEF TypeOK, Event, UserKeeps
<1>5. Chain'
  <2>1. last' = last
    BY DEF Event, UserKeeps
  <2> PICK m \in Nat : m = Len(input)
    BY <1>2
  <2>2. \A i \in 1..(m + 1) : Before(i)' = Before(i)
    BY <1>2, <1>3, <2>1 DEF Before
  <2>3. Before(m + 2)' = IF v = 0 THEN "none" ELSE k
    BY <1>2, <1>3 DEF Before
  <2>4. \A i \in 1..m : Before(i)' = IF input'[i].value = 1 THEN "none" ELSE input'[i].key
    BY <1>1, <1>2, <1>3, <2>2 DEF Chain
  <2>5. Before(m + 1)' = IF e.value = 1 THEN "none" ELSE e.key
    BY <1>1, <1>2, <2>2 DEF Chain
  <2>6. Len(input') = m + 1
    BY <1>3
  <2> QED
    BY <1>2, <1>3, <2>3, <2>4, <2>5, <2>6 DEF Chain
<1>6. SelectionShown' /\ KeysDelivered' /\ Counted' /\ Remembered'
  BY <1>1 DEF Event, UserKeeps, SelectionShown, KeysDelivered, Counted, Remembered
<1> QED
  BY <1>4, <1>5, <1>6 DEF IInv

\* The three actions of the user.
LEMMA UserSteps ==
  ASSUME IInv, User PROVE IInv'
<1>1. held \in Keys \cup {"none"} /\ "none" \notin Keys
  BY ParameterAssumption DEF IInv, TypeOK
<1>2. ASSUME NEW k \in Keys, Press(k) PROVE IInv'
  BY <1>2, UserStep DEF Press
<1>3. CASE Repeat
  BY <1>1, <1>3, UserStep DEF Repeat
<1>4. CASE Release
  BY <1>1, <1>4, UserStep DEF Release
<1> QED
  BY <1>2, <1>3, <1>4 DEF User

\* One lemma for each reading action.
LEMMA SelectServerStep ==
  ASSUME IInv, SelectServer PROVE IInv'
<1> DEFINE e == Head(input)
<1>1. TypeOK /\ SelectionShown /\ Chain /\ KeysDelivered /\ Counted /\ Remembered
  BY DEF IInv
<1>2. /\ mode = "servers" /\ input # << >> /\ input' = Tail(input) /\ held' = held
      /\ last' = Heard(e, 0)
  BY DEF SelectServer, ReadsFor, Reads
<1>3. /\ input' \in Seq(Events) /\ Len(input') <= MaxInput
      /\ held' \in Keys \cup {"none"}
      /\ last' \in Histories
      /\ Chain'
      /\ e \in Events
      /\ last.key = IF e.value = 1 THEN "none" ELSE e.key
  BY <1>2, ReadFacts
<1>4. /\ keypress_count = 0
      /\ KeysDelivered'
      /\ ~ (last'.by = "loop" /\ Forwarded(last'.key))
  BY <1>1, <1>2, ReadQuietly DEF SelectServer, Forwarded
<1>5. TypeOK'
  BY <1>1, <1>3, ParameterAssumption DEF SelectServer, TypeOK
<1>6. Counted'
  BY <1>3, <1>4 DEF SelectServer, Counted
<1>7. SelectionShown' /\ Remembered'
  BY <1>1, <1>2 DEF SelectServer, SelectionShown, Remembered
<1> QED
  BY <1>3, <1>4, <1>5, <1>6, <1>7 DEF IInv

\* MessageBox keeps the invariant.
LEMMA MessageBoxStep ==
  ASSUME IInv, MessageBox PROVE IInv'
<1> DEFINE e == Head(input)
<1>1. TypeOK /\ SelectionShown /\ Chain /\ KeysDelivered /\ Counted /\ Remembered
  BY DEF IInv
<1>2. /\ mode = "fatal" /\ input # << >> /\ input' = Tail(input) /\ held' = held
      /\ last' = Heard(e, 0)
  BY DEF MessageBox, ReadsFor, Reads
<1>3. /\ input' \in Seq(Events) /\ Len(input') <= MaxInput
      /\ held' \in Keys \cup {"none"}
      /\ last' \in Histories
      /\ Chain'
      /\ e \in Events
      /\ last.key = IF e.value = 1 THEN "none" ELSE e.key
  BY <1>2, ReadFacts
<1>4. /\ keypress_count = 0
      /\ KeysDelivered'
      /\ ~ (last'.by = "loop" /\ Forwarded(last'.key))
  BY <1>1, <1>2, ReadQuietly DEF MessageBox, Forwarded
<1>5. TypeOK'
  BY <1>1, <1>3 DEF MessageBox, TypeOK
<1>6. Counted'
  BY <1>3, <1>4 DEF MessageBox, Counted
<1>7. SelectionShown' /\ Remembered'
  BY <1>1, <1>2 DEF MessageBox, SelectionShown, Remembered
<1> QED
  BY <1>3, <1>4, <1>5, <1>6, <1>7 DEF IInv

\* VolumeKey keeps the invariant.
LEMMA VolumeKeyStep ==
  ASSUME IInv, VolumeKey PROVE IInv'
<1> DEFINE e == Head(input)
<1>1. TypeOK /\ SelectionShown /\ Chain /\ KeysDelivered /\ Counted /\ Remembered
  BY DEF IInv
<1>2. /\ mode = "loop" /\ input # << >> /\ input' = Tail(input) /\ held' = held
      /\ last' = Heard(e, 0)
  BY DEF VolumeKey, ReadsFor, Reads
<1>3. /\ input' \in Seq(Events) /\ Len(input') <= MaxInput
      /\ held' \in Keys \cup {"none"}
      /\ last' \in Histories
      /\ Chain'
      /\ e \in Events
      /\ last.key = IF e.value = 1 THEN "none" ELSE e.key
  BY <1>2, ReadFacts
<1>4. /\ keypress_count = 0
      /\ KeysDelivered'
      /\ ~ (last'.by = "loop" /\ Forwarded(last'.key))
  BY <1>1, <1>2, ReadQuietly DEF VolumeKey, Forwarded
<1>5. controld' \in Volumes
  <2>1. controld \in Volumes
    BY <1>1 DEF TypeOK
  <2>2. Volume(e.key, controld.volume) \in 0..VolumeTop
    BY <2>1, ParameterAssumption DEF Volume
  <2>3. \/ controld' = controld
        \/ controld' = [controld EXCEPT !.volume = Volume(e.key, controld.volume)]
    BY DEF VolumeKey
  <2> QED
    BY <2>1, <2>2, <2>3
<1>6. TypeOK'
  BY <1>1, <1>3, <1>5 DEF VolumeKey, TypeOK
<1>7. Counted'
  BY <1>3, <1>4 DEF VolumeKey, Counted
<1>8. SelectionShown' /\ Remembered'
  BY <1>1, <1>2 DEF VolumeKey, SelectionShown, Remembered
<1> QED
  BY <1>3, <1>4, <1>6, <1>7, <1>8 DEF IInv

\* MuteKey keeps the invariant.
LEMMA MuteKeyStep ==
  ASSUME IInv, MuteKey PROVE IInv'
<1> DEFINE e == Head(input)
<1>1. TypeOK /\ SelectionShown /\ Chain /\ KeysDelivered /\ Counted /\ Remembered
  BY DEF IInv
<1>2. /\ mode = "loop" /\ input # << >> /\ input' = Tail(input) /\ held' = held
      /\ last' = Heard(e, 0)
  BY DEF MuteKey, ReadsFor, Reads
<1>3. /\ input' \in Seq(Events) /\ Len(input') <= MaxInput
      /\ held' \in Keys \cup {"none"}
      /\ last' \in Histories
      /\ Chain'
      /\ e \in Events
      /\ last.key = IF e.value = 1 THEN "none" ELSE e.key
  BY <1>2, ReadFacts
<1>4. /\ keypress_count = 0
      /\ KeysDelivered'
      /\ ~ (last'.by = "loop" /\ Forwarded(last'.key))
  BY <1>1, <1>2, ReadQuietly DEF MuteKey, Forwarded
<1>5. controld' \in Volumes
  <2>1. controld \in Volumes
    BY <1>1 DEF TypeOK
  <2>2. controld' = controld \/ controld' = [controld EXCEPT !.muted = ~ controld.muted]
    BY DEF MuteKey
  <2> QED
    BY <2>1, <2>2
<1>6. TypeOK'
  BY <1>1, <1>3, <1>5 DEF MuteKey, TypeOK
<1>7. Counted'
  BY <1>3, <1>4 DEF MuteKey, Counted
<1>8. SelectionShown' /\ Remembered'
  BY <1>1, <1>2 DEF MuteKey, SelectionShown, Remembered
<1> QED
  BY <1>3, <1>4, <1>6, <1>7, <1>8 DEF IInv

\* PowerKey keeps the invariant.
LEMMA PowerKeyStep ==
  ASSUME IInv, PowerKey PROVE IInv'
<1> DEFINE e == Head(input)
<1>1. TypeOK /\ SelectionShown /\ Chain /\ KeysDelivered /\ Counted /\ Remembered
  BY DEF IInv
<1>2. /\ mode = "loop" /\ input # << >> /\ input' = Tail(input) /\ held' = held
      /\ last' = Heard(e, 0)
  BY DEF PowerKey, ReadsFor, Reads
<1>3. /\ input' \in Seq(Events) /\ Len(input') <= MaxInput
      /\ held' \in Keys \cup {"none"}
      /\ last' \in Histories
      /\ Chain'
      /\ e \in Events
      /\ last.key = IF e.value = 1 THEN "none" ELSE e.key
  BY <1>2, ReadFacts
<1>4. /\ keypress_count = 0
      /\ KeysDelivered'
      /\ ~ (last'.by = "loop" /\ Forwarded(last'.key))
  BY <1>1, <1>2, ReadQuietly DEF PowerKey, Forwarded
<1>5. menu' \in Menus
      /\ mode' \in {"loop", "menu"}
      /\ SelectionShown'
  <2>1. 1 \in DOMAIN Items /\ Items[1].selectable
    BY DEF Items, cMenuSelItem
  <2>2. menu \in Menus
    BY <1>1 DEF TypeOK
  <2>3. \/ mode' = mode /\ menu' = menu
        \/ mode' = "menu" /\ menu' = [item |-> 1, lit |-> {1}, opener |-> e.value]
    BY DEF PowerKey
  <2> QED
    BY <1>2, <1>3, <2>1, <2>2, <2>3 DEF SelectionShown
<1>6. TypeOK'
  BY <1>1, <1>3, <1>5 DEF PowerKey, TypeOK
<1>7. Counted'
  BY <1>3, <1>4 DEF PowerKey, Counted
<1>8. Remembered'
  BY <1>1, <1>2 DEF PowerKey, Remembered
<1> QED
  BY <1>3, <1>4, <1>5, <1>6, <1>7, <1>8 DEF IInv

\* The cursor of the menu goes from an item that can be selected to another.
LEMMA NextItemSelectable ==
  ASSUME NEW k, NEW i \in DOMAIN Items, Items[i].selectable
  PROVE  NextItem(k, i) \in DOMAIN Items /\ Items[NextItem(k, i)].selectable
<1> DEFINE there == {j \in DOMAIN Items : Items[j].selectable}
<1>1. DOMAIN Items = 1..5
  BY DEF Items
<1>2. ASSUME NEW S \in SUBSET (1..5), S # {}
      PROVE  Max(S) \in S /\ Min(S) \in S
  <2>1. \E x \in S : \A y \in S : x >= y
    <3>1. CASE 5 \in S
      BY <1>2, <3>1
    <3>2. CASE 5 \notin S /\ 4 \in S
      BY <1>2, <3>2
    <3>3. CASE 5 \notin S /\ 4 \notin S /\ 3 \in S
      BY <1>2, <3>3
    <3>4. CASE S \subseteq {1, 2} /\ 2 \in S
      BY <1>2, <3>4
    <3>5. CASE S \subseteq {1}
      <4>1. S = {1}
        BY <1>2, <3>5
      <4> QED
        BY <4>1
    <3>6. S \subseteq {1, 2, 3, 4, 5}
      BY <1>2
    <3> QED
      BY <3>1, <3>2, <3>3, <3>4, <3>5, <3>6
  <2>2. \E x \in S : \A y \in S : x <= y
    <3>1. CASE 1 \in S
      BY <1>2, <3>1
    <3>2. CASE 1 \notin S /\ 2 \in S
      BY <1>2, <3>2
    <3>3. CASE 1 \notin S /\ 2 \notin S /\ 3 \in S
      BY <1>2, <3>3
    <3>4. CASE S \subseteq {4, 5} /\ 4 \in S
      BY <1>2, <3>4
    <3>5. CASE S \subseteq {5}
      <4>1. S = {5}
        BY <1>2, <3>5
      <4> QED
        BY <4>1
    <3>6. S \subseteq {1, 2, 3, 4, 5}
      BY <1>2
    <3> QED
      BY <3>1, <3>2, <3>3, <3>4, <3>5, <3>6
  <2> QED
    BY <2>1, <2>2 DEF Max, Min
<1>3. NextItem(k, i) \in there
  <2>1. i \in there /\ there \subseteq 1..5
    BY <1>1
  <2> HIDE DEF there
  <2> DEFINE above == {j \in there : j < i}
             below == {j \in there : j > i}
  <2>2. NextItem(k, i) = CASE k = "up" /\ above # {} -> Max(above)
                           [] k = "down" /\ below # {} -> Min(below)
                           [] OTHER -> i
    BY DEF NextItem, there
  <2>3. above # {} => Max(above) \in there
    BY <1>2, <2>1
  <2>4. below # {} => Min(below) \in there
    BY <1>2, <2>1
  <2> HIDE DEF above, below
  <2> QED
    BY <2>1, <2>2, <2>3, <2>4
<1> QED
  BY <1>3

\* ForwardKey keeps the invariant.
LEMMA ForwardKeyStep ==
  ASSUME IInv, ForwardKey PROVE IInv'
<1> DEFINE e == Head(input)
<1>1. TypeOK /\ SelectionShown /\ Chain /\ KeysDelivered /\ Counted /\ Remembered
  BY DEF IInv
<1>2. /\ mode = "loop" /\ mode' = mode /\ input # << >> /\ input' = Tail(input) /\ held' = held
      /\ last' = Heard(e, Sends(e)) /\ Forwarded(e.key)
      /\ keypress_count' = KeypressCount(e)
      /\ Sends(e) \in 0..1
  BY DEF ForwardKey, Reads, Sends
<1>3. /\ input' \in Seq(Events) /\ Len(input') <= MaxInput
      /\ held' \in Keys \cup {"none"}
      /\ last' \in Histories
      /\ Chain'
      /\ e \in Events
      /\ last.key = IF e.value = 1 THEN "none" ELSE e.key
  BY <1>2, ReadFacts
<1>4. keypress_count \in 0..2
  BY <1>1 DEF TypeOK
<1>5. keypress_count' \in 0..2
  BY <1>2, <1>4 DEF KeypressCount
<1>6. TypeOK'
  BY <1>1, <1>3, <1>5 DEF ForwardKey, TypeOK
<1>7. SelectionShown' /\ Remembered'
  BY <1>1, <1>2 DEF ForwardKey, SelectionShown, Remembered
<1>8. KeysDelivered' /\ Counted'
  <2>1. ~ Forwarded("none")
    BY DEF Forwarded
  <2>2. last \in Histories
    BY <1>1 DEF TypeOK
  <2>3. CASE e.value = 0
    <3>1. last' = NoPress /\ keypress_count' = 0
      BY <1>1, <1>2, <1>3, <2>3, HeardFields DEF KeypressCount
    <3> QED
      BY <3>1, <2>1 DEF NoPress, KeysDelivered, Counted
  <2>4. CASE e.value = 1
    <3>1. /\ last' = [key |-> e.key, by |-> mode, repeats |-> 0, sent |-> 1]
          /\ keypress_count' = 0
      BY <1>1, <1>2, <1>3, <2>4, HeardFields DEF KeypressCount, Sends
    <3> QED
      BY <1>2, <3>1 DEF KeysDelivered, Counted, Least
  <2>5. CASE e.value = 2
    <3> DEFINE n == Sends(e)
    <3>1. /\ last'.key = last.key /\ last'.by = last.by
          /\ last'.repeats = IF last.repeats < 4 THEN last.repeats + 1 ELSE 4
          /\ last'.sent = IF last.sent + n < 3 THEN last.sent + n ELSE 3
      BY <1>1, <1>2, <1>3, <2>5, HeardFields
    <3>2. /\ n = IF keypress_count > 1 THEN 1 ELSE 0
          /\ keypress_count' = IF keypress_count > 1 THEN keypress_count ELSE keypress_count + 1
      BY <1>2, <2>5 DEF Sends, KeypressCount
    <3>3. last.key = e.key /\ Forwarded(last.key)
      BY <1>2, <1>3, <2>5
    <3> HIDE DEF n
    <3>4. CASE last.by = "loop"
      <4>1. /\ keypress_count = IF last.repeats <= 2 THEN last.repeats ELSE 2
            /\ last.sent = IF last.repeats <= 2 THEN 1 ELSE last.repeats - 1
        BY <1>1, <2>2, <3>3, <3>4 DEF KeysDelivered, Counted, Least
      <4> QED
        BY <1>2, <1>4, <2>2, <3>1, <3>2, <3>3, <3>4, <4>1 DEF KeysDelivered, Counted, Least
    <3>5. CASE last.by # "loop"
      <4>1. /\ keypress_count <= last.repeats + 1
            /\ last.repeats <= 1 => last.sent = 0
        BY <1>1, <3>5 DEF KeysDelivered, Counted
      <4> QED
        BY <1>2, <1>4, <2>2, <3>1, <3>2, <3>3, <3>5, <4>1 DEF KeysDelivered, Counted
    <3> QED
      BY <3>4, <3>5
  <2> QED
    BY <1>3, <2>3, <2>4, <2>5
<1> QED
  BY <1>3, <1>6, <1>7, <1>8 DEF IInv

\* MsgBox keeps the invariant.
LEMMA MsgBoxStep ==
  ASSUME IInv, MsgBox PROVE IInv'
<1> DEFINE e == Head(input)
<1>1. TypeOK /\ SelectionShown /\ Chain /\ KeysDelivered /\ Counted /\ Remembered
  BY DEF IInv
<1>2. /\ mode = "ask" /\ input # << >> /\ input' = Tail(input) /\ held' = held
      /\ last' = Heard(e, 0)
  BY DEF MsgBox, ReadsFor, Reads
<1>3. /\ input' \in Seq(Events) /\ Len(input') <= MaxInput
      /\ held' \in Keys \cup {"none"}
      /\ last' \in Histories
      /\ Chain'
      /\ e \in Events
      /\ last.key = IF e.value = 1 THEN "none" ELSE e.key
  BY <1>2, ReadFacts
<1>4. /\ keypress_count = 0
      /\ KeysDelivered'
      /\ ~ (last'.by = "loop" /\ Forwarded(last'.key))
  BY <1>1, <1>2, ReadQuietly DEF MsgBox, Forwarded
<1>5. /\ Remembered'
      /\ count' \in 0..REPEAT_TIMER
      /\ rc_last_key' \in Keys \cup {"none"}
      /\ closer' \in Keys \cup {"none"}
  <2> DEFINE k == RcCode(e)
  <2>1. /\ GetRCCode(e) /\ closer' = Closer(k)
        /\ mode' = CASE k = "ok" -> "connect" [] k = "home" -> "ended" [] OTHER -> "ask"
    BY DEF MsgBox
  <2>2. mode' \in {"menu", "ask"} \/ k \in {"ok", "home"}
    BY <2>1
  <2> QED
    BY <1>1, <1>2, <2>1, <2>2, ReadDialog
<1>6. TypeOK'
  BY <1>1, <1>3, <1>5 DEF MsgBox, TypeOK
<1>7. Counted'
  BY <1>3, <1>4 DEF MsgBox, Counted
<1>8. SelectionShown'
  BY <1>1, <1>2 DEF MsgBox, SelectionShown
<1> QED
  BY <1>3, <1>4, <1>5, <1>6, <1>7, <1>8 DEF IInv

\* MenuMove keeps the invariant.
LEMMA MenuMoveStep ==
  ASSUME IInv, MenuMove PROVE IInv'
<1> DEFINE e == Head(input)
<1>1. TypeOK /\ SelectionShown /\ Chain /\ KeysDelivered /\ Counted /\ Remembered
  BY DEF IInv
<1>2. /\ mode = "menu" /\ input # << >> /\ input' = Tail(input) /\ held' = held
      /\ last' = Heard(e, 0)
  BY DEF MenuMove, MenuKey, ReadsFor, Reads
<1>3. /\ input' \in Seq(Events) /\ Len(input') <= MaxInput
      /\ held' \in Keys \cup {"none"}
      /\ last' \in Histories
      /\ Chain'
      /\ e \in Events
      /\ last.key = IF e.value = 1 THEN "none" ELSE e.key
  BY <1>2, ReadFacts
<1>4. /\ keypress_count = 0
      /\ KeysDelivered'
      /\ ~ (last'.by = "loop" /\ Forwarded(last'.key))
  BY <1>1, <1>2, ReadQuietly DEF MenuMove, Forwarded
<1>5. PICK k \in Keys \cup {"none"} :
        /\ k \notin {"ok", "home"} /\ k = RcCode(e) /\ GetRCCode(e) /\ closer' = Closer(k)
        /\ MoveMark(NextItem(k, menu.item))
  BY DEF MenuMove, MenuKey
<1>6. /\ Remembered'
      /\ count' \in 0..REPEAT_TIMER
      /\ rc_last_key' \in Keys \cup {"none"}
      /\ closer' \in Keys \cup {"none"}
  <2>1. mode' = mode
    BY DEF MenuMove
  <2> QED
    BY <1>1, <1>2, <1>5, <2>1, ReadDialog
<1>7. menu' \in Menus /\ SelectionShown'
  <2> DEFINE i == NextItem(k, menu.item)
  <2>1. /\ menu \in Menus
        /\ Items[menu.item].selectable /\ menu.lit = {menu.item}
    BY <1>1, <1>2 DEF TypeOK, SelectionShown
  <2>2. i \in DOMAIN Items /\ Items[i].selectable
    BY <2>1, NextItemSelectable
  <2>3. menu' = [menu EXCEPT !.item = i, !.lit = (menu.lit \ {menu.item}) \cup {i}]
    BY <1>5 DEF MoveMark
  <2> HIDE DEF i
  <2>4. menu' = [menu EXCEPT !.item = i, !.lit = {i}]
    BY <2>1, <2>3
  <2> QED
    BY <2>1, <2>2, <2>4 DEF SelectionShown
<1>8. TypeOK'
  BY <1>1, <1>3, <1>6, <1>7 DEF MenuMove, MenuKey, TypeOK
<1>9. Counted'
  BY <1>3, <1>4 DEF MenuMove, Counted
<1> QED
  BY <1>3, <1>4, <1>6, <1>7, <1>8, <1>9 DEF IInv

\* MenuHome keeps the invariant.
LEMMA MenuHomeStep ==
  ASSUME IInv, MenuHome PROVE IInv'
<1> DEFINE e == Head(input)
<1>1. TypeOK /\ SelectionShown /\ Chain /\ KeysDelivered /\ Counted /\ Remembered
  BY DEF IInv
<1>2. /\ mode = "menu" /\ input # << >> /\ input' = Tail(input) /\ held' = held
      /\ last' = Heard(e, 0)
  BY DEF MenuHome, MenuKey, ReadsFor, Reads
<1>3. /\ input' \in Seq(Events) /\ Len(input') <= MaxInput
      /\ held' \in Keys \cup {"none"}
      /\ last' \in Histories
      /\ Chain'
      /\ e \in Events
      /\ last.key = IF e.value = 1 THEN "none" ELSE e.key
  BY <1>2, ReadFacts
<1>4. /\ keypress_count = 0
      /\ KeysDelivered'
      /\ ~ (last'.by = "loop" /\ Forwarded(last'.key))
  BY <1>1, <1>2, ReadQuietly DEF MenuHome, Forwarded
<1>5. /\ Remembered'
      /\ count' \in 0..REPEAT_TIMER
      /\ rc_last_key' \in Keys \cup {"none"}
      /\ closer' \in Keys \cup {"none"}
  <2>1. "home" = RcCode(e) /\ GetRCCode(e) /\ closer' = Closer("home")
    BY DEF MenuHome, MenuKey
  <2> QED
    BY <1>1, <1>2, <2>1, ReadDialog
<1>6. menu' \in Menus
  BY DEF MenuHome, NoMenu, Items
<1>7. TypeOK'
  BY <1>1, <1>3, <1>5, <1>6 DEF MenuHome, MenuKey, TypeOK
<1>8. SelectionShown' /\ Counted'
  BY <1>3, <1>4 DEF MenuHome, SelectionShown, Counted
<1> QED
  BY <1>3, <1>4, <1>5, <1>7, <1>8 DEF IInv

\* MenuOk keeps the invariant.
LEMMA MenuOkStep ==
  ASSUME IInv, MenuOk PROVE IInv'
<1> DEFINE e == Head(input)
<1>1. TypeOK /\ SelectionShown /\ Chain /\ KeysDelivered /\ Counted /\ Remembered
  BY DEF IInv
<1>2. /\ mode = "menu" /\ input # << >> /\ input' = Tail(input) /\ held' = held
      /\ last' = Heard(e, 0)
  BY DEF MenuOk, MenuKey, ReadsFor, Reads
<1>3. /\ input' \in Seq(Events) /\ Len(input') <= MaxInput
      /\ held' \in Keys \cup {"none"}
      /\ last' \in Histories
      /\ Chain'
      /\ e \in Events
      /\ last.key = IF e.value = 1 THEN "none" ELSE e.key
  BY <1>2, ReadFacts
<1>4. /\ keypress_count = 0
      /\ KeysDelivered'
      /\ ~ (last'.by = "loop" /\ Forwarded(last'.key))
  BY <1>1, <1>2, ReadQuietly DEF MenuOk, Forwarded
<1>5. "ok" = RcCode(e) /\ GetRCCode(e) /\ closer' = Closer("ok")
  BY DEF MenuOk, MenuKey
<1>6. /\ Remembered'
      /\ count' \in 0..REPEAT_TIMER
      /\ rc_last_key' \in Keys \cup {"none"}
      /\ closer' \in Keys \cup {"none"}
  BY <1>1, <1>2, <1>5, ReadDialog
<1>7. menu' \in Menus
  BY DEF MenuOk, NoMenu, Items
<1>8. mode' \in {"loop", "ended"}
  BY DEF MenuOk
<1>9. flags' \in Flags
  <2>1. flags \in Flags
    BY <1>1 DEF TypeOK
  <2>2. \/ flags' = [flags EXCEPT !.resync = TRUE]
        \/ flags' = [flags EXCEPT !.lcdInfo = ~ flags.lcdInfo]
        \/ flags' = flags
    BY DEF MenuOk
  <2> QED
    BY <2>1, <2>2
<1>10. keypress_count' \in 0..1
  BY <1>4 DEF MenuOk, KeypressCount
<1>11. TypeOK'
  BY <1>1, <1>3, <1>6, <1>7, <1>8, <1>9, <1>10 DEF MenuOk, MenuKey, TypeOK
<1>12. Counted'
  <2>1. e.key = "ok" /\ e.value # 0
    BY <1>5 DEF RcCode
  <2>2. last'.key = "ok"
    <3>1. /\ e.value = 1 => Heard(e, 0) = [key |-> e.key, by |-> mode, repeats |-> 0, sent |-> 0]
          /\ e.value = 2 => Heard(e, 0).key = last.key
      BY <1>1, <1>3, 0 \in 0..1, HeardFields
    <3> QED
      BY <1>2, <1>3, <2>1, <3>1
  <2>3. Forwarded("ok")
    BY DEF Forwarded, VolumeKeys
  <2> QED
    BY <1>3, <1>4, <1>8, <1>10, <2>2, <2>3 DEF Counted
<1>13. SelectionShown'
  BY <1>8 DEF SelectionShown
<1> QED
  BY <1>3, <1>4, <1>6, <1>11, <1>12, <1>13 DEF IInv

\* The steps that read nothing.
LEMMA ConnectedStep ==
  ASSUME IInv, Connected PROVE IInv'
<1>1. TypeOK /\ SelectionShown /\ Chain /\ KeysDelivered /\ Counted /\ Remembered
  BY DEF IInv
<1>2. TypeOK'
  BY <1>1 DEF Connected, ConnectKeeps, TypeOK
<1>3. Chain' /\ KeysDelivered'
  BY <1>1 DEF Connected, ConnectKeeps, Chain, Before, KeysDelivered
<1>4. SelectionShown' /\ Counted' /\ Remembered'
  BY <1>1 DEF Connected, ConnectKeeps, SelectionShown, Counted, Remembered
<1> QED
  BY <1>2, <1>3, <1>4 DEF IInv

\* Refused keeps the invariant.
LEMMA RefusedStep ==
  ASSUME IInv, Refused PROVE IInv'
<1>1. TypeOK /\ SelectionShown /\ Chain /\ KeysDelivered /\ Counted /\ Remembered
  BY DEF IInv
<1>2. TypeOK'
  BY <1>1 DEF Refused, ConnectKeeps, TypeOK
<1>3. Chain' /\ KeysDelivered'
  BY <1>1 DEF Refused, ConnectKeeps, Chain, Before, KeysDelivered
<1>4. SelectionShown' /\ Counted' /\ Remembered'
  BY <1>1 DEF Refused, ConnectKeeps, SelectionShown, Counted, Remembered
<1> QED
  BY <1>2, <1>3, <1>4 DEF IInv

\* Initialise keeps the invariant.
LEMMA InitialiseStep ==
  ASSUME IInv, Initialise PROVE IInv'
<1>1. TypeOK /\ SelectionShown /\ Chain /\ KeysDelivered /\ Counted /\ Remembered
  BY DEF IInv
<1>2. TypeOK'
  BY <1>1 DEF Initialise, ConnectKeeps, TypeOK
<1>3. Chain' /\ KeysDelivered'
  BY <1>1 DEF Initialise, ConnectKeeps, Chain, Before, KeysDelivered
<1>4. SelectionShown' /\ Counted' /\ Remembered'
  BY <1>1 DEF Initialise, ConnectKeeps, SelectionShown, Counted, Remembered
<1> QED
  BY <1>2, <1>3, <1>4 DEF IInv

\* ConnectionLost keeps the invariant.
LEMMA ConnectionLostStep ==
  ASSUME IInv, ConnectionLost PROVE IInv'
<1>1. TypeOK /\ SelectionShown /\ Chain /\ KeysDelivered /\ Counted /\ Remembered
  BY DEF IInv
<1>2. TypeOK'
  BY <1>1 DEF ConnectionLost, ConnectKeeps, TypeOK
<1>3. Chain' /\ KeysDelivered'
  BY <1>1 DEF ConnectionLost, ConnectKeeps, Chain, Before, KeysDelivered
<1>4. SelectionShown' /\ Counted' /\ Remembered'
  BY <1>1 DEF ConnectionLost, ConnectKeeps, SelectionShown, Counted, Remembered
<1> QED
  BY <1>2, <1>3, <1>4 DEF IInv

\* PlayerResyncs keeps the invariant.
LEMMA PlayerResyncsStep ==
  ASSUME IInv, PlayerResyncs PROVE IInv'
<1>1. TypeOK /\ SelectionShown /\ Chain /\ KeysDelivered /\ Counted /\ Remembered
  BY DEF IInv
<1>2. flags' \in Flags
  <2>1. flags \in Flags
    BY <1>1 DEF TypeOK
  <2> QED
    BY <2>1 DEF PlayerResyncs
<1>3. TypeOK'
  BY <1>1, <1>2 DEF PlayerResyncs, TypeOK
<1>4. Chain' /\ KeysDelivered'
  BY <1>1 DEF PlayerResyncs, Chain, Before, KeysDelivered
<1>5. SelectionShown' /\ Counted' /\ Remembered'
  BY <1>1 DEF PlayerResyncs, SelectionShown, Counted, Remembered
<1> QED
  BY <1>3, <1>4, <1>5 DEF IInv

\* Nothing happens.
LEMMA StutteringStep ==
  ASSUME IInv, UNCHANGED vars PROVE IInv'
BY DEF vars, IInv, TypeOK, SelectionShown, Chain, Before, KeysDelivered, Counted, Remembered

--------------------------------------------------------------------------------
(***************************************************************************)
(* The theorems.                                                           *)
(***************************************************************************)
\* The invariant holds initially,
LEMMA InitEstablishes ==
  ASSUME Init PROVE IInv
<1>1. /\ input \in Seq(Events) /\ Len(input) = 0
      /\ held = "none" /\ mode \in {"connect", "servers", "fatal"}
  BY DEF Init
<1>2. controld \in Volumes
  <2>1. controld \in [volume : {0, VolumeTop}, muted : {FALSE}]
    BY DEF Init
  <2>2. PICK v \in {0, VolumeTop} : controld = [volume |-> v, muted |-> FALSE]
    BY <2>1
  <2>3. v \in 0..VolumeTop /\ FALSE \in BOOLEAN
    BY ParameterAssumption
  <2> QED
    BY <2>2, <2>3
<1>3. /\ menu \in Menus
      /\ last \in Histories
      /\ flags \in Flags
  BY DEF Init, NoMenu, NoPress, Items
<1>4. TypeOK
  BY <1>1, <1>2, <1>3, ParameterAssumption DEF Init, TypeOK
<1>5. Chain
  BY <1>1 DEF Init, Chain, Before, NoPress
<1>6. SelectionShown /\ KeysDelivered /\ Counted /\ Remembered
  BY <1>1 DEF Init, NoPress, SelectionShown, KeysDelivered, Counted, Remembered, Forwarded
<1> QED
  BY <1>4, <1>5, <1>6 DEF IInv

\* and every step keeps it.
LEMMA Inductive ==
  ASSUME IInv, [Next]_vars PROVE IInv'
<1>1. CASE User
  BY <1>1, UserSteps
<1>2. CASE Reading
  <2>1. CASE SelectServer
    BY <2>1, SelectServerStep
  <2>2. CASE MessageBox
    BY <2>2, MessageBoxStep
  <2>3. CASE MsgBox
    BY <2>3, MsgBoxStep
  <2>4. CASE VolumeKey
    BY <2>4, VolumeKeyStep
  <2>5. CASE MuteKey
    BY <2>5, MuteKeyStep
  <2>6. CASE ForwardKey
    BY <2>6, ForwardKeyStep
  <2>7. CASE PowerKey
    BY <2>7, PowerKeyStep
  <2>8. CASE MenuMove
    BY <2>8, MenuMoveStep
  <2>9. CASE MenuHome
    BY <2>9, MenuHomeStep
  <2>10. CASE MenuOk
    BY <2>10, MenuOkStep
  <2> QED
    BY <1>2, <2>1, <2>2, <2>3, <2>4, <2>5, <2>6, <2>7, <2>8, <2>9, <2>10 DEF Reading
<1>3. CASE Connected
  BY <1>3, ConnectedStep
<1>4. CASE Refused
  BY <1>4, RefusedStep
<1>5. CASE Initialise
  BY <1>5, InitialiseStep
<1>6. CASE ConnectionLost
  BY <1>6, ConnectionLostStep
<1>7. CASE PlayerResyncs
  BY <1>7, PlayerResyncsStep
<1>8. CASE UNCHANGED vars
  BY <1>8, StutteringStep
<1> QED
  BY <1>1, <1>2, <1>3, <1>4, <1>5, <1>6, <1>7, <1>8 DEF Next

\* The inductive invariant holds in every state of every behaviour of main and the
\* user (viewermenu.cpp, overlay.c:1270-1508, fbvnc_get_event).
THEOREM Invariance == Spec => []IInv
<1>1. Init => IInv
  BY InitEstablishes
<1>2. IInv /\ [Next]_vars => IInv'
  BY Inductive
<1> QED
  BY <1>1, <1>2, PTL DEF Spec

\* Every variable keeps its type: the volume on its scale, whatever keys are pressed
\* (vdrviewer.cpp:2501-2527), the selected server among those there are
\* (overlay.c:1270-1397), the selected item among those of the menu.
THEOREM TypeCorrect == Spec => []TypeOK
BY Invariance, PTL DEF IInv

\* The menu shows its selection (cMenu::ProcessKey).
THEOREM MenuShowsSelection == Spec => []SelectionShown
BY Invariance, PTL DEF IInv

\* The VDR gets every key as often as it should and never early, whichever places
\* its presses, repeats and release were read in (vdrviewer.cpp:2540-2555).
THEOREM DeliversKeys == Spec => []KeysDelivered
BY Invariance, PTL DEF IInv

\* A dialog misses no press but of the key that closed the one before
\* (viewermenu.cpp:413-424).
THEOREM TakesPresses == Spec => PressTaken
<1>1. ASSUME IInv, Misses PROVE Head(input).key = closer
  <2> DEFINE e == Head(input)
  <2>1. TypeOK /\ Chain /\ Remembered
    BY <1>1 DEF IInv
  <2>2. input # << >>
    <3>1. CASE input = << >>
      <4>1. input' = << >> \/ Len(input') \in Nat
        OBVIOUS
      <4> QED
        BY <1>1, <3>1, <4>1 DEF Misses
    <3> QED
      BY <3>1
  <2>3. /\ e \in Events
        /\ last.key = IF e.value = 1 THEN "none" ELSE e.key
    BY <2>1, <2>2, FirstEvent
  <2>4. e.value = 1 /\ e.key = rc_last_key
    <3>1. e.value = 1 /\ RcCode(e) = "none"
      BY <1>1 DEF Misses
    <3> QED
      BY <2>3, <3>1, ParameterAssumption DEF RcCode, Swallowed
  <2> QED
    BY <2>1, <2>3, <2>4, ParameterAssumption DEF Remembered
<1>2. IInv /\ [Next]_vars => [Misses => Head(input).key = closer]_vars
  BY <1>1
<1> QED
  BY <1>2, Invariance, PTL DEF Spec, PressTaken
================================================================================
