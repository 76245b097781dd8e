---------------------------- MODULE DeviceProofs ----------------------------
(* What the operators on device states preserve.                           *)
EXTENDS Devices, TLAPS

LEMMA ResetDeviceType == ResetDevice \in Device
BY DeviceAssumption DEF ResetDevice, Device

LEMMA RaiseType ==
  ASSUME NEW d \in Device, NEW e \in BOOLEAN, NEW s \in Sources
  PROVE  Raise(d, e, s) \in Device
BY DEF Raise, Device

LEMMA TickType ==
  ASSUME NEW d \in Device
  PROVE  Tick(d) \in Device
<1>1. Decremented(d) \in 0 .. MaxPeriod
  BY DeviceAssumption DEF Decremented, Device
<1>2. [d EXCEPT !.count = Decremented(d)] \in Device
  BY <1>1 DEF Device
<1>3. [d EXCEPT !.count = d.period] \in Device
  BY DEF Device
<1>4. d.timerIrq \in BOOLEAN /\ "timer" \in Sources
  BY DEF Device, Sources
<1> QED BY <1>2, <1>3, <1>4, RaiseType DEF Tick

LEMMA PollType ==
  ASSUME NEW d \in Device, NEW arrived \in BOOLEAN
  PROVE  Poll(d, arrived) \in Device
<1>1. \A e \in Device : TakeByte(e, arrived) \in Device
  <2> SUFFICES ASSUME NEW e \in Device PROVE TakeByte(e, arrived) \in Device
    OBVIOUS
  <2>1. [e EXCEPT !.rxReady = TRUE] \in Device /\ e.rxIrq \in BOOLEAN /\ "rx" \in Sources
    BY DEF Device, Sources
  <2> QED BY <2>1, RaiseType DEF TakeByte
<1>2. [d EXCEPT !.divider = 0] \in Device
  BY DeviceAssumption DEF Device
<1>3. ~Polls(d) => [d EXCEPT !.divider = @ + 1] \in Device
  BY DeviceAssumption DEF Device, Polls
<1> QED BY <1>1, <1>2, <1>3 DEF Poll
-----------------------------------------------------------------------------
(* No device takes back an interrupt it has latched.                       *)

LEMMA RaiseLatched ==
  ASSUME NEW d \in Device, NEW e \in BOOLEAN, NEW s \in Sources
  PROVE  d.pending \subseteq Raise(d, e, s).pending
BY DEF Raise, Device

LEMMA TickLatched ==
  ASSUME NEW d \in Device
  PROVE  d.pending \subseteq Tick(d).pending
<1> DEFINE e == [d EXCEPT !.count = d.period]
<1>1. e \in Device /\ e.pending = d.pending /\ d.timerIrq \in BOOLEAN /\ "timer" \in Sources
  BY DEF Device, Sources
<1>2. [d EXCEPT !.count = Decremented(d)].pending = d.pending
  BY DEF Device
<1> HIDE DEF e
<1>3. d.pending \subseteq Raise(e, d.timerIrq, "timer").pending
  BY <1>1, RaiseLatched
<1> QED BY <1>2, <1>3 DEF Tick, e

LEMMA PollLatched ==
  ASSUME NEW d \in Device, NEW arrived \in BOOLEAN
  PROVE  d.pending \subseteq Poll(d, arrived).pending
<1>1. ASSUME NEW b \in Device PROVE b.pending \subseteq TakeByte(b, arrived).pending
  <2> DEFINE e == [b EXCEPT !.rxReady = TRUE]
  <2>1. e \in Device /\ e.pending = b.pending /\ b.rxIrq \in BOOLEAN /\ "rx" \in Sources
    BY DEF Device, Sources
  <2> HIDE DEF e
  <2>2. b.pending \subseteq Raise(e, b.rxIrq, "rx").pending
    BY <2>1, RaiseLatched
  <2> QED BY <2>2 DEF TakeByte, e
<1>2. [d EXCEPT !.divider = 0] \in Device /\ [d EXCEPT !.divider = 0].pending = d.pending
  BY DeviceAssumption DEF Device
<1>3. [d EXCEPT !.divider = @ + 1].pending = d.pending
  BY DEF Device
<1>4. d.pending \subseteq TakeByte([d EXCEPT !.divider = 0], arrived).pending
  BY <1>1, <1>2
<1> QED BY <1>3, <1>4 DEF Poll
=============================================================================
