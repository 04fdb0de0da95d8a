-------------------------- MODULE JitsiCallProofs --------------------------
(***************************************************************************)
(* Proofs about JitsiCall, for every set of devices and every scenario:    *)
(* any number of starts, failures, crashes, resends and departures.        *)
(*                                                                         *)
(* The transitions of a call are first described by what they may change   *)
(* (Comes: the connection, its updates, its timer); the invariant CallInv  *)
(* is then kept by every action that does no more than its description.    *)
(***************************************************************************)
EXTENDS JitsiCall, Integers, SequenceTheorems, TLAPS

(* A call that holds a timer has one that runs. *)
Holds(c) == c.held => c.timers > 0
DeviceState == [call : CallOf, sends : Seq(Update), active : BOOLEAN, member : BOOLEAN]

(* What a client knows of the entry, and what the room lists, are sets of    *)
(* devices.                                                                  *)
LEMMA EntryType ==
    ASSUME CallTypeOK, NEW d \in Device
    PROVE  /\ known[d] \in 1 .. Len(entries) /\ Devices(d) \subseteq Device
           /\ Listed \subseteq Device
           /\ known[d] = Len(entries) => Devices(d) = Listed
<1>1. /\ known[d] \in 1 .. Len(entries) /\ Len(entries) \in Nat
      /\ \A i \in 1 .. Len(entries) : entries[i] \subseteq Device
  BY DEF CallTypeOK
<1>2. \A i \in 1 .. Len(entries) : Entry(i) \subseteq Device
  BY <1>1 DEF Entry
<1>3. Len(entries) \in 1 .. Len(entries)
  BY <1>1
<1> QED BY <1>1, <1>2, <1>3 DEF Devices, Listed

(* updateDevices sends updates. *)
LEMMA UpdateType ==
    ASSUME CallTypeOK, NEW d \in Device, NEW joined \in BOOLEAN
    PROVE  /\ \A why \in {"connect", "remove", "resend", "clean"}, devices \in SUBSET Device :
                 UpdateDevices(joined, why, devices) \in Seq(Update)
           /\ \A why \in {"connect", "remove", "resend", "clean"} :
                 AddOurDevice(joined, d, why) \in Seq(Update)
           /\ RemoveOurDevice(joined, d) \in Seq(Update)
<1>1. ASSUME NEW why \in {"connect", "remove", "resend", "clean"}, NEW devices \in SUBSET Device
      PROVE  UpdateDevices(joined, why, devices) \in Seq(Update)
  <2>1. [why |-> why, devices |-> devices] \in Update
    BY DEF Update
  <2> QED BY <2>1 DEF UpdateDevices
<1>2. Devices(d) \cup {d} \in SUBSET Device /\ Devices(d) \ {d} \in SUBSET Device
  BY EntryType
<1> QED BY <1>1, <1>2 DEF AddOurDevice, RemoveOurDevice

(* What setting the connection state does. *)
Effect(x, y, d, s) ==
    /\ Holds(y.call) /\ y.member = x.member
    /\ y.active = (s = "connected" \/ (x.active /\ s # "disconnected"))
    /\ y.call.state = s /\ y.call.starting = x.call.starting
    /\ y.call.joining = x.call.joining /\ y.call.listening = x.call.listening
    /\ y.call.hangingUp = x.call.hangingUp /\ y.call.inConference = x.call.inConference
    /\ s = "connected" /\ ~IsConnected(x.call.state) =>
          y.sends = x.sends \o AddOurDevice(x.member, d, "connect")
    /\ s = "disconnected" /\ IsConnected(x.call.state) =>
          /\ y.sends = x.sends \o RemoveOurDevice(x.member, d)
          /\ y.call.held = FALSE
          /\ y.call.timers = IF x.call.held THEN x.call.timers - 1 ELSE x.call.timers
    /\ (x.member \/ s # "connected") /\ s # "disconnected" =>
          y.call.timers = x.call.timers /\ y.call.held = x.call.held
    /\ ~(s = "connected" /\ ~IsConnected(x.call.state))
       /\ ~(s = "disconnected" /\ IsConnected(x.call.state)) =>
          /\ y.sends = x.sends
          /\ y.call.timers = x.call.timers /\ y.call.held = x.call.held

(* Setting connectionState, with the listeners of JitsiCall and CallStore,   *)
(* has that effect.                                                          *)
LEMMA SetStateIs ==
    ASSUME CallTypeOK, NEW d \in Device, NEW x \in DeviceState, Holds(x.call), NEW s \in Status
    PROVE  \E y \in DeviceState : y = SetState(x, d, s) /\ Effect(x, y, d, s)
<1> DEFINE joins == s = "connected" /\ ~IsConnected(x.call.state)
           leaves == s = "disconnected" /\ IsConnected(x.call.state)
           added == AddOurDevice(x.member, d, "connect")
           removed == RemoveOurDevice(x.member, d)
           now == [x.call EXCEPT !.state = s]
           c == IF leaves THEN ClearTimer(now) ELSE IF joins /\ ~x.member THEN SetTimer(now) ELSE now
           q == x.sends \o (IF joins THEN added ELSE IF leaves THEN removed ELSE <<>>)
           y == [x EXCEPT !.call = c, !.sends = q, !.active = (s = "connected") \/ (@ /\ s # "disconnected")]
<1>1. y = SetState(x, d, s)
  BY DEF SetState
<1>2. /\ x.call \in CallOf /\ x.sends \in Seq(Update) /\ x.active \in BOOLEAN /\ x.member \in BOOLEAN
  BY DEF DeviceState
<1>3. added \in Seq(Update) /\ removed \in Seq(Update)
  BY <1>2, UpdateType
<1> HIDE DEF added, removed
<1>4. /\ q \in Seq(Update)
      /\ joins => q = x.sends \o added
      /\ leaves => q = x.sends \o removed
      /\ ~joins /\ ~leaves => q = x.sends
  <2>1. /\ x.sends \o added \in Seq(Update) /\ x.sends \o removed \in Seq(Update)
        /\ x.sends \o <<>> = x.sends
    BY <1>2, <1>3
  <2> QED BY <1>2, <2>1
<1>5. /\ now \in CallOf /\ now.state = s /\ now.starting = x.call.starting
      /\ now.joining = x.call.joining /\ now.listening = x.call.listening
      /\ now.hangingUp = x.call.hangingUp /\ now.inConference = x.call.inConference
      /\ now.timers = x.call.timers /\ now.held = x.call.held
  BY <1>2 DEF CallOf
<1>6. now.timers \in Nat /\ now.held \in BOOLEAN /\ (now.held => now.timers > 0)
  BY <1>5, <1>2 DEF CallOf, Holds
<1> HIDE DEF now
<1>7. PICK n \in CallOf : n = now
  BY <1>5
<1>8. /\ ClearTimer(n) \in CallOf /\ ClearTimer(n).held = FALSE /\ ClearTimer(n).state = n.state
      /\ ClearTimer(n).timers = (IF n.held THEN n.timers - 1 ELSE n.timers)
      /\ ClearTimer(n).starting = n.starting /\ ClearTimer(n).joining = n.joining
      /\ ClearTimer(n).listening = n.listening /\ ClearTimer(n).hangingUp = n.hangingUp
      /\ ClearTimer(n).inConference = n.inConference
  <2>1. n.timers \in Nat /\ n.held \in BOOLEAN /\ (n.held => n.timers > 0)
    BY <1>6, <1>7
  <2>2. n.held => n.timers - 1 \in Nat
    BY <2>1
  <2> QED BY <2>1, <2>2 DEF ClearTimer, CallOf
<1>9. /\ SetTimer(n) \in CallOf /\ SetTimer(n).held = TRUE /\ SetTimer(n).state = n.state
      /\ SetTimer(n).timers = n.timers + 1
      /\ SetTimer(n).starting = n.starting /\ SetTimer(n).joining = n.joining
      /\ SetTimer(n).listening = n.listening /\ SetTimer(n).hangingUp = n.hangingUp
      /\ SetTimer(n).inConference = n.inConference
  <2>1. n.timers \in Nat /\ n.timers + 1 \in Nat
    BY <1>6, <1>7
  <2> QED BY <2>1 DEF SetTimer, CallOf
<1>10. /\ c \in CallOf /\ Holds(c) /\ c.state = s /\ c.starting = x.call.starting
       /\ c.joining = x.call.joining /\ c.listening = x.call.listening
       /\ c.hangingUp = x.call.hangingUp /\ c.inConference = x.call.inConference
       /\ leaves => c.held = FALSE /\ c.timers = IF x.call.held THEN x.call.timers - 1 ELSE x.call.timers
       /\ ~leaves /\ ~(joins /\ ~x.member) => c.timers = x.call.timers /\ c.held = x.call.held
  BY <1>5, <1>6, <1>7, <1>8, <1>9 DEF Holds
<1> HIDE DEF c, q
<1>11. /\ y \in DeviceState /\ y.call = c /\ y.sends = q /\ y.member = x.member
       /\ y.active = (s = "connected" \/ (x.active /\ s # "disconnected"))
  BY <1>2, <1>4, <1>10 DEF DeviceState
<1> HIDE DEF y
<1>12. Effect(x, y, d, s)
  BY <1>4, <1>10, <1>11 DEF added, removed, Effect
<1> QED BY <1>1, <1>11, <1>12

----------------------------------------------------------------------------
(* WHAT A DEVICE SENDS AS IT GOES FROM STATE x TO STATE y *)

(* Every update keeps the other devices; a device that is in the call in   *)
(* the end announces itself and lists itself last, or was in it all along. *)
Moves(x, y, d) ==
    \E q \in Seq(Update) :
        /\ y.sends = x.sends \o q
        /\ \A k \in DOMAIN q : Devices(d) \ {d} \subseteq q[k].devices
        /\ IsConnected(y.call.state) =>
              \/ q # <<>> /\ d \in q[Len(q)].devices /\ \E k \in DOMAIN q : q[k].why = "connect"
              \/ q = <<>> /\ IsConnected(x.call.state) /\ y.call.timers = x.call.timers

(* Where the user is in the room; no state ever holds a timer that does not  *)
(* run.                                                                      *)
Comes(x, y, d) ==
    /\ y \in DeviceState /\ Holds(y.call) /\ y.member = x.member
    /\ x.member => Moves(x, y, d)

(* What may happen in two moves may happen in one. *)
LEMMA MovesOn ==
    ASSUME NEW d \in Device, NEW x \in DeviceState, NEW y \in DeviceState, NEW z \in DeviceState,
           Comes(x, y, d), Comes(y, z, d)
    PROVE  Comes(x, z, d)
<1>1. x.member = y.member /\ y.member = z.member /\ z \in DeviceState /\ Holds(z.call)
  BY DEF Comes
<1>2. ASSUME x.member
      PROVE  Moves(x, z, d)
  <2>1. Moves(x, y, d) /\ Moves(y, z, d)
    BY <1>1, <1>2 DEF Comes
  <2>2. PICK p \in Seq(Update) :
          /\ y.sends = x.sends \o p
          /\ \A k \in DOMAIN p : Devices(d) \ {d} \subseteq p[k].devices
          /\ IsConnected(y.call.state) =>
                \/ p # <<>> /\ d \in p[Len(p)].devices /\ \E k \in DOMAIN p : p[k].why = "connect"
                \/ p = <<>> /\ IsConnected(x.call.state) /\ y.call.timers = x.call.timers
    BY <2>1 DEF Moves
  <2>3. PICK q \in Seq(Update) :
          /\ z.sends = y.sends \o q
          /\ \A k \in DOMAIN q : Devices(d) \ {d} \subseteq q[k].devices
          /\ IsConnected(z.call.state) =>
                \/ q # <<>> /\ d \in q[Len(q)].devices /\ \E k \in DOMAIN q : q[k].why = "connect"
                \/ q = <<>> /\ IsConnected(y.call.state) /\ z.call.timers = y.call.timers
    BY <2>1 DEF Moves
  <2>4. x.sends \in Seq(Update)
    BY DEF DeviceState
  <2>5. PICK r \in Seq(Update) : r = p \o q
    <3>1. p \o q \in Seq(Update)
      OBVIOUS
    <3> QED BY <3>1
  <2>6. z.sends = x.sends \o r
    <3>1. PICK w \in Seq(Update) : w = x.sends
      BY <2>4
    <3>2. (w \o p) \o q = w \o (p \o q)
      BY ConcatAssociative
    <3> QED BY <2>2, <2>3, <2>5, <3>1, <3>2
  <2>7. /\ Len(r) = Len(p) + Len(q) /\ Len(p) \in Nat /\ Len(q) \in Nat
        /\ DOMAIN p = 1 .. Len(p) /\ DOMAIN q = 1 .. Len(q) /\ DOMAIN r = 1 .. Len(r)
        /\ \A k \in 1 .. Len(p) : r[k] = p[k]
        /\ \A k \in 1 .. Len(q) : r[Len(p) + k] = q[k]
        /\ \A k \in 1 .. Len(r) : k \in 1 .. Len(p) \/ k - Len(p) \in 1 .. Len(q)
    BY <2>5
  <2>8. ASSUME NEW k \in DOMAIN r
        PROVE  Devices(d) \ {d} \subseteq r[k].devices
    <3>1. CASE k \in 1 .. Len(p)
      BY <2>2, <2>7, <3>1
    <3>2. CASE k - Len(p) \in 1 .. Len(q)
      <4>1. r[k] = q[k - Len(p)]
        <5>1. Len(p) + (k - Len(p)) = k
          BY <2>7
        <5> QED BY <2>7, <3>2, <5>1
      <4> QED BY <2>3, <2>7, <3>2, <4>1
    <3> QED BY <2>7, <3>1, <3>2
  <2>9. ASSUME IsConnected(z.call.state)
        PROVE  \/ r # <<>> /\ d \in r[Len(r)].devices /\ \E k \in DOMAIN r : r[k].why = "connect"
               \/ r = <<>> /\ IsConnected(x.call.state) /\ z.call.timers = x.call.timers
    <3>1. CASE q # <<>>
      <4>1. d \in q[Len(q)].devices /\ Len(q) \in 1 .. Len(q)
        BY <2>3, <2>9, <3>1
      <4>2. PICK k \in 1 .. Len(q) : q[k].why = "connect"
        BY <2>3, <2>7, <2>9, <3>1
      <4>3. Len(p) + k \in DOMAIN r /\ r[Len(p) + k].why = "connect"
        BY <2>7, <4>2
      <4>4. r # <<>> /\ r[Len(r)] = q[Len(q)]
        BY <2>7, <4>1
      <4> QED BY <4>1, <4>3, <4>4
    <3>2. CASE q = <<>>
      <4>1. r = p /\ IsConnected(y.call.state) /\ z.call.timers = y.call.timers
        BY <2>3, <2>5, <2>9, <3>2
      <4> QED BY <2>2, <4>1
    <3> QED BY <3>1, <3>2
  <2> QED BY <2>6, <2>8, <2>9 DEF Moves
<1> QED BY <1>1, <1>2 DEF Comes

(* Nothing is sent, and the connection stays. *)
LEMMA Stays ==
    ASSUME NEW d \in Device, NEW x \in DeviceState, NEW y \in DeviceState,
           Holds(x.call), y.member = x.member, y.sends = x.sends, y.call.timers = x.call.timers,
           y.call.held = x.call.held,
           IsConnected(y.call.state) => IsConnected(x.call.state)
    PROVE  Comes(x, y, d)
<1>1. x.sends \in Seq(Update)
  BY DEF DeviceState
<1>2. y.sends = x.sends \o <<>> /\ <<>> \in Seq(Update)
  BY <1>1
<1>3. Moves(x, y, d)
  <2>1. PICK q \in Seq(Update) : q = <<>>
    BY <1>2
  <2>2. DOMAIN q = {} /\ y.sends = x.sends \o q
    BY <1>2, <2>1
  <2> QED BY <2>1, <2>2 DEF Moves
<1> QED BY <1>3 DEF Comes, Holds

(* Setting connectionState is such a move. *)
LEMMA SetStateComes ==
    ASSUME CallTypeOK, NEW d \in Device, NEW x \in DeviceState, Holds(x.call), NEW s \in Status,
           s = "disconnecting" => IsConnected(x.call.state)
    PROVE  SetState(x, d, s) \in DeviceState /\ Comes(x, SetState(x, d, s), d)
<1>1. PICK y \in DeviceState : y = SetState(x, d, s) /\ Effect(x, y, d, s)
  BY SetStateIs
<1>2. x.member \in BOOLEAN /\ x.sends \in Seq(Update)
  BY DEF DeviceState
<1>3. CASE s = "connected" /\ ~IsConnected(x.call.state)
  <2>1. ASSUME x.member
        PROVE  Moves(x, y, d)
    <3>1. PICK u \in Update : u = [why |-> "connect", devices |-> Devices(d) \cup {d}]
      BY EntryType DEF Update
    <3>2. AddOurDevice(x.member, d, "connect") = <<u>>
      BY <2>1, <3>1 DEF AddOurDevice, UpdateDevices
    <3>3. PICK q \in Seq(Update) : q = <<u>>
      <4>1. <<u>> \in Seq(Update)
        OBVIOUS
      <4> QED BY <4>1
    <3>4. /\ Len(q) = 1 /\ q[1] = u /\ DOMAIN q = {1} /\ q # <<>>
          /\ u.why = "connect" /\ u.devices = Devices(d) \cup {d}
      BY <3>1, <3>3
    <3>5. y.sends = x.sends \o q
      BY <1>1, <1>3, <3>2, <3>3 DEF Effect
    <3> QED BY <3>4, <3>5 DEF Moves
  <2> QED BY <1>1, <2>1 DEF Comes, Effect
<1>4. CASE s = "disconnected" /\ IsConnected(x.call.state)
  <2>1. ASSUME x.member
        PROVE  Moves(x, y, d)
    <3>1. PICK u \in Update : u = [why |-> "remove", devices |-> Devices(d) \ {d}]
      BY EntryType DEF Update
    <3>2. RemoveOurDevice(x.member, d) = <<u>>
      BY <2>1, <3>1 DEF RemoveOurDevice, UpdateDevices
    <3>3. PICK q \in Seq(Update) : q = <<u>>
      <4>1. <<u>> \in Seq(Update)
        OBVIOUS
      <4> QED BY <4>1
    <3>4. DOMAIN q = {1} /\ q[1] = u /\ u.devices = Devices(d) \ {d}
      BY <3>1, <3>3
    <3>5. y.sends = x.sends \o q /\ ~IsConnected(y.call.state)
      BY <1>1, <1>4, <3>2, <3>3 DEF IsConnected, Effect
    <3> QED BY <3>4, <3>5 DEF Moves
  <2> QED BY <1>1, <2>1 DEF Comes, Effect
<1>5. CASE /\ ~(s = "connected" /\ ~IsConnected(x.call.state))
           /\ ~(s = "disconnected" /\ IsConnected(x.call.state))
  <2>1. IsConnected(y.call.state) => IsConnected(x.call.state)
    BY <1>1, <1>5 DEF IsConnected, Effect
  <2>2. /\ y.member = x.member /\ y.sends = x.sends /\ y.call.timers = x.call.timers
        /\ y.call.held = x.call.held
    BY <1>1, <1>5 DEF Effect
  <2>3. Comes(x, y, d)
    BY <2>1, <2>2, Stays
  <2> QED BY <1>1, <2>3
<1> QED BY <1>3, <1>4, <1>5

(* A state that differs in neither connection nor updates. *)
Alike(x, w) ==
    /\ w.member = x.member /\ w.sends = x.sends /\ w.active = x.active
    /\ w.call.timers = x.call.timers /\ w.call.held = x.call.held /\ w.call.state = x.call.state

(* A state that is alike is reached by such a move. *)
LEMMA AlikeComes ==
    ASSUME NEW d \in Device, NEW x \in DeviceState, NEW w \in DeviceState, Holds(x.call), Alike(x, w)
    PROVE  Comes(x, w, d) /\ Holds(w.call)
BY Stays DEF Alike, Holds

(* The transitions that Call.start, disconnect and the listeners make: x    *)
(* becomes w, whose connection state is set.                               *)
LEMMA TransitionsAre ==
    ASSUME CallTypeOK, NEW d \in Device, NEW x \in DeviceState, Holds(x.call)
    PROVE  /\ \E w \in DeviceState :
                 /\ Alike(x, w) /\ Connected(x, d) = SetState(w, d, "connected")
                 /\ ~w.call.joining /\ w.call.starting = x.call.starting
                 /\ w.call.hangingUp = x.call.hangingUp
           /\ \E w \in DeviceState :
                 /\ Alike(x, w) /\ SetDisconnected(x, d) = SetState(w, d, "disconnected")
                 /\ w.call.joining = x.call.joining /\ w.call.starting = x.call.starting
                 /\ w.call.hangingUp = x.call.hangingUp
           /\ \E w \in DeviceState :
                 /\ Alike(x, w) /\ BeginStart(x, d) = SetState(w, d, "widgetLoading")
                 /\ w.call.joining = x.call.joining /\ w.call.starting = x.call.starting + 1
                 /\ w.call.hangingUp = x.call.hangingUp
<1>1. x.call \in CallOf /\ x.call.listening \in Nat /\ x.call.starting \in Nat
  BY DEF DeviceState, CallOf
<1>2. x.call.listening + 1 \in Nat /\ x.call.starting + 1 \in Nat
  BY <1>1
<1>3. PICK n \in Nat : n = IF x.call.listening = 0 THEN 0 ELSE x.call.listening - 1
  BY <1>1
<1>4. PICK c \in CallOf : c = [x.call EXCEPT !.listening = @ + 1, !.joining = FALSE]
  BY <1>1, <1>2 DEF CallOf
<1>5. PICK w \in DeviceState : w = [x EXCEPT !.call = c]
  BY DEF DeviceState
<1>6. /\ Alike(x, w) /\ Connected(x, d) = SetState(w, d, "connected")
      /\ ~w.call.joining /\ w.call.starting = x.call.starting
      /\ w.call.hangingUp = x.call.hangingUp
  BY <1>1, <1>4, <1>5 DEF Connected, DeviceState, CallOf, Alike
<1>7. PICK e \in CallOf : e = [x.call EXCEPT !.listening = n]
  BY <1>1 DEF CallOf
<1>8. PICK v \in DeviceState : v = [x EXCEPT !.call = e]
  BY DEF DeviceState
<1>9. /\ Alike(x, v) /\ SetDisconnected(x, d) = SetState(v, d, "disconnected")
      /\ v.call.joining = x.call.joining /\ v.call.starting = x.call.starting
      /\ v.call.hangingUp = x.call.hangingUp
  BY <1>1, <1>3, <1>7, <1>8 DEF SetDisconnected, DeviceState, CallOf, Alike
<1>10. PICK b \in CallOf : b = [x.call EXCEPT !.starting = @ + 1]
  BY <1>1, <1>2 DEF CallOf
<1>11. PICK u \in DeviceState : u = [x EXCEPT !.call = b]
  BY DEF DeviceState
<1>12. /\ Alike(x, u) /\ BeginStart(x, d) = SetState(u, d, "widgetLoading")
       /\ u.call.joining = x.call.joining /\ u.call.starting = x.call.starting + 1
       /\ u.call.hangingUp = x.call.hangingUp
  BY <1>1, <1>10, <1>11 DEF BeginStart, DeviceState, CallOf, Alike
<1> QED BY <1>6, <1>9, <1>12

(* So are the transitions of Call. *)
LEMMA TransitionsCome ==
    ASSUME CallTypeOK, NEW d \in Device, NEW x \in DeviceState, Holds(x.call)
    PROVE  /\ Connected(x, d) \in DeviceState /\ Comes(x, Connected(x, d), d)
           /\ SetDisconnected(x, d) \in DeviceState /\ Comes(x, SetDisconnected(x, d), d)
           /\ BeginStart(x, d) \in DeviceState /\ Comes(x, BeginStart(x, d), d)
           /\ Released(x, d) \in DeviceState /\ Comes(x, Released(x, d), d)
<1>1. ASSUME NEW w \in DeviceState, Alike(x, w), NEW s \in Status, s # "disconnecting"
      PROVE  SetState(w, d, s) \in DeviceState /\ Comes(x, SetState(w, d, s), d)
  <2>1. Comes(x, w, d) /\ Holds(w.call)
    BY <1>1, AlikeComes
  <2>2. PICK z \in DeviceState : z = SetState(w, d, s) /\ Comes(w, z, d)
    BY <1>1, <2>1, SetStateComes
  <2> QED BY <2>1, <2>2, MovesOn
<1>2. {"connected", "disconnected", "widgetLoading"} \subseteq Status
  BY DEF Status
<1>3. Connected(x, d) \in DeviceState /\ Comes(x, Connected(x, d), d)
  BY <1>1, <1>2, TransitionsAre
<1>4. SetDisconnected(x, d) \in DeviceState /\ Comes(x, SetDisconnected(x, d), d)
  BY <1>1, <1>2, TransitionsAre
<1>5. BeginStart(x, d) \in DeviceState /\ Comes(x, BeginStart(x, d), d)
  BY <1>1, <1>2, TransitionsAre
<1>6. Released(x, d) \in DeviceState /\ Comes(x, Released(x, d), d)
  <2>1. CASE x.call.joining
    BY <1>3, <2>1 DEF Released
  <2>2. CASE ~x.call.joining
    <3>1. Released(x, d) = x
      BY <2>2 DEF Released
    <3>2. Comes(x, x, d)
      BY Stays
    <3> QED BY <3>1, <3>2
  <2> QED BY <2>1, <2>2
<1> QED BY <1>3, <1>4, <1>5, <1>6

(* The user hangs up, or something ends the call. *)
LEMMA EndsCome ==
    ASSUME CallTypeOK, NEW d \in Device, NEW x \in DeviceState, Holds(x.call)
    PROVE  /\ Released(BeginStart(SetDisconnected(x, d), d), d) \in DeviceState
           /\ Comes(x, Released(BeginStart(SetDisconnected(x, d), d), d), d)
           /\ Released(SetDisconnected(x, d), d) \in DeviceState
           /\ Comes(x, Released(SetDisconnected(x, d), d), d)
           /\ Connected(Connected(x, d), d) \in DeviceState
           /\ Comes(x, Connected(Connected(x, d), d), d)
<1>1. PICK y \in DeviceState : y = SetDisconnected(x, d) /\ Comes(x, y, d)
  BY TransitionsCome
<1>2. Holds(y.call)
  BY <1>1 DEF Comes
<1>3. PICK z \in DeviceState : z = BeginStart(y, d) /\ Comes(y, z, d)
  BY <1>2, TransitionsCome
<1>4. Holds(z.call)
  BY <1>3 DEF Comes
<1>5. PICK r \in DeviceState : r = Released(z, d) /\ Comes(z, r, d)
  BY <1>4, TransitionsCome
<1>6. PICK q \in DeviceState : q = Released(y, d) /\ Comes(y, q, d)
  BY <1>2, TransitionsCome
<1>7. Comes(x, z, d)
  BY <1>1, <1>3, MovesOn
<1>8. Comes(x, r, d) /\ Comes(x, q, d)
  BY <1>1, <1>5, <1>6, <1>7, MovesOn
<1>9. PICK u \in DeviceState : u = Connected(x, d) /\ Comes(x, u, d)
  BY TransitionsCome
<1>10. Holds(u.call)
  BY <1>9 DEF Comes
<1>11. PICK v \in DeviceState : v = Connected(u, d) /\ Comes(u, v, d)
  BY <1>10, TransitionsCome
<1>12. Comes(x, v, d)
  BY <1>9, <1>11, MovesOn
<1> QED BY <1>1, <1>3, <1>5, <1>6, <1>8, <1>9, <1>11, <1>12

----------------------------------------------------------------------------
(* WHAT THE ACTIONS OF A DEVICE DO *)

(* A call that knows a timer has one that runs; a client that is gone does *)
(* nothing, and none is unless a tab has ended.                            *)
Basis ==
    /\ CallTypeOK
    /\ \A d \in Device : Holds(call[d]) /\ (~up[d] => call[d] = NewCall /\ sends[d] = <<>> /\ ~cleaning[d])
    /\ callCount["crashes"] = 0 /\ callCount["faults"] = 0 => \A d \in Device : up[d]

(* What an action of a device does. *)
Acts(d) == \E x \in DeviceState : Becomes(d, x) /\ Comes(Now(d), x, d)

(* The present state of a device. *)
LEMMA NowType ==
    ASSUME Basis, NEW d \in Device
    PROVE  /\ Now(d) \in DeviceState /\ Holds(Now(d).call) /\ Now(d).call = call[d]
           /\ Now(d).sends = sends[d] /\ Now(d).active = activeCallRoomIds[d] /\ Now(d).member = member
           /\ call[d] \in CallOf
BY DEF Basis, CallTypeOK, Now, DeviceState

(* Every action of a device on its call is such a move, start first; *)
LEMMA StartActs ==
    ASSUME Basis, NEW d \in Device, Start(d)
    PROVE  Acts(d)
<1>1. PICK x \in DeviceState : x = BeginStart(Now(d), d) /\ Comes(Now(d), x, d)
  BY NowType, TransitionsCome DEF Basis
<1>2. Becomes(d, x)
  BY <1>1 DEF Start
<1> QED BY <1>1, <1>2 DEF Acts

(* the widget that is ready, also for a second start in the lobby; *)
LEMMA WidgetReadyActs ==
    ASSUME Basis, NEW d \in Device, WidgetReady(d)
    PROVE  Acts(d)
<1>1. PICK n \in DeviceState : n = Now(d) /\ Holds(n.call)
  BY NowType
<1>2. n.call \in CallOf /\ n.call.starting \in Nat /\ n.call.starting > 0
  BY <1>1, NowType DEF WidgetReady, CallOf
<1>3. n.call.starting - 1 \in Nat
  BY <1>2
<1>4. PICK c \in CallOf : c = [n.call EXCEPT !.starting = @ - 1]
  BY <1>2, <1>3 DEF CallOf
<1>5. PICK w \in DeviceState : w = [n EXCEPT !.call = c]
  BY <1>4 DEF DeviceState
<1>6. [Now(d) EXCEPT !.call.starting = @ - 1] = w
  BY <1>1, <1>2, <1>4, <1>5 DEF DeviceState, CallOf
<1>7. Alike(n, w)
  BY <1>2, <1>4, <1>5 DEF DeviceState, CallOf, Alike
<1>8. Comes(n, w, d) /\ Holds(w.call)
  BY <1>1, <1>7, AlikeComes
<1>9. PICK l \in DeviceState : l = SetState(w, d, "lobby") /\ Comes(w, l, d)
  BY <1>8, SetStateComes DEF Status, Basis
<1>10. Comes(n, l, d) /\ Holds(l.call)
  BY <1>8, <1>9, MovesOn DEF Comes
<1>11. CASE l.call.joining
  <2>1. Becomes(d, Connected(Connected(l, d), d))
    BY <1>6, <1>9, <1>11 DEF WidgetReady
  <2>2. PICK x \in DeviceState : x = Connected(Connected(l, d), d) /\ Comes(l, x, d)
    BY <1>10, EndsCome DEF Basis
  <2>3. Comes(n, x, d)
    BY <1>10, <2>2, MovesOn
  <2> QED BY <1>1, <2>1, <2>2, <2>3 DEF Acts
<1>12. CASE ~l.call.joining
  <2>1. Becomes(d, [l EXCEPT !.call.joining = TRUE])
    BY <1>6, <1>9, <1>12 DEF WidgetReady
  <2>2. PICK x \in DeviceState : x = [l EXCEPT !.call.joining = TRUE]
    BY DEF DeviceState, CallOf
  <2>3. Alike(l, x)
    BY <2>2 DEF Alike, DeviceState, CallOf
  <2>4. Comes(l, x, d)
    BY <1>10, <2>3, AlikeComes
  <2>5. Comes(n, x, d)
    BY <1>10, <2>4, MovesOn
  <2> QED BY <1>1, <2>1, <2>2, <2>5 DEF Acts
<1> QED BY <1>11, <1>12

(* the widget that has joined; *)
LEMMA JoinCallActs ==
    ASSUME Basis, NEW d \in Device, JoinCall(d)
    PROVE  Acts(d)
<1>1. PICK y \in DeviceState : y = Connected(Now(d), d) /\ Comes(Now(d), y, d)
  BY NowType, TransitionsCome DEF Basis
<1>2. PICK x \in DeviceState : x = [y EXCEPT !.call.inConference = TRUE]
  BY DEF DeviceState, CallOf
<1>3. Alike(y, x)
  BY <1>2 DEF Alike, DeviceState, CallOf
<1>4. Holds(y.call)
  BY <1>1 DEF Comes
<1>5. Comes(y, x, d)
  BY <1>3, <1>4, AlikeComes
<1>6. PICK n \in DeviceState : n = Now(d)
  BY NowType
<1>7. Comes(Now(d), x, d)
  BY <1>1, <1>5, <1>6, MovesOn
<1>8. Becomes(d, x)
  BY <1>1, <1>2 DEF JoinCall
<1> QED BY <1>7, <1>8 DEF Acts

(* performConnection that fails; *)
LEMMA JoinFailedActs ==
    ASSUME Basis, NEW d \in Device, JoinFailed(d)
    PROVE  Acts(d)
<1>1. PICK n \in DeviceState : n = Now(d) /\ Holds(n.call)
  BY NowType
<1>2. PICK w \in DeviceState : w = [n EXCEPT !.call.joining = FALSE]
  BY DEF DeviceState, CallOf
<1>3. Alike(n, w)
  BY <1>2 DEF Alike, DeviceState, CallOf
<1>4. Comes(n, w, d) /\ Holds(w.call)
  BY <1>1, <1>3, AlikeComes
<1>5. PICK x \in DeviceState : x = SetState(w, d, "disconnected") /\ Comes(w, x, d)
  BY <1>4, SetStateComes DEF Status, Basis
<1>6. Comes(n, x, d)
  BY <1>4, <1>5, MovesOn
<1>7. Becomes(d, x)
  BY <1>1, <1>2, <1>5 DEF JoinFailed
<1> QED BY <1>1, <1>6, <1>7 DEF Acts

(* onHangup, with the start that follows; *)
LEMMA OnHangupActs ==
    ASSUME Basis, NEW d \in Device, OnHangup(d)
    PROVE  Acts(d)
<1>1. PICK n \in DeviceState : n = Now(d) /\ Holds(n.call)
  BY NowType
<1>2. PICK w \in DeviceState : w = [n EXCEPT !.call.inConference = FALSE]
  BY DEF DeviceState, CallOf
<1>3. Alike(n, w)
  BY <1>2 DEF Alike, DeviceState, CallOf
<1>4. Comes(n, w, d) /\ Holds(w.call)
  BY <1>1, <1>3, AlikeComes
<1>5. PICK x \in DeviceState :
        x = Released(BeginStart(SetDisconnected(w, d), d), d) /\ Comes(w, x, d)
  BY <1>4, EndsCome DEF Basis
<1>6. Comes(n, x, d)
  BY <1>4, <1>5, MovesOn
<1>7. Becomes(d, x)
  BY <1>1, <1>2, <1>5 DEF OnHangup
<1> QED BY <1>1, <1>6, <1>7 DEF Acts

(* disconnect; *)
LEMMA DisconnectActs ==
    ASSUME Basis, NEW d \in Device, Disconnect(d)
    PROVE  Acts(d)
<1>1. IsConnected(Now(d).call.state)
  BY NowType DEF Disconnect
<1>2. PICK y \in DeviceState : y = SetState(Now(d), d, "disconnecting") /\ Comes(Now(d), y, d)
  BY <1>1, NowType, SetStateComes DEF Basis, Status
<1>3. PICK x \in DeviceState : x = [y EXCEPT !.call.hangingUp = TRUE]
  BY DEF DeviceState, CallOf
<1>4. Alike(y, x)
  BY <1>3 DEF Alike, DeviceState, CallOf
<1>5. Holds(y.call)
  BY <1>2 DEF Comes
<1>6. Comes(y, x, d)
  BY <1>4, <1>5, AlikeComes
<1>7. PICK n \in DeviceState : n = Now(d)
  BY NowType
<1>8. Comes(Now(d), x, d)
  BY <1>2, <1>6, <1>7, MovesOn
<1>9. Becomes(d, x)
  BY <1>2, <1>3 DEF Disconnect
<1> QED BY <1>8, <1>9 DEF Acts

(* its answer; *)
LEMMA DisconnectAnsweredActs ==
    ASSUME Basis, NEW d \in Device, DisconnectAnswered(d)
    PROVE  Acts(d)
<1>1. PICK n \in DeviceState : n = Now(d) /\ Holds(n.call)
  BY NowType
<1>2. PICK w \in DeviceState : w = [n EXCEPT !.call.hangingUp = FALSE, !.call.inConference = FALSE]
  BY DEF DeviceState, CallOf
<1>3. Alike(n, w)
  BY <1>2 DEF Alike, DeviceState, CallOf
<1>4. Comes(n, w, d) /\ Holds(w.call)
  BY <1>1, <1>3, AlikeComes
<1>5. PICK x \in DeviceState : x = Released(SetDisconnected(w, d), d) /\ Comes(w, x, d)
  BY <1>4, EndsCome DEF Basis
<1>6. Comes(n, x, d)
  BY <1>4, <1>5, MovesOn
<1>7. Becomes(d, x)
  BY <1>1, <1>2, <1>5 DEF DisconnectAnswered
<1> QED BY <1>1, <1>6, <1>7 DEF Acts

(* the listeners that run at the end of a call; *)
LEMMA EndedComes ==
    ASSUME CallTypeOK, NEW d \in Device, NEW x \in DeviceState, Holds(x.call)
    PROVE  Ended(x, d) \in DeviceState /\ Comes(x, Ended(x, d), d)
<1>1. CASE x.call.listening = 0
  <2>1. Ended(x, d) = x /\ Alike(x, x)
    BY <1>1 DEF Ended, Alike
  <2> QED BY <2>1, AlikeComes
<1>2. CASE x.call.listening # 0
  <2>1. PICK w \in DeviceState : w = [x EXCEPT !.call.listening = 0, !.call.inConference = FALSE]
    BY DEF DeviceState, CallOf
  <2>2. Alike(x, w)
    BY <2>1 DEF Alike, DeviceState, CallOf
  <2>3. Comes(x, w, d) /\ Holds(w.call)
    BY <2>2, AlikeComes
  <2>4. PICK z \in DeviceState : z = Released(SetDisconnected(w, d), d) /\ Comes(w, z, d)
    BY <2>3, EndsCome
  <2>5. Comes(x, z, d)
    BY <2>3, <2>4, MovesOn
  <2> QED BY <1>2, <2>1, <2>4, <2>5 DEF Ended
<1> QED BY <1>1, <1>2

(* and onStopMessaging. *)
LEMMA StopMessagingActs ==
    ASSUME Basis, NEW d \in Device, StopMessaging(d)
    PROVE  Acts(d)
<1>1. PICK x \in DeviceState : x = Ended(Now(d), d) /\ Comes(Now(d), x, d)
  BY NowType, EndedComes DEF Basis
<1>2. Becomes(d, x)
  BY <1>1 DEF StopMessaging
<1> QED BY <1>1, <1>2 DEF Acts

----------------------------------------------------------------------------
(* TYPES *)

(* What a scenario counts. *)
Bounds == {"starts", "faults", "crashes", "resends", "leaves"}

(* The counts of what happened only grow. *)
LEMMA CountGrows ==
    ASSUME CallTypeOK, NEW k \in Bounds, Happens(k) \/ UNCHANGED callCount
    PROVE  /\ callCount' \in [Bounds -> Nat]
           /\ \A j \in Bounds : callCount'[j] = 0 => callCount[j] = 0
           /\ Happens(k) => callCount'[k] # 0
<1>1. callCount \in [Bounds -> Nat] /\ callCount[k] \in Nat
  BY DEF CallTypeOK, Bounds
<1>2. CASE Happens(k)
  <2>1. callCount' = [callCount EXCEPT ![k] = callCount[k] + 1] /\ callCount[k] + 1 \in Nat
    BY <1>1, <1>2 DEF Happens
  <2> QED BY <1>1, <2>1
<1>3. CASE UNCHANGED callCount /\ ~Happens(k)
  BY <1>1, <1>3
<1> QED BY <1>2, <1>3

(* The actions that change the connection state. *)
Acting(d) ==
    \/ Start(d) \/ WidgetReady(d) \/ JoinCall(d) \/ JoinFailed(d) \/ OnHangup(d) \/ Disconnect(d)
    \/ DisconnectAnswered(d) \/ StopMessaging(d)

(* Such an action moves one device, which is up, and nothing of the room. *)
LEMMA ActingActs ==
    ASSUME Basis, NEW d \in Device, Acting(d)
    PROVE  /\ Acts(d) /\ up[d]
           /\ UNCHANGED <<up, known, entries, expired, member, callScenario>>
           /\ cleaning' \in [Device -> BOOLEAN] /\ \A e \in Device : cleaning'[e] => up[e]
           /\ \A e \in Device \ {d} : cleaning'[e] = cleaning[e]
           /\ Start(d) \/ cleaning'[d] = cleaning[d]
           /\ \E k \in Bounds : Happens(k) \/ UNCHANGED callCount
<1>1. Acts(d)
  BY StartActs, WidgetReadyActs, JoinCallActs, JoinFailedActs, OnHangupActs, DisconnectActs,
     DisconnectAnsweredActs, StopMessagingActs DEF Acting
<1>2. cleaning \in [Device -> BOOLEAN] /\ \A e \in Device : cleaning[e] => up[e]
  BY DEF Basis, CallTypeOK
<1>3. ~up[d] => call[d] = NewCall
  BY DEF Basis
<1>4. /\ ~IsConnected(NewCall.state) /\ ~(NewCall.starting > 0) /\ ~NewCall.joining
      /\ ~(NewCall.listening > 0) /\ ~NewCall.hangingUp /\ NewCall.state # "connected"
  BY DEF NewCall, IsConnected
<1>5. up[d]
  BY <1>3, <1>4 DEF Acting, Start, WidgetReady, JoinCall, JoinFailed, OnHangup, Disconnect,
     DisconnectAnswered, StopMessaging
<1>6. UNCHANGED <<up, known, entries, expired, member, callScenario>>
  BY DEF Acting, Start, WidgetReady, JoinCall, JoinFailed, OnHangup, Disconnect,
     DisconnectAnswered, StopMessaging, Unmoved, roomVars
<1>7. \/ Start(d) /\ cleaning' = [cleaning EXCEPT ![d] = TRUE]
      \/ cleaning' = cleaning
  BY DEF Acting, Start, WidgetReady, JoinCall, JoinFailed, OnHangup, Disconnect,
     DisconnectAnswered, StopMessaging, Unmoved
<1>8. \E k \in Bounds : Happens(k) \/ UNCHANGED callCount
  BY DEF Acting, Start, WidgetReady, JoinCall, JoinFailed, OnHangup, Disconnect,
     DisconnectAnswered, StopMessaging, Bounds
<1>9. /\ cleaning' \in [Device -> BOOLEAN]
      /\ \A e \in Device \ {d} : cleaning'[e] = cleaning[e]
      /\ Start(d) \/ cleaning'[d] = cleaning[d]
  BY <1>2, <1>7
<1>10. ASSUME NEW e \in Device, cleaning'[e]
       PROVE  up[e]
  <2>1. CASE e = d
    BY <1>5, <2>1
  <2>2. CASE e # d
    BY <1>2, <1>9, <1>10, <2>2
  <2> QED BY <2>1, <2>2
<1> QED BY <1>1, <1>5, <1>6, <1>8, <1>9, <1>10

(* It leaves the other devices as they are. *)
LEMMA ActsTypes ==
    ASSUME Basis, NEW d \in Device, Acts(d)
    PROVE  /\ call' \in [Device -> CallOf] /\ sends' \in [Device -> Seq(Update)]
           /\ activeCallRoomIds' \in [Device -> BOOLEAN]
           /\ Holds(call'[d])
           /\ \A e \in Device \ {d} : /\ call'[e] = call[e] /\ sends'[e] = sends[e]
                                      /\ activeCallRoomIds'[e] = activeCallRoomIds[e]
<1>1. PICK x \in DeviceState : Becomes(d, x) /\ Comes(Now(d), x, d)
  BY DEF Acts
<1>2. x.call \in CallOf /\ x.sends \in Seq(Update) /\ x.active \in BOOLEAN /\ Holds(x.call)
  BY <1>1 DEF DeviceState, Comes
<1>3. /\ call \in [Device -> CallOf] /\ sends \in [Device -> Seq(Update)]
      /\ activeCallRoomIds \in [Device -> BOOLEAN]
  BY DEF Basis, CallTypeOK
<1> QED BY <1>1, <1>2, <1>3 DEF Becomes

(* A sequence less one element. *)
LEMMA RemoveAtType ==
    ASSUME NEW S, NEW s \in Seq(S), NEW i \in DOMAIN s
    PROVE  s[i] \in S /\ RemoveAt(s, i) \in Seq(S)
<1>1. /\ SubSeq(s, 1, i - 1) \in Seq(S) /\ SubSeq(s, i + 1, Len(s)) \in Seq(S)
      /\ s[i] \in S
  OBVIOUS
<1> QED BY <1>1 DEF RemoveAt

(* What is left to show of the actions that do not change up. *)
LEMMA BasisKept ==
    ASSUME Basis, NEW k \in Bounds, Happens(k) \/ UNCHANGED callCount,
           UNCHANGED <<up, callScenario>>, expired' \in 0 .. Len(entries'),
           call' \in [Device -> CallOf], sends' \in [Device -> Seq(Update)],
           activeCallRoomIds' \in [Device -> BOOLEAN], cleaning' \in [Device -> BOOLEAN],
           known' \in [Device -> 1 .. Len(entries')], entries' \in Seq(SUBSET Device),
           member' \in BOOLEAN,
           \A e \in Device : Holds(call'[e]) /\ (~up[e] => call'[e] = NewCall /\ sends'[e] = <<>> /\ ~cleaning'[e])
    PROVE  Basis'
<1>1. callCount' \in [Bounds -> Nat] /\ \A j \in Bounds : callCount'[j] = 0 => callCount[j] = 0
  BY CountGrows DEF Basis
<1>2. CallTypeOK'
  BY <1>1 DEF Basis, CallTypeOK, Bounds
<1>3. callCount'["crashes"] = 0 /\ callCount'["faults"] = 0 => \A d \in Device : up[d]
  BY <1>1 DEF Basis, Bounds
<1> QED BY <1>2, <1>3 DEF Basis

(* The actions on a call keep the basis, *)
LEMMA BasisActing ==
    ASSUME Basis, NEW d \in Device, Acting(d)
    PROVE  Basis'
<1>1. /\ Acts(d) /\ up[d]
      /\ UNCHANGED <<up, known, entries, expired, member, callScenario>>
      /\ cleaning' \in [Device -> BOOLEAN] /\ \A e \in Device : cleaning'[e] => up[e]
  BY ActingActs
<1>2. PICK k \in Bounds : Happens(k) \/ UNCHANGED callCount
  BY ActingActs
<1>3. /\ call' \in [Device -> CallOf] /\ sends' \in [Device -> Seq(Update)]
      /\ activeCallRoomIds' \in [Device -> BOOLEAN]
      /\ Holds(call'[d])
      /\ \A e \in Device \ {d} : call'[e] = call[e] /\ sends'[e] = sends[e]
  BY <1>1, ActsTypes
<1>4. /\ expired' \in 0 .. Len(entries') /\ known' \in [Device -> 1 .. Len(entries')]
      /\ entries' \in Seq(SUBSET Device) /\ member' \in BOOLEAN
  BY <1>1 DEF Basis, CallTypeOK
<1>5. ASSUME NEW e \in Device
      PROVE  Holds(call'[e]) /\ (~up[e] => call'[e] = NewCall /\ sends'[e] = <<>> /\ ~cleaning'[e])
  <2>1. CASE e = d
    BY <1>1, <1>3, <2>1
  <2>2. CASE e # d
    BY <1>1, <1>3, <2>2 DEF Basis
  <2> QED BY <2>1, <2>2
<1> QED BY <1>1, <1>2, <1>3, <1>4, <1>5, BasisKept

(* and so does every step. *)
LEMMA BasisStep ==
    ASSUME Basis, [CallNext]_callVars
    PROVE  Basis'
<1> USE DEF Bounds
<1>1. /\ call \in [Device -> CallOf] /\ sends \in [Device -> Seq(Update)]
      /\ up \in [Device -> BOOLEAN] /\ activeCallRoomIds \in [Device -> BOOLEAN]
      /\ cleaning \in [Device -> BOOLEAN] /\ known \in [Device -> 1 .. Len(entries)]
      /\ entries \in Seq(SUBSET Device) /\ expired \in 0 .. Len(entries) /\ member \in BOOLEAN
      /\ callCount \in [Bounds -> Nat] /\ callScenario \in Scenarios
      /\ Len(entries) \in Nat
      /\ \A e \in Device : Holds(call[e]) /\ (~up[e] => call[e] = NewCall /\ sends[e] = <<>> /\ ~cleaning[e])
  BY DEF Basis, CallTypeOK
<1>2. /\ NewCall \in CallOf /\ Holds(NewCall)
      /\ ~(NewCall.starting > 0) /\ NewCall.listening = 0 /\ ~NewCall.hangingUp /\ ~(NewCall.timers > 0)
  BY DEF NewCall, CallOf, Status, Holds
<1>3. \A S \in SUBSET Device : Append(entries, S) \in Seq(SUBSET Device)
                               /\ Len(Append(entries, S)) = Len(entries) + 1
  BY <1>1
<1>4. 1 .. Len(entries) \subseteq 1 .. (Len(entries) + 1) /\ 0 .. Len(entries) \subseteq 0 .. (Len(entries) + 1)
  BY <1>1
<1>5. ASSUME NEW d \in Device, WidgetTimeout(d)
      PROVE  Basis'
  <2>1. /\ call' = [call EXCEPT ![d].starting = @ - 1] /\ call[d] \in CallOf /\ call[d].starting \in Nat
        /\ call[d].starting > 0
    BY <1>1, <1>5 DEF WidgetTimeout, CallOf
  <2>2. call[d].starting - 1 \in Nat
    BY <2>1
  <2>3. PICK c \in CallOf : c = [call[d] EXCEPT !.starting = call[d].starting - 1] /\ Holds(c)
    <3>1. PICK c \in CallOf : c = [call[d] EXCEPT !.starting = call[d].starting - 1]
      BY <2>1, <2>2 DEF CallOf
    <3>2. c.timers = call[d].timers /\ c.held = call[d].held
      BY <2>1, <3>1 DEF CallOf
    <3>3. Holds(c)
      BY <1>1, <3>2 DEF Holds
    <3> QED BY <3>1, <3>3
  <2>4. call' = [call EXCEPT ![d] = c]
    BY <1>1, <2>1, <2>3
  <2>5. up[d]
    BY <1>1, <1>2, <2>1
  <2>6. /\ Happens("faults") /\ UNCHANGED <<up, callScenario, expired, entries, member>>
        /\ UNCHANGED <<known, activeCallRoomIds, sends, cleaning>>
    BY <1>5 DEF WidgetTimeout, Unmoved, roomVars
  <2>7. call' \in [Device -> CallOf] /\ \A e \in Device : Holds(call'[e]) /\ (~up[e] => call'[e] = NewCall)
    BY <1>1, <2>3, <2>4, <2>5
  <2> QED BY <1>1, <2>6, <2>7, BasisKept
<1>6. ASSUME NEW d \in Device, DisconnectFailed(d)
      PROVE  Basis'
  <2>1. call' = [call EXCEPT ![d].hangingUp = FALSE] /\ call[d] \in CallOf /\ call[d].hangingUp
    BY <1>1, <1>6 DEF DisconnectFailed
  <2>2. PICK c \in CallOf : c = [call[d] EXCEPT !.hangingUp = FALSE] /\ Holds(c)
    <3>1. PICK c \in CallOf : c = [call[d] EXCEPT !.hangingUp = FALSE]
      BY <2>1 DEF CallOf
    <3>2. c.timers = call[d].timers /\ c.held = call[d].held
      BY <2>1, <3>1 DEF CallOf
    <3>3. Holds(c)
      BY <1>1, <3>2 DEF Holds
    <3> QED BY <3>1, <3>3
  <2>3. call' = [call EXCEPT ![d] = c]
    BY <1>1, <2>1, <2>2
  <2>4. up[d]
    BY <1>1, <1>2, <2>1
  <2>5. /\ Happens("faults") /\ UNCHANGED <<up, callScenario, expired, entries, member>>
        /\ UNCHANGED <<known, activeCallRoomIds, sends, cleaning>>
    BY <1>6 DEF DisconnectFailed, Unmoved, roomVars
  <2>6. call' \in [Device -> CallOf] /\ \A e \in Device : Holds(call'[e]) /\ (~up[e] => call'[e] = NewCall)
    BY <1>1, <2>2, <2>3, <2>4
  <2> QED BY <1>1, <2>5, <2>6, BasisKept
<1>7. ASSUME NEW d \in Device, EntrySent(d)
      PROVE  Basis'
  <2>1. PICK i \in DOMAIN sends[d] :
          /\ entries' = Append(entries, sends[d][i].devices)
          /\ call' = [call EXCEPT ![d] = AfterSend(@, sends[d][i].why)]
          /\ sends' = [sends EXCEPT ![d] = RemoveAt(@, i)]
          /\ UNCHANGED <<up, activeCallRoomIds, known, cleaning, expired, member, callCount, callScenario>>
    BY <1>7 DEF EntrySent
  <2>2. PICK s \in Seq(Update) : s = sends[d] /\ i \in DOMAIN s
    BY <1>1, <2>1
  <2>3. s[i] \in Update /\ RemoveAt(s, i) \in Seq(Update) /\ s[i].devices \in SUBSET Device
    <3>1. s[i] \in Update /\ RemoveAt(s, i) \in Seq(Update)
      BY <2>2, RemoveAtType
    <3> QED BY <3>1 DEF Update
  <2>4. PICK c \in CallOf : c = AfterSend(call[d], s[i].why) /\ Holds(c)
    <3>1. PICK b \in CallOf : b = call[d] /\ b.timers \in Nat /\ Holds(b)
      BY <1>1 DEF CallOf
    <3>2. b.timers + 1 \in Nat /\ b.timers + 1 > 0
      BY <3>1
    <3>3. PICK t \in CallOf : t = SetTimer(b)
      BY <3>2 DEF SetTimer, CallOf
    <3>4. t.timers = b.timers + 1
      BY <3>1, <3>3 DEF SetTimer, CallOf
    <3>5. Holds(t)
      BY <3>2, <3>4 DEF Holds
    <3> QED BY <3>1, <3>3, <3>5 DEF AfterSend
  <2>5. up[d]
    BY <1>1, <2>1, <2>2
  <2>6. /\ call' = [call EXCEPT ![d] = c] /\ call' \in [Device -> CallOf]
        /\ sends' = [sends EXCEPT ![d] = RemoveAt(s, i)] /\ sends' \in [Device -> Seq(Update)]
        /\ entries' \in Seq(SUBSET Device) /\ Len(entries') = Len(entries) + 1
    BY <1>1, <1>3, <2>1, <2>2, <2>3, <2>4
  <2>7. known' \in [Device -> 1 .. Len(entries')] /\ expired' \in 0 .. Len(entries')
    BY <1>1, <1>4, <2>1, <2>6
  <2>8. \A e \in Device : Holds(call'[e]) /\ (~up[e] => call'[e] = NewCall /\ sends'[e] = <<>> /\ ~cleaning'[e])
    BY <1>1, <2>1, <2>4, <2>5, <2>6
  <2>9. "faults" \in Bounds
    OBVIOUS
  <2> QED BY <1>1, <2>1, <2>6, <2>7, <2>8, <2>9, BasisKept
<1>8. ASSUME NEW d \in Device, SendFailed(d)
      PROVE  Basis'
  <2>1. PICK i \in DOMAIN sends[d] :
          /\ Happens("faults")
          /\ sends' = [sends EXCEPT ![d] = RemoveAt(@, i)]
          /\ UNCHANGED <<call, up, activeCallRoomIds, known, cleaning, roomVars, callScenario>>
    BY <1>8 DEF SendFailed
  <2>2. PICK s \in Seq(Update) : s = sends[d]
    BY <1>1
  <2>3. RemoveAt(s, i) \in Seq(Update)
    BY <2>1, <2>2, RemoveAtType
  <2>4. up[d]
    BY <1>1, <2>1, <2>2
  <2>5. sends' = [sends EXCEPT ![d] = RemoveAt(s, i)] /\ sends' \in [Device -> Seq(Update)]
    BY <1>1, <2>1, <2>2, <2>3
  <2> QED BY <1>1, <2>1, <2>4, <2>5, BasisKept DEF roomVars
<1>9. ASSUME NEW d \in Device, Resend(d)
      PROVE  Basis'
  <2>1. PICK s \in Seq(Update) : s = sends[d] \o AddOurDevice(member, d, "resend")
    <3>1. PICK p \in Seq(Update) : p = sends[d]
      BY <1>1
    <3>2. PICK u \in Seq(Update) : u = AddOurDevice(member, d, "resend")
      BY <1>1, UpdateType DEF Basis
    <3>3. p \o u \in Seq(Update)
      OBVIOUS
    <3> QED BY <3>1, <3>2, <3>3
  <2>2. sends' = [sends EXCEPT ![d] = s] /\ up[d]
    BY <1>1, <1>2, <1>9, <2>1 DEF Resend
  <2>3. /\ Happens("resends") /\ UNCHANGED <<up, callScenario, expired, entries, member>>
        /\ UNCHANGED <<known, activeCallRoomIds, call, cleaning>>
    BY <1>9 DEF Resend, roomVars
  <2>4. sends' \in [Device -> Seq(Update)] /\ \A e \in Device : ~up[e] => sends'[e] = <<>>
    BY <1>1, <2>2
  <2> QED BY <1>1, <2>3, <2>4, BasisKept
<1>10. ASSUME NEW d \in Device, Clean(d)
       PROVE  Basis'
  <2>1. PICK seen \in SUBSET Device :
          LET gone == Inactive(d, seen)
          IN sends' = [sends EXCEPT ![d] =
                @ \o (IF gone = {} THEN <<>> ELSE UpdateDevices(member, "clean", Devices(d) \ gone))]
    BY <1>10 DEF Clean
  <2>2. PICK left \in SUBSET Device : left = Devices(d) \ Inactive(d, seen)
    BY EntryType DEF Basis
  <2>3. PICK u \in Seq(Update) : u = UpdateDevices(member, "clean", left)
    BY <1>1, UpdateType DEF Basis
  <2>4. PICK s \in Seq(Update) : s = sends[d] \o (IF Inactive(d, seen) = {} THEN <<>> ELSE u)
    <3>1. PICK p \in Seq(Update) : p = sends[d]
      BY <1>1
    <3>2. p \o u \in Seq(Update) /\ p \o <<>> = p
      OBVIOUS
    <3> QED BY <3>1, <3>2
  <2>5. sends' = [sends EXCEPT ![d] = s]
    BY <2>1, <2>2, <2>3, <2>4
  <2>6. up[d] /\ cleaning' = [cleaning EXCEPT ![d] = FALSE]
    BY <1>1, <1>10 DEF Clean
  <2> QED BY <1>1, <1>10, <2>5, <2>6, BasisKept DEF Clean, roomVars
<1>11. ASSUME NEW d \in Device, Sync(d)
       PROVE  Basis'
  <2>1. known' = [known EXCEPT ![d] = known[d] + 1] /\ known[d] + 1 \in 1 .. Len(entries)
    BY <1>1, <1>11 DEF Sync
  <2>2. UNCHANGED <<call, up, activeCallRoomIds, sends, cleaning, entries, expired, member, callCount, callScenario>>
    BY <1>11 DEF Sync, roomVars
  <2>3. known' \in [Device -> 1 .. Len(entries')]
    BY <1>1, <2>1, <2>2
  <2>4. "faults" \in Bounds
    OBVIOUS
  <2> QED BY <1>1, <2>2, <2>3, <2>4, BasisKept
<1>12. ASSUME NEW d \in Device, Gone(d), Happens("crashes") \/ Happens("faults"),
              entries' \in Seq(SUBSET Device), Len(entries') \in {Len(entries), Len(entries) + 1},
              activeCallRoomIds' \in [Device -> BOOLEAN]
       PROVE  Basis'
  <2>1. PICK k \in {"crashes", "faults"} : Happens(k)
    BY <1>12
  <2>2. callCount' \in [Bounds -> Nat] /\ callCount'[k] # 0
    BY <2>1, CountGrows DEF Basis
  <2>3. <<>> \in Seq(Update)
    OBVIOUS
  <2>4. /\ call' = [call EXCEPT ![d] = NewCall] /\ sends' = [sends EXCEPT ![d] = <<>>]
        /\ cleaning' = [cleaning EXCEPT ![d] = FALSE] /\ up' = [up EXCEPT ![d] = FALSE]
        /\ UNCHANGED <<known, expired, member, callScenario>>
    BY <1>12 DEF Gone
  <2>5. known' \in [Device -> 1 .. Len(entries')] /\ expired' \in 0 .. Len(entries')
    BY <1>1, <1>4, <1>12, <2>4
  <2>6. CallTypeOK'
    <3>1. /\ call' \in [Device -> CallOf] /\ sends' \in [Device -> Seq(Update)]
          /\ cleaning' \in [Device -> BOOLEAN] /\ up' \in [Device -> BOOLEAN]
      BY <1>1, <1>2, <2>3, <2>4
    <3> QED BY <1>1, <1>12, <2>2, <2>4, <2>5, <3>1 DEF CallTypeOK
  <2>7. \A e \in Device : Holds(call'[e]) /\ (~up'[e] => call'[e] = NewCall /\ sends'[e] = <<>> /\ ~cleaning'[e])
    BY <1>1, <1>2, <2>4
  <2> QED BY <2>1, <2>2, <2>6, <2>7 DEF Basis
<1>13. ASSUME NEW d \in Device, Crash(d)
       PROVE  Basis'
  BY <1>1, <1>12, <1>13 DEF Crash
<1>14. ASSUME NEW d \in Device, BeforeUnload(d)
       PROVE  Basis'
  <2>1. Devices(d) \ {d} \in SUBSET Device
    BY EntryType DEF Basis
  <2>2. entries' \in {entries, Append(entries, Devices(d) \ {d})}
    BY <1>14 DEF BeforeUnload
  <2>3. entries' \in Seq(SUBSET Device) /\ Len(entries') \in {Len(entries), Len(entries) + 1}
    BY <1>1, <1>3, <2>1, <2>2
  <2>4. activeCallRoomIds' \in [Device -> BOOLEAN]
    BY <1>1, <1>14 DEF BeforeUnload
  <2> QED BY <1>12, <1>14, <2>3, <2>4 DEF BeforeUnload
<1>15. ASSUME NEW d \in Device, OnReady(d)
       PROVE  Basis'
  <2>1. /\ up' = [up EXCEPT ![d] = TRUE] /\ known' = [known EXCEPT ![d] = Len(entries)]
        /\ cleaning' = [cleaning EXCEPT ![d] = activeCallRoomIds[d]]
        /\ activeCallRoomIds' = [activeCallRoomIds EXCEPT ![d] = FALSE]
        /\ UNCHANGED <<call, sends, entries, expired, member, callCount, callScenario>>
    BY <1>15 DEF OnReady, roomVars
  <2>2. Len(entries) \in 1 .. Len(entries)
    BY <1>1
  <2>3. CallTypeOK'
    <3>1. /\ up' \in [Device -> BOOLEAN] /\ known' \in [Device -> 1 .. Len(entries)]
          /\ cleaning' \in [Device -> BOOLEAN] /\ activeCallRoomIds' \in [Device -> BOOLEAN]
      BY <1>1, <2>1, <2>2
    <3> QED BY <1>1, <2>1, <3>1 DEF CallTypeOK
  <2>4. \A e \in Device : up[e] => up'[e]
    BY <1>1, <2>1
  <2>5. \A e \in Device : ~up'[e] => ~up[e] /\ cleaning'[e] = cleaning[e]
    BY <1>1, <2>1
  <2> QED BY <1>1, <2>1, <2>3, <2>4, <2>5 DEF Basis
<1>16. ASSUME Expire
       PROVE  Basis'
  <2>1. /\ expired' = Len(entries)
        /\ UNCHANGED <<call, up, activeCallRoomIds, known, sends, cleaning, entries, member, callCount, callScenario>>
    BY <1>16 DEF Expire, deviceVars
  <2>2. expired' \in 0 .. Len(entries')
    BY <1>1, <2>1
  <2>3. "faults" \in Bounds
    OBVIOUS
  <2> QED BY <1>1, <2>1, <2>2, <2>3, BasisKept
<1>17. ASSUME MyMembership
       PROVE  Basis'
  <2> DEFINE Then(d) == IF member THEN Ended([Now(d) EXCEPT !.member = FALSE], d) ELSE Now(d)
  <2>1. /\ call' = [d \in Device |-> Then(d).call]
        /\ activeCallRoomIds' = [d \in Device |-> Then(d).active]
        /\ member' = ~member /\ UNCHANGED <<up, known, sends, cleaning, entries, expired, callScenario>>
        /\ Happens("leaves") \/ UNCHANGED callCount
    BY <1>17 DEF MyMembership
  <2>2. ASSUME NEW d \in Device
        PROVE  /\ Then(d).call \in CallOf /\ Then(d).active \in BOOLEAN /\ Holds(Then(d).call)
               /\ ~up[d] => Then(d).call = NewCall
    <3>1. CASE member
      <4>1. PICK n \in DeviceState : n = Now(d) /\ Holds(n.call) /\ n.call = call[d]
        BY NowType
      <4>2. PICK w \in DeviceState : w = [n EXCEPT !.member = FALSE]
        BY DEF DeviceState
      <4>3. w.call = n.call
        BY <4>2 DEF DeviceState
      <4>4. PICK z \in DeviceState : z = Ended(w, d) /\ Comes(w, z, d)
        BY <4>1, <4>3, EndedComes DEF Basis
      <4>5. Then(d) = z
        BY <3>1, <4>1, <4>2, <4>4
      <4>6. ~up[d] => z = w
        BY <1>1, <1>2, <4>1, <4>3, <4>4 DEF Ended
      <4> HIDE DEF Then
      <4> QED BY <1>1, <4>1, <4>3, <4>4, <4>5, <4>6 DEF DeviceState, Comes
    <3>2. CASE ~member
      <4>1. Then(d) = Now(d)
        BY <3>2
      <4> HIDE DEF Then
      <4> QED BY <1>1, <4>1, NowType DEF DeviceState
    <3> QED BY <3>1, <3>2
  <2> HIDE DEF Then
  <2>3. /\ call' \in [Device -> CallOf] /\ activeCallRoomIds' \in [Device -> BOOLEAN]
        /\ \A e \in Device : Holds(call'[e]) /\ (~up[e] => call'[e] = NewCall)
    BY <2>1, <2>2
  <2>4. PICK k \in Bounds : Happens(k) \/ UNCHANGED callCount
    BY <2>1
  <2>5. member' \in BOOLEAN
    BY <1>1, <2>1
  <2> QED BY <1>1, <2>1, <2>3, <2>4, <2>5, BasisKept
<1>18. CASE UNCHANGED callVars
  BY <1>18 DEF callVars, deviceVars, roomVars, Basis, CallTypeOK
<1>19. ASSUME CallNext, \A d \in Device : ~Acting(d)
       PROVE  Basis'
  <2>1. CASE \E d \in Device : \/ WidgetTimeout(d) \/ DisconnectFailed(d) \/ EntrySent(d) \/ SendFailed(d)
                               \/ Resend(d) \/ Clean(d)
    BY <1>5, <1>6, <1>7, <1>8, <1>9, <1>10, <2>1
  <2>2. CASE \/ \E d \in Device : Sync(d) \/ Crash(d) \/ BeforeUnload(d) \/ OnReady(d)
             \/ Expire \/ MyMembership
    BY <1>11, <1>13, <1>14, <1>15, <1>16, <1>17, <2>2
  <2> QED BY <1>19, <2>1, <2>2 DEF CallNext, Acting
<1> QED BY <1>18, <1>19, BasisActing

----------------------------------------------------------------------------
(* WHAT THE ACTIONS DO, ONE BY ONE *)

(* What the state of a device becomes. *)
LEMMA BecomesIs ==
    ASSUME Basis, NEW d \in Device, NEW x, Becomes(d, x)
    PROVE  call'[d] = x.call /\ sends'[d] = x.sends /\ activeCallRoomIds'[d] = x.active
BY DEF Basis, CallTypeOK, Becomes

(* The fields of a call that an action leaves as they are. *)
Keeps(d, names) ==
    /\ "sends" \in names => sends'[d] = sends[d]
    /\ "active" \in names => activeCallRoomIds'[d] = activeCallRoomIds[d]
    /\ "timer" \in names => call'[d].timers = call[d].timers /\ call'[d].held = call[d].held
    /\ "joining" \in names => call'[d].joining = call[d].joining
    /\ "starting" \in names => call'[d].starting = call[d].starting
    /\ "hangingUp" \in names => call'[d].hangingUp = call[d].hangingUp

(* In steady scenarios there is one start at a time, and each action does    *)
(* exactly this: start changes the state only,                               *)
LEMMA StartIs ==
    ASSUME Basis, NEW d \in Device, Start(d)
    PROVE  /\ call[d].state = "disconnected" /\ call'[d].state = "widgetLoading"
           /\ call'[d].starting = call[d].starting + 1 /\ cleaning'[d]
           /\ Keeps(d, {"sends", "active", "timer", "joining", "hangingUp"})
<1>1. PICK n \in DeviceState : n = Now(d) /\ Holds(n.call) /\ n.call = call[d]
                               /\ n.sends = sends[d] /\ n.active = activeCallRoomIds[d]
  BY NowType
<1>2. PICK w \in DeviceState :
        /\ Alike(n, w) /\ BeginStart(n, d) = SetState(w, d, "widgetLoading")
        /\ w.call.joining = n.call.joining /\ w.call.starting = n.call.starting + 1
        /\ w.call.hangingUp = n.call.hangingUp
  BY <1>1, TransitionsAre DEF Basis
<1>3. Holds(w.call)
  BY <1>1, <1>2 DEF Holds, Alike
<1>4. PICK y \in DeviceState : y = SetState(w, d, "widgetLoading") /\ Effect(w, y, d, "widgetLoading")
  BY <1>3, SetStateIs DEF Basis, Status
<1>5. Becomes(d, y)
  BY <1>1, <1>2, <1>4 DEF Start
<1>6. call'[d] = y.call /\ sends'[d] = y.sends /\ activeCallRoomIds'[d] = y.active
  BY <1>5, BecomesIs
<1>7. call[d].state = "disconnected" /\ cleaning'[d]
  BY DEF Start, Basis, CallTypeOK
<1>8. n.active \in BOOLEAN
  BY DEF DeviceState
<1> QED BY <1>1, <1>2, <1>4, <1>6, <1>7, <1>8 DEF Effect, Alike, Keeps

(* the widget that is ready leads to the lobby, *)
LEMMA WidgetReadyIs ==
    ASSUME Basis, NEW d \in Device, WidgetReady(d), ~call[d].joining
    PROVE  /\ call[d].starting > 0 /\ call'[d].starting = call[d].starting - 1
           /\ call'[d].state = "lobby" /\ call'[d].joining
           /\ Keeps(d, {"sends", "active", "timer", "hangingUp"})
<1>1. PICK n \in DeviceState : n = Now(d) /\ Holds(n.call) /\ n.call = call[d]
                               /\ n.sends = sends[d] /\ n.active = activeCallRoomIds[d]
  BY NowType
<1>2. n.call \in CallOf /\ n.call.starting \in Nat /\ n.call.starting > 0
  BY <1>1 DEF WidgetReady, DeviceState, CallOf
<1>3. n.call.starting - 1 \in Nat
  BY <1>2
<1>4. PICK c \in CallOf : c = [n.call EXCEPT !.starting = @ - 1]
  BY <1>2, <1>3 DEF CallOf
<1>5. PICK w \in DeviceState : w = [n EXCEPT !.call = c]
  BY <1>4 DEF DeviceState
<1>6. [Now(d) EXCEPT !.call.starting = @ - 1] = w
  BY <1>1, <1>2, <1>4, <1>5 DEF DeviceState, CallOf
<1>7. /\ Alike(n, w) /\ w.call.joining = n.call.joining /\ w.call.starting = n.call.starting - 1
      /\ w.call.hangingUp = n.call.hangingUp
  BY <1>2, <1>4, <1>5 DEF DeviceState, CallOf, Alike
<1>8. Holds(w.call)
  BY <1>1, <1>7 DEF Alike, Holds
<1>9. PICK l \in DeviceState : l = SetState(w, d, "lobby") /\ Effect(w, l, d, "lobby")
  BY <1>8, SetStateIs DEF Status, Basis
<1>10. ~l.call.joining
  BY <1>1, <1>7, <1>9 DEF Effect
<1>11. PICK x \in DeviceState : x = [l EXCEPT !.call.joining = TRUE]
  BY DEF DeviceState, CallOf
<1>12. Becomes(d, x)
  BY <1>6, <1>9, <1>10, <1>11 DEF WidgetReady
<1>13. call'[d] = x.call /\ sends'[d] = x.sends /\ activeCallRoomIds'[d] = x.active
  BY <1>12, BecomesIs
<1>14. /\ x.sends = l.sends /\ x.active = l.active /\ x.call.joining
       /\ x.call.state = l.call.state /\ x.call.starting = l.call.starting
       /\ x.call.timers = l.call.timers /\ x.call.held = l.call.held
       /\ x.call.hangingUp = l.call.hangingUp
  BY <1>11 DEF DeviceState, CallOf
<1>15. n.active \in BOOLEAN
  BY DEF DeviceState
<1> QED BY <1>1, <1>2, <1>7, <1>9, <1>13, <1>14, <1>15 DEF Effect, Alike, Keeps

(* the widget that has joined announces the device, *)
LEMMA JoinCallIs ==
    ASSUME Basis, NEW d \in Device, JoinCall(d), ~IsConnected(call[d].state), member
    PROVE  /\ call[d].joining /\ ~call'[d].joining /\ call'[d].state = "connected" /\ Orderly(d)
           /\ sends'[d] = sends[d] \o << [why |-> "connect", devices |-> Devices(d) \cup {d}] >>
           /\ activeCallRoomIds'[d] = TRUE
           /\ Keeps(d, {"timer", "starting", "hangingUp"})
<1>1. PICK n \in DeviceState : n = Now(d) /\ Holds(n.call) /\ n.call = call[d]
                               /\ n.sends = sends[d] /\ n.member = member
  BY NowType
<1>2. PICK w \in DeviceState :
        /\ Alike(n, w) /\ Connected(n, d) = SetState(w, d, "connected")
        /\ ~w.call.joining /\ w.call.starting = n.call.starting
        /\ w.call.hangingUp = n.call.hangingUp
  BY <1>1, TransitionsAre DEF Basis
<1>3. Holds(w.call)
  BY <1>1, <1>2 DEF Holds, Alike
<1>4. PICK y \in DeviceState : y = SetState(w, d, "connected") /\ Effect(w, y, d, "connected")
  BY <1>3, SetStateIs DEF Basis, Status
<1>5. PICK x \in DeviceState : x = [y EXCEPT !.call.inConference = TRUE]
  BY DEF DeviceState, CallOf
<1>6. Becomes(d, x)
  BY <1>1, <1>2, <1>4, <1>5 DEF JoinCall
<1>7. call'[d] = x.call /\ sends'[d] = x.sends /\ activeCallRoomIds'[d] = x.active
  BY <1>6, BecomesIs
<1>8. /\ x.sends = y.sends /\ x.active = y.active /\ x.call.joining = y.call.joining
      /\ x.call.state = y.call.state /\ x.call.starting = y.call.starting
      /\ x.call.timers = y.call.timers /\ x.call.held = y.call.held
      /\ x.call.hangingUp = y.call.hangingUp
  BY <1>5 DEF DeviceState, CallOf
<1>9. call[d].joining /\ Orderly(d) /\ w.member
  BY <1>1, <1>2 DEF JoinCall, Alike
<1>10. AddOurDevice(w.member, d, "connect") = << [why |-> "connect", devices |-> Devices(d) \cup {d}] >>
  BY <1>9 DEF AddOurDevice, UpdateDevices
<1>11. y.sends = w.sends \o AddOurDevice(w.member, d, "connect")
  BY <1>1, <1>2, <1>4 DEF Effect, Alike
<1>12. y.active = TRUE /\ y.call.state = "connected" /\ y.call.joining = w.call.joining
  BY <1>4 DEF Effect
<1>13. /\ y.call.starting = w.call.starting /\ y.call.hangingUp = w.call.hangingUp
       /\ y.call.timers = w.call.timers /\ y.call.held = w.call.held
  BY <1>4, <1>9 DEF Effect
<1>14. /\ w.sends = sends[d] /\ w.call.timers = call[d].timers /\ w.call.held = call[d].held
       /\ w.call.starting = call[d].starting /\ w.call.hangingUp = call[d].hangingUp
  BY <1>1, <1>2 DEF Alike
<1>15. ~call'[d].joining /\ call'[d].state = "connected" /\ activeCallRoomIds'[d] = TRUE
  BY <1>2, <1>7, <1>8, <1>12
<1>16. sends'[d] = sends[d] \o << [why |-> "connect", devices |-> Devices(d) \cup {d}] >>
  BY <1>7, <1>8, <1>10, <1>11, <1>14
<1>17. Keeps(d, {"timer", "starting", "hangingUp"})
  BY <1>7, <1>8, <1>13, <1>14 DEF Keeps
<1> QED BY <1>9, <1>15, <1>16, <1>17

(* disconnect changes the state only, *)
LEMMA DisconnectIs ==
    ASSUME Basis, NEW d \in Device, Disconnect(d)
    PROVE  /\ IsConnected(call[d].state) /\ ~call[d].hangingUp
           /\ call'[d].state = "disconnecting" /\ call'[d].hangingUp
           /\ Keeps(d, {"sends", "active", "timer", "joining", "starting"})
<1>1. PICK n \in DeviceState : n = Now(d) /\ Holds(n.call) /\ n.call = call[d]
                               /\ n.sends = sends[d] /\ n.active = activeCallRoomIds[d]
  BY NowType
<1>2. PICK y \in DeviceState : y = SetState(n, d, "disconnecting") /\ Effect(n, y, d, "disconnecting")
  BY <1>1, SetStateIs DEF Basis, Status
<1>3. PICK x \in DeviceState : x = [y EXCEPT !.call.hangingUp = TRUE]
  BY DEF DeviceState, CallOf
<1>4. Becomes(d, x)
  BY <1>1, <1>2, <1>3 DEF Disconnect
<1>5. call'[d] = x.call /\ sends'[d] = x.sends /\ activeCallRoomIds'[d] = x.active
  BY <1>4, BecomesIs
<1>6. /\ x.sends = y.sends /\ x.active = y.active /\ x.call.joining = y.call.joining
      /\ x.call.state = y.call.state /\ x.call.starting = y.call.starting
      /\ x.call.timers = y.call.timers /\ x.call.held = y.call.held
      /\ x.call.hangingUp
  BY <1>3 DEF DeviceState, CallOf
<1>7. n.active \in BOOLEAN
  BY DEF DeviceState
<1>8. IsConnected(call[d].state) /\ ~call[d].hangingUp
  BY DEF Disconnect
<1> QED BY <1>1, <1>2, <1>5, <1>6, <1>7, <1>8 DEF Effect, Alike, Keeps

(* A call ends that is neither in the lobby nor out of the call. *)
Down(x, y, d) ==
    /\ y = SetDisconnected(x, d) /\ Holds(y.call) /\ y.member
    /\ y.call.state = "disconnected" /\ y.active = FALSE
    /\ y.sends = x.sends \o << [why |-> "remove", devices |-> Devices(d) \ {d}] >>
    /\ y.call.held = FALSE
    /\ y.call.timers = IF x.call.held THEN x.call.timers - 1 ELSE x.call.timers
    /\ y.call.joining = x.call.joining /\ y.call.starting = x.call.starting
    /\ y.call.hangingUp = x.call.hangingUp

(* setDisconnected removes the device from the entry and clears the timer, *)
LEMMA DownIs ==
    ASSUME Basis, NEW d \in Device, NEW x \in DeviceState, Holds(x.call), x.member,
           IsConnected(x.call.state)
    PROVE  \E y \in DeviceState : Down(x, y, d)
<1>1. PICK w \in DeviceState :
        /\ Alike(x, w) /\ SetDisconnected(x, d) = SetState(w, d, "disconnected")
        /\ w.call.joining = x.call.joining /\ w.call.starting = x.call.starting
        /\ w.call.hangingUp = x.call.hangingUp
  BY TransitionsAre DEF Basis
<1>2. Holds(w.call)
  BY <1>1 DEF Holds, Alike
<1>3. PICK y \in DeviceState : y = SetState(w, d, "disconnected") /\ Effect(w, y, d, "disconnected")
  BY <1>2, SetStateIs DEF Basis, Status
<1>4. RemoveOurDevice(w.member, d) = << [why |-> "remove", devices |-> Devices(d) \ {d}] >>
  BY <1>1 DEF RemoveOurDevice, UpdateDevices, Alike
<1>5. IsConnected(w.call.state) /\ w.member /\ w.sends = x.sends
  BY <1>1 DEF Alike
<1>6. /\ y.sends = w.sends \o RemoveOurDevice(w.member, d)
      /\ y.call.held = FALSE
      /\ y.call.timers = IF w.call.held THEN w.call.timers - 1 ELSE w.call.timers
  BY <1>3, <1>5 DEF Effect
<1>7. /\ Holds(y.call) /\ y.member /\ y.active = FALSE /\ y.call.state = "disconnected"
      /\ y.call.joining = w.call.joining /\ y.call.starting = w.call.starting
      /\ y.call.hangingUp = w.call.hangingUp
  BY <1>3, <1>5 DEF Effect
<1>8. y.sends = x.sends \o << [why |-> "remove", devices |-> Devices(d) \ {d}] >>
  BY <1>4, <1>5, <1>6
<1>9. w.call.timers = x.call.timers /\ w.call.held = x.call.held
  BY <1>1 DEF Alike
<1> QED BY <1>1, <1>3, <1>6, <1>7, <1>8, <1>9 DEF Down

(* as the answer of disconnect does, *)
LEMMA DisconnectAnsweredIs ==
    ASSUME Basis, NEW d \in Device, DisconnectAnswered(d), member,
           IsConnected(call[d].state), ~call[d].joining
    PROVE  /\ Orderly(d) /\ call[d].hangingUp /\ ~call'[d].hangingUp
           /\ call'[d].state = "disconnected" /\ activeCallRoomIds'[d] = FALSE
           /\ sends'[d] = sends[d] \o << [why |-> "remove", devices |-> Devices(d) \ {d}] >>
           /\ ~call'[d].held
           /\ call'[d].timers = IF call[d].held THEN call[d].timers - 1 ELSE call[d].timers
           /\ Keeps(d, {"joining", "starting"})
<1>1. PICK n \in DeviceState : n = Now(d) /\ Holds(n.call) /\ n.call = call[d]
                               /\ n.sends = sends[d] /\ n.member = member
  BY NowType
<1>2. PICK w \in DeviceState : w = [n EXCEPT !.call.hangingUp = FALSE, !.call.inConference = FALSE]
  BY DEF DeviceState, CallOf
<1>3. /\ w.sends = n.sends /\ w.member = n.member /\ ~w.call.hangingUp
      /\ w.call.joining = n.call.joining /\ w.call.starting = n.call.starting
      /\ w.call.state = n.call.state /\ w.call.timers = n.call.timers /\ w.call.held = n.call.held
  BY <1>2 DEF DeviceState, CallOf
<1>4. Holds(w.call)
  BY <1>1, <1>3 DEF Holds
<1>5. PICK y \in DeviceState : Down(w, y, d)
  BY <1>1, <1>3, <1>4, DownIs
<1>6. Released(y, d) = y
  BY <1>1, <1>3, <1>5 DEF Released, Down
<1>7. Becomes(d, y)
  BY <1>1, <1>2, <1>5, <1>6 DEF DisconnectAnswered, Down
<1>8. call'[d] = y.call /\ sends'[d] = y.sends /\ activeCallRoomIds'[d] = y.active
  BY <1>7, BecomesIs
<1>9. Orderly(d) /\ call[d].hangingUp
  BY DEF DisconnectAnswered
<1> QED BY <1>1, <1>3, <1>5, <1>8, <1>9 DEF Keeps, Down

(* and onHangup, which starts the call again. *)
LEMMA OnHangupIs ==
    ASSUME Basis, NEW d \in Device, OnHangup(d), member,
           IsConnected(call[d].state), ~call[d].joining
    PROVE  /\ Orderly(d) /\ call[d].state = "connected"
           /\ call'[d].state = "widgetLoading" /\ activeCallRoomIds'[d] = FALSE
           /\ sends'[d] = sends[d] \o << [why |-> "remove", devices |-> Devices(d) \ {d}] >>
           /\ ~call'[d].held
           /\ call'[d].timers = IF call[d].held THEN call[d].timers - 1 ELSE call[d].timers
           /\ call'[d].starting = call[d].starting + 1
           /\ Keeps(d, {"joining", "hangingUp"})
<1>1. PICK n \in DeviceState : n = Now(d) /\ Holds(n.call) /\ n.call = call[d]
                               /\ n.sends = sends[d] /\ n.member = member
  BY NowType
<1>2. PICK w \in DeviceState : w = [n EXCEPT !.call.inConference = FALSE]
  BY DEF DeviceState, CallOf
<1>3. /\ w.sends = n.sends /\ w.member = n.member /\ w.call.hangingUp = n.call.hangingUp
      /\ w.call.joining = n.call.joining /\ w.call.starting = n.call.starting
      /\ w.call.state = n.call.state /\ w.call.timers = n.call.timers /\ w.call.held = n.call.held
  BY <1>2 DEF DeviceState, CallOf
<1>4. Holds(w.call)
  BY <1>1, <1>3 DEF Holds
<1>5. PICK y \in DeviceState : Down(w, y, d)
  BY <1>1, <1>3, <1>4, DownIs
<1>6. PICK v \in DeviceState :
        /\ Alike(y, v) /\ BeginStart(y, d) = SetState(v, d, "widgetLoading")
        /\ v.call.joining = y.call.joining /\ v.call.starting = y.call.starting + 1
        /\ v.call.hangingUp = y.call.hangingUp
  BY <1>5, TransitionsAre DEF Basis, Down
<1>7. Holds(v.call)
  BY <1>5, <1>6 DEF Holds, Alike, Down
<1>8. PICK z \in DeviceState : z = SetState(v, d, "widgetLoading") /\ Effect(v, z, d, "widgetLoading")
  BY <1>7, SetStateIs DEF Basis, Status
<1>9. Released(z, d) = z
  BY <1>1, <1>3, <1>5, <1>6, <1>8 DEF Released, Effect, Down, Alike
<1>10. Becomes(d, z)
  BY <1>1, <1>2, <1>5, <1>6, <1>8, <1>9 DEF OnHangup, Down
<1>11. call'[d] = z.call /\ sends'[d] = z.sends /\ activeCallRoomIds'[d] = z.active
  BY <1>10, BecomesIs
<1>12. /\ z.sends = y.sends /\ z.call.timers = y.call.timers /\ z.call.held = y.call.held
       /\ z.call.joining = y.call.joining /\ z.call.hangingUp = y.call.hangingUp
       /\ z.call.starting = y.call.starting + 1 /\ z.call.state = "widgetLoading" /\ z.active = FALSE
  BY <1>5, <1>6, <1>8 DEF Effect, Alike, Down
<1>13. Orderly(d) /\ call[d].state = "connected"
  BY DEF OnHangup
<1> QED BY <1>1, <1>3, <1>5, <1>11, <1>12, <1>13 DEF Keeps, Down

----------------------------------------------------------------------------
(* THE INVARIANT *)

Conn(d) == IsConnected(call[d].state)
Announced(d) == \E k \in DOMAIN sends[d] : sends[d][k].why = "connect"
Final(d) == sends[d][Len(sends[d])].devices

(* Where updates do not overlap and none failed. *)
Serial == callScenario.serial /\ callCount["faults"] = 0 /\ callCount["leaves"] = 0
Steady == Serial /\ callScenario.steady
Safe == Serial /\ (callScenario.steady \/ callCount["crashes"] = 0)

(* One device at a time updates the entry. *)
OneUpdates ==
    Serial => member /\ \A d, e \in Device : d # e => sends[d] = <<>> \/ sends[e] = <<>>

(* No update drops another device that is in the call, and the last update *)
(* of one that is in the call lists it; an interval renews its entry.       *)
Announcing ==
    Safe =>
        /\ \A d, e \in Device : e # d /\ Conn(e) => \A k \in DOMAIN sends[d] : e \in sends[d][k].devices
        /\ \A d \in Device : Conn(d) => /\ call[d].timers > 0 \/ Announced(d)
                                        /\ d \in IF sends[d] = <<>> THEN Listed ELSE Final(d)

(* Where the announcement is waited for, nothing is sent after it, and     *)
(* every later update lists the device.                                    *)
Steadily ==
    Steady =>
        \A d \in Device :
            /\ \A k \in DOMAIN sends[d] : sends[d][k].why = "connect" => k = Len(sends[d])
            /\ Conn(d) /\ ~Announced(d) =>
                  d \in Listed /\ \A k \in DOMAIN sends[d] : d \in sends[d][k].devices

(* The phases of a call, one start after the other. *)
Phased(c) ==
    /\ c.starting = IF c.state = "widgetLoading" THEN 1 ELSE 0
    /\ c.joining <=> c.state = "lobby"
    /\ c.hangingUp <=> c.state = "disconnecting"
    /\ c.timers > 0 => IsConnected(c.state) /\ c.held /\ c.timers = 1

(* Only a device that is in the call announces itself or renews its entry. *)
Calling ==
    Steady =>
        \A d \in Device :
            /\ Phased(call[d]) /\ (Announced(d) => Conn(d) /\ call[d].timers = 0)
            /\ up[d] => (activeCallRoomIds[d] <=> Conn(d))

(* A device that is not in the call removes itself last, or has done so    *)
(* unless it remembers to.                                                 *)
Removing ==
    Steady =>
        \A d \in Device :
            ~Conn(d) =>
                /\ sends[d] # <<>> => d \notin Final(d)
                /\ ~activeCallRoomIds[d] /\ ~cleaning[d] /\ sends[d] = <<>> =>
                      /\ d \notin Listed
                      /\ \A e \in Device : \A k \in DOMAIN sends[e] : d \notin sends[e][k].devices

CallInv == Basis /\ OneUpdates /\ Announcing /\ Steadily /\ Calling /\ Removing

(* No step makes a scenario serial or steady, or undoes a failure. *)
LEMMA CountsGrow ==
    ASSUME Basis, [CallNext]_callVars
    PROVE  /\ callScenario' = callScenario
           /\ \A j \in Bounds : callCount'[j] = 0 => callCount[j] = 0
           /\ (Serial' => Serial) /\ (Safe' => Safe) /\ (Steady' => Steady)
<1>1. \E k \in Bounds : Happens(k) \/ UNCHANGED callCount
  <2>1. ASSUME NEW d \in Device, ~Acting(d),
               \/ WidgetTimeout(d) \/ DisconnectFailed(d) \/ EntrySent(d) \/ SendFailed(d)
               \/ Resend(d) \/ Clean(d) \/ Sync(d) \/ Crash(d) \/ BeforeUnload(d) \/ OnReady(d)
        PROVE  \E k \in Bounds : Happens(k) \/ UNCHANGED callCount
    BY <2>1 DEF WidgetTimeout, DisconnectFailed, EntrySent, SendFailed, Resend, Clean, Sync, Crash,
       BeforeUnload, OnReady, Bounds
  <2>2. ASSUME Expire \/ MyMembership \/ UNCHANGED callVars
        PROVE  \E k \in Bounds : Happens(k) \/ UNCHANGED callCount
    BY <2>2 DEF Expire, MyMembership, callVars, Bounds
  <2> QED BY <2>1, <2>2, ActingActs DEF CallNext, Acting
<1>2. callScenario' = callScenario
  <2>1. ASSUME NEW d \in Device, ~Acting(d),
               \/ WidgetTimeout(d) \/ DisconnectFailed(d) \/ EntrySent(d) \/ SendFailed(d)
               \/ Resend(d) \/ Clean(d) \/ Sync(d) \/ Crash(d) \/ BeforeUnload(d) \/ OnReady(d)
        PROVE  callScenario' = callScenario
    BY <2>1 DEF WidgetTimeout, DisconnectFailed, EntrySent, SendFailed, Resend, Clean, Sync, Crash,
       BeforeUnload, OnReady, Unmoved, Gone
  <2>2. ASSUME Expire \/ MyMembership \/ UNCHANGED callVars
        PROVE  callScenario' = callScenario
    BY <2>2 DEF Expire, MyMembership, callVars
  <2> QED BY <2>1, <2>2, ActingActs DEF CallNext, Acting
<1>3. \A j \in Bounds : callCount'[j] = 0 => callCount[j] = 0
  BY <1>1, CountGrows DEF Basis
<1> QED BY <1>2, <1>3 DEF Serial, Safe, Steady, Bounds

(* What fails or leaves ends the hypothesis. *)
LEMMA NoFaults ==
    ASSUME Basis, Serial'
    PROVE  ~Happens("faults") /\ ~Happens("leaves")
BY CountGrows DEF Basis, Serial, Bounds

(* An update that begins in order is made from the entry that the room       *)
(* lists.                                                                    *)
LEMMA InOrder ==
    ASSUME CallInv, Serial, NEW d \in Device, Orderly(d)
    PROVE  /\ \A e \in Device \ {d} : sends[e] = <<>>
           /\ Devices(d) = Listed
           /\ callScenario.steady => ~Announced(d)
<1>1. known[d] = Len(entries) /\ \A e \in Device \ {d} : sends[e] = <<>>
  BY DEF Orderly, Serial
<1>2. Devices(d) = Listed
  BY <1>1 DEF Devices, Listed
<1> QED BY <1>1, <1>2 DEF Orderly, Announced

(* Updates are made in order, and as Moves says. *)
Adds(d, q) ==
    /\ sends'[d] = sends[d] \o q /\ (q = <<>> \/ Orderly(d))
    /\ \A k \in DOMAIN q : Devices(d) \ {d} \subseteq q[k].devices
    /\ IsConnected(call'[d].state) =>
          \/ q # <<>> /\ d \in q[Len(q)].devices /\ \E k \in DOMAIN q : q[k].why = "connect"
          \/ q = <<>> /\ IsConnected(call[d].state) /\ call'[d].timers = call[d].timers

(* The actions on a call add such updates. *)
LEMMA ActingAdds ==
    ASSUME CallInv, NEW d \in Device, Acting(d), Serial', Serial
    PROVE  \E q \in Seq(Update) : Adds(d, q)
<1>1. PICK x \in DeviceState : Becomes(d, x) /\ Comes(Now(d), x, d)
  BY ActingActs DEF CallInv, Acts
<1>2. /\ call'[d] = x.call /\ sends'[d] = x.sends
      /\ Now(d).call = call[d] /\ Now(d).sends = sends[d] /\ Now(d).member
  BY <1>1, BecomesIs, NowType DEF CallInv, OneUpdates
<1>3. PICK q \in Seq(Update) :
        /\ sends'[d] = sends[d] \o q
        /\ \A k \in DOMAIN q : Devices(d) \ {d} \subseteq q[k].devices
        /\ IsConnected(call'[d].state) =>
              \/ q # <<>> /\ d \in q[Len(q)].devices /\ \E k \in DOMAIN q : q[k].why = "connect"
              \/ q = <<>> /\ IsConnected(call[d].state) /\ call'[d].timers = call[d].timers
  BY <1>1, <1>2 DEF Comes, Moves
<1>4. Orderly(d) \/ sends'[d] = sends[d]
  <2>1. CASE Start(d)
    BY <2>1, StartIs DEF CallInv, Keeps
  <2>2. CASE WidgetReady(d)
    BY <2>2, WidgetReadyIs DEF CallInv, Keeps, WidgetReady
  <2>3. CASE Disconnect(d)
    BY <2>3, DisconnectIs DEF CallInv, Keeps
  <2>4. CASE JoinCall(d) \/ OnHangup(d) \/ DisconnectAnswered(d)
    BY <2>4 DEF JoinCall, OnHangup, DisconnectAnswered
  <2>5. CASE JoinFailed(d) \/ StopMessaging(d)
    BY <2>5, NoFaults DEF JoinFailed, StopMessaging, CallInv
  <2> QED BY <2>1, <2>2, <2>3, <2>4, <2>5 DEF Acting
<1>5. q = <<>> \/ Orderly(d)
  <2>1. PICK s \in Seq(Update) : s = sends[d]
    BY DEF CallInv, Basis, CallTypeOK
  <2>2. s \o q = s => q = <<>>
    <3>1. Len(s \o q) = Len(s) + Len(q) /\ Len(s) \in Nat /\ Len(q) \in Nat
      OBVIOUS
    <3>2. s \o q = s => Len(q) = 0
      BY <3>1
    <3> QED BY <3>2
  <2> QED BY <1>3, <1>4, <2>1, <2>2
<1> QED BY <1>3, <1>5 DEF Adds

(* The elements of an extended sequence. *)
LEMMA Extended ==
    ASSUME NEW S, NEW s \in Seq(S), NEW q \in Seq(S)
    PROVE  /\ s \o q \in Seq(S) /\ Len(s \o q) = Len(s) + Len(q)
           /\ \A k \in DOMAIN (s \o q) :
                 \/ k \in DOMAIN s /\ (s \o q)[k] = s[k]
                 \/ k - Len(s) \in DOMAIN q /\ (s \o q)[k] = q[k - Len(s)]
           /\ \A k \in DOMAIN s : k \in DOMAIN (s \o q) /\ (s \o q)[k] = s[k]
           /\ \A k \in DOMAIN q : Len(s) + k \in DOMAIN (s \o q) /\ (s \o q)[Len(s) + k] = q[k]
           /\ q # <<>> => s \o q # <<>> /\ (s \o q)[Len(s \o q)] = q[Len(q)]
           /\ s \o <<>> = s
<1>1. PICK r \in Seq(S) : r = s \o q
  BY ConcatProperties
<1>2. /\ Len(r) = Len(s) + Len(q) /\ Len(s) \in Nat /\ Len(q) \in Nat
      /\ DOMAIN s = 1 .. Len(s) /\ DOMAIN q = 1 .. Len(q) /\ DOMAIN r = 1 .. Len(r)
      /\ \A k \in 1 .. Len(s) : r[k] = s[k]
      /\ \A k \in 1 .. Len(q) : r[Len(s) + k] = q[k]
  BY <1>1
<1>3. ASSUME NEW k \in DOMAIN r
      PROVE  \/ k \in DOMAIN s /\ r[k] = s[k]
             \/ k - Len(s) \in DOMAIN q /\ r[k] = q[k - Len(s)]
  <2>1. CASE k <= Len(s)
    BY <1>2, <2>1
  <2>2. CASE k > Len(s)
    <3>1. k - Len(s) \in 1 .. Len(q) /\ Len(s) + (k - Len(s)) = k
      BY <1>2, <2>2
    <3>2. r[Len(s) + (k - Len(s))] = q[k - Len(s)]
      BY <1>2, <3>1
    <3> QED BY <1>2, <3>1, <3>2
  <2> QED BY <1>2, <2>1, <2>2
<1>4. \A k \in DOMAIN s : k \in DOMAIN r /\ r[k] = s[k]
  BY <1>2
<1>5. \A k \in DOMAIN q : Len(s) + k \in DOMAIN r /\ r[Len(s) + k] = q[k]
  BY <1>2
<1>6. q # <<>> => r # <<>> /\ r[Len(r)] = q[Len(q)]
  BY <1>2
<1>7. s \o <<>> = s
  OBVIOUS
<1> QED BY <1>1, <1>2, <1>3, <1>4, <1>5, <1>6, <1>7

(* The updates of a device. *)
LEMMA SendsType ==
    ASSUME CallInv, NEW d \in Device
    PROVE  sends[d] \in Seq(Update) /\ call[d] \in CallOf /\ Len(sends[d]) \in Nat
BY DEF CallInv, Basis, CallTypeOK

(* They keep that one device updates and that connected devices are          *)
(* announced.                                                                *)
LEMMA ActingAnnouncing ==
    ASSUME CallInv, NEW d \in Device, Acting(d), Serial', Serial, Safe' => Safe
    PROVE  OneUpdates' /\ Announcing'
<1>1. PICK q \in Seq(Update) : Adds(d, q)
  BY ActingAdds
<1>2. /\ UNCHANGED <<entries, expired, member>>
      /\ \A e \in Device \ {d} : call'[e] = call[e] /\ sends'[e] = sends[e]
  BY ActingActs, ActsTypes DEF CallInv
<1>3. PICK s \in Seq(Update) : s = sends[d] /\ sends'[d] = s \o q
  BY <1>1, SendsType DEF Adds
<1>4. Listed' = Listed
  BY <1>2 DEF Listed, Entry
<1>5. /\ DOMAIN s = 1 .. Len(s) /\ DOMAIN q = 1 .. Len(q) /\ Len(s) \in Nat /\ Len(q) \in Nat
  OBVIOUS
<1>6. CASE q = <<>>
  <2>1. sends'[d] = sends[d]
    BY <1>3, <1>6, Extended
  <2>2. \A e \in Device : sends'[e] = sends[e]
    BY <1>2, <2>1
  <2>3. OneUpdates'
    BY <1>2, <2>2 DEF CallInv, OneUpdates
  <2>4. \A e \in Device : Conn(e)' => Conn(e) /\ call'[e].timers = call[e].timers
    BY <1>1, <1>2, <1>6 DEF Adds, Conn
  <2>5. \A e \in Device : (Announced(e)' <=> Announced(e)) /\ Final(e)' = Final(e)
    BY <2>2 DEF Announced, Final
  <2>6. ASSUME Safe'
        PROVE  /\ \A a, e \in Device : e # a /\ Conn(e)' => \A k \in DOMAIN sends'[a] : e \in sends'[a][k].devices
               /\ \A a \in Device : Conn(a)' => /\ call'[a].timers > 0 \/ Announced(a)'
                                                /\ a \in IF sends'[a] = <<>> THEN Listed' ELSE Final(a)'
    BY <1>4, <2>2, <2>4, <2>5, <2>6 DEF CallInv, Announcing
  <2> QED BY <2>3, <2>6 DEF Announcing
<1>7. CASE q # <<>>
  <2>1. Orderly(d)
    BY <1>1, <1>7 DEF Adds
  <2>2. (\A e \in Device \ {d} : sends[e] = <<>>) /\ Devices(d) = Listed
    BY <2>1, InOrder
  <2>3. \A e \in Device \ {d} : sends'[e] = <<>>
    BY <1>2, <2>2
  <2>4. OneUpdates'
    BY <1>2, <2>3 DEF CallInv, OneUpdates
  <2>5. ASSUME Safe', NEW a \in Device, NEW e \in Device, e # a, Conn(e)', NEW k \in DOMAIN sends'[a]
        PROVE  e \in sends'[a][k].devices
    <3>1. a = d /\ e # d
      BY <2>3, <2>5
    <3>2. Conn(e) /\ sends[e] = <<>>
      BY <1>2, <2>2, <2>5, <3>1 DEF Conn
    <3>3. e \in Listed /\ \A j \in DOMAIN s : e \in s[j].devices
      BY <1>3, <2>5, <3>1, <3>2 DEF CallInv, Announcing
    <3>4. \A j \in DOMAIN q : e \in q[j].devices
      BY <1>1, <2>2, <3>1, <3>3 DEF Adds
    <3>5. k \in DOMAIN (s \o q) /\ sends'[a][k] = (s \o q)[k]
      BY <1>3, <2>5, <3>1
    <3>6. \/ k \in DOMAIN s /\ (s \o q)[k] = s[k]
          \/ k - Len(s) \in DOMAIN q /\ (s \o q)[k] = q[k - Len(s)]
      BY <3>5, Extended
    <3> QED BY <3>3, <3>4, <3>5, <3>6
  <2>6. ASSUME Safe', NEW a \in Device, Conn(a)'
        PROVE  /\ call'[a].timers > 0 \/ Announced(a)'
               /\ a \in IF sends'[a] = <<>> THEN Listed' ELSE Final(a)'
    <3>1. CASE a # d
      <4>1. Conn(a) /\ sends[a] = <<>> /\ sends'[a] = <<>> /\ call'[a] = call[a]
        BY <1>2, <2>2, <2>6, <3>1 DEF Conn
      <4>2. ~Announced(a)
        BY <4>1 DEF Announced
      <4>3. call[a].timers > 0 /\ a \in Listed
        BY <2>6, <4>1, <4>2 DEF CallInv, Announcing
      <4> QED BY <1>4, <4>1, <4>3
    <3>2. CASE a = d
      <4>1. d \in q[Len(q)].devices /\ \E k \in DOMAIN q : q[k].why = "connect"
        BY <1>1, <1>7, <2>6, <3>2 DEF Adds, Conn
      <4>2. Announced(d)'
        <5>1. PICK k \in DOMAIN q : q[k].why = "connect"
          BY <4>1
        <5>2. Len(s) + k \in DOMAIN (s \o q) /\ (s \o q)[Len(s) + k] = q[k]
          BY Extended
        <5> QED BY <1>3, <5>1, <5>2 DEF Announced
      <4>3. sends'[d] # <<>> /\ sends'[d][Len(sends'[d])] = q[Len(q)]
        BY <1>3, <1>7, Extended
      <4> QED BY <3>2, <4>1, <4>2, <4>3 DEF Final
    <3> QED BY <3>1, <3>2
  <2> QED BY <2>4, <2>5, <2>6 DEF Announcing
<1> QED BY <1>6, <1>7

(* Where calls follow one another, an action of a device either sends       *)
(* nothing, or announces the device, or removes it.                        *)
SendsNothing(d) ==
    sends'[d] = sends[d] /\ (Conn(d)' <=> Conn(d)) /\ call'[d].timers = call[d].timers
Announces(d) ==
    /\ Orderly(d) /\ ~Conn(d) /\ Conn(d)' /\ call'[d].timers = 0
    /\ sends'[d] = sends[d] \o << [why |-> "connect", devices |-> Devices(d) \cup {d}] >>
Removes(d) ==
    /\ Orderly(d) /\ ~Conn(d)' /\ call'[d].timers = 0
    /\ sends'[d] = sends[d] \o << [why |-> "remove", devices |-> Devices(d) \ {d}] >>

(* Where nobody hangs up in the lobby, an action sends nothing, announces    *)
(* the device or removes it.                                                 *)
LEMMA SteadyActs ==
    ASSUME CallInv, NEW d \in Device, Acting(d), Serial', Steady
    PROVE  /\ Phased(call'[d]) /\ (activeCallRoomIds'[d] <=> Conn(d)')
           /\ SendsNothing(d) \/ Announces(d) \/ Removes(d)
<1>1. /\ Phased(call[d]) /\ call[d].timers \in Nat /\ call[d].starting \in Nat /\ call[d].held \in BOOLEAN
      /\ Announced(d) => Conn(d) /\ call[d].timers = 0
      /\ activeCallRoomIds[d] <=> Conn(d)
  BY SendsType, ActingActs DEF CallInv, Calling, CallOf
<1>2. Basis /\ member /\ Serial /\ callScenario.steady
  BY DEF CallInv, OneUpdates, Steady
<1>3. CASE Start(d)
  <2>1. /\ call[d].state = "disconnected" /\ call'[d].state = "widgetLoading"
        /\ call'[d].starting = call[d].starting + 1
        /\ Keeps(d, {"sends", "active", "timer", "joining", "hangingUp"})
    BY <1>2, <1>3, StartIs
  <2>2. ~Conn(d) /\ ~Conn(d)'
    BY <2>1 DEF Conn, IsConnected
  <2>3. Phased(call'[d])
    BY <1>1, <2>1, <2>2 DEF Phased, Keeps, Conn
  <2>4. SendsNothing(d)
    BY <2>1, <2>2 DEF Keeps, SendsNothing
  <2> QED BY <1>1, <2>1, <2>2, <2>3, <2>4 DEF Keeps
<1>4. CASE WidgetReady(d)
  <2>1. call[d].state = "widgetLoading" /\ ~call[d].joining /\ call[d].starting = 1
    BY <1>1, <1>4 DEF WidgetReady, Phased
  <2>2. /\ call'[d].starting = call[d].starting - 1
        /\ call'[d].state = "lobby" /\ call'[d].joining
        /\ Keeps(d, {"sends", "active", "timer", "hangingUp"})
    BY <1>2, <1>4, <2>1, WidgetReadyIs
  <2>3. ~Conn(d) /\ ~Conn(d)'
    BY <2>1, <2>2 DEF Conn, IsConnected
  <2>4. Phased(call'[d])
    BY <1>1, <2>1, <2>2, <2>3 DEF Phased, Keeps, Conn
  <2>5. SendsNothing(d)
    BY <2>2, <2>3 DEF Keeps, SendsNothing
  <2> QED BY <1>1, <2>2, <2>3, <2>4, <2>5 DEF Keeps
<1>5. CASE JoinCall(d)
  <2>1. call[d].state = "lobby" /\ ~IsConnected(call[d].state)
    BY <1>1, <1>5 DEF JoinCall, Phased, IsConnected
  <2>2. /\ ~call'[d].joining /\ call'[d].state = "connected" /\ Orderly(d)
        /\ sends'[d] = sends[d] \o << [why |-> "connect", devices |-> Devices(d) \cup {d}] >>
        /\ activeCallRoomIds'[d] = TRUE
        /\ Keeps(d, {"timer", "starting", "hangingUp"})
    BY <1>2, <1>5, <2>1, JoinCallIs
  <2>3. ~Conn(d) /\ Conn(d)' /\ call[d].timers = 0 /\ call'[d].timers = 0
    BY <1>1, <2>1, <2>2 DEF Conn, IsConnected, Phased, Keeps
  <2>4. Phased(call'[d])
    BY <1>1, <2>1, <2>2, <2>3 DEF Phased, Keeps
  <2>5. Announces(d)
    BY <2>2, <2>3 DEF Announces
  <2> QED BY <2>2, <2>3, <2>4, <2>5
<1>6. CASE Disconnect(d)
  <2>1. /\ IsConnected(call[d].state) /\ ~call[d].hangingUp
        /\ call'[d].state = "disconnecting" /\ call'[d].hangingUp
        /\ Keeps(d, {"sends", "active", "timer", "joining", "starting"})
    BY <1>2, <1>6, DisconnectIs
  <2>2. Conn(d) /\ Conn(d)' /\ call[d].state = "connected"
    BY <1>1, <2>1 DEF Conn, IsConnected, Phased
  <2>3. Phased(call'[d])
    BY <1>1, <2>1, <2>2 DEF Phased, Keeps, Conn
  <2>4. SendsNothing(d)
    BY <2>1, <2>2 DEF Keeps, SendsNothing
  <2> QED BY <1>1, <2>1, <2>2, <2>3, <2>4 DEF Keeps
<1>7. ASSUME Conn(d), Orderly(d)
      PROVE  call[d].timers = 1 /\ call[d].held
  <2>1. ~Announced(d)
    BY <1>2, <1>7, InOrder
  <2>2. Safe
    BY <1>2 DEF Safe
  <2>3. call[d].timers > 0
    BY <1>7, <2>1, <2>2 DEF CallInv, Announcing
  <2> QED BY <1>1, <2>3 DEF Phased
<1>8. CASE DisconnectAnswered(d)
  <2>1. call[d].state = "disconnecting" /\ ~call[d].joining /\ IsConnected(call[d].state) /\ Conn(d)
    BY <1>1, <1>8 DEF DisconnectAnswered, Phased, IsConnected, Conn
  <2>2. /\ Orderly(d) /\ ~call'[d].hangingUp
        /\ call'[d].state = "disconnected" /\ activeCallRoomIds'[d] = FALSE
        /\ sends'[d] = sends[d] \o << [why |-> "remove", devices |-> Devices(d) \ {d}] >>
        /\ call'[d].timers = IF call[d].held THEN call[d].timers - 1 ELSE call[d].timers
        /\ Keeps(d, {"joining", "starting"})
    BY <1>2, <1>8, <2>1, DisconnectAnsweredIs
  <2>3. call'[d].timers = 0 /\ ~Conn(d)'
    BY <1>7, <2>1, <2>2 DEF Conn, IsConnected
  <2>4. Phased(call'[d])
    BY <1>1, <2>1, <2>2, <2>3 DEF Phased, Keeps
  <2>5. Removes(d)
    BY <2>2, <2>3 DEF Removes
  <2> QED BY <2>2, <2>3, <2>4, <2>5
<1>9. CASE OnHangup(d)
  <2>1. call[d].state = "connected" /\ ~call[d].joining /\ IsConnected(call[d].state) /\ Conn(d)
    BY <1>1, <1>2, <1>9 DEF OnHangup, Phased, IsConnected, Conn
  <2>2. /\ Orderly(d)
        /\ call'[d].state = "widgetLoading" /\ activeCallRoomIds'[d] = FALSE
        /\ sends'[d] = sends[d] \o << [why |-> "remove", devices |-> Devices(d) \ {d}] >>
        /\ call'[d].timers = IF call[d].held THEN call[d].timers - 1 ELSE call[d].timers
        /\ call'[d].starting = call[d].starting + 1
        /\ Keeps(d, {"joining", "hangingUp"})
    BY <1>2, <1>9, <2>1, OnHangupIs
  <2>3. call'[d].timers = 0 /\ ~Conn(d)'
    BY <1>7, <2>1, <2>2 DEF Conn, IsConnected
  <2>4. Phased(call'[d])
    BY <1>1, <2>1, <2>2, <2>3 DEF Phased, Keeps
  <2>5. Removes(d)
    BY <2>2, <2>3 DEF Removes
  <2> QED BY <2>2, <2>3, <2>4, <2>5
<1>10. CASE JoinFailed(d) \/ StopMessaging(d)
  BY <1>2, <1>10, NoFaults DEF JoinFailed, StopMessaging
<1> QED BY <1>3, <1>4, <1>5, <1>6, <1>8, <1>9, <1>10 DEF Acting

(* One update more. *)
LEMMA OneMoreUpdate ==
    ASSUME NEW s \in Seq(Update), NEW u \in Update, NEW r, r = s \o <<u>>
    PROVE  /\ r \in Seq(Update) /\ Len(s) \in Nat /\ Len(r) = Len(s) + 1 /\ r # <<>>
           /\ Len(r) \in DOMAIN r /\ r[Len(r)] = u
           /\ \A k \in DOMAIN r : k = Len(r) \/ (k \in DOMAIN s /\ r[k] = s[k])
           /\ \A k \in DOMAIN s : k \in DOMAIN r /\ r[k] = s[k]
OBVIOUS

(* They keep the rest of the invariant. *)
LEMMA ActingSteadily ==
    ASSUME CallInv, NEW d \in Device, Acting(d), Serial', Serial, Steady', Steady
    PROVE  /\ \A a \in Device :
                 /\ \A k \in DOMAIN sends'[a] : sends'[a][k].why = "connect" => k = Len(sends'[a])
                 /\ Conn(a)' /\ ~Announced(a)' =>
                       a \in Listed' /\ \A k \in DOMAIN sends'[a] : a \in sends'[a][k].devices
           /\ \A a \in Device :
                 /\ Phased(call'[a]) /\ (Announced(a)' => Conn(a)' /\ call'[a].timers = 0)
                 /\ up'[a] => (activeCallRoomIds'[a] <=> Conn(a)')
           /\ \A a \in Device :
                 ~Conn(a)' =>
                     /\ sends'[a] # <<>> => a \notin Final(a)'
                     /\ ~activeCallRoomIds'[a] /\ ~cleaning'[a] /\ sends'[a] = <<>> =>
                           /\ a \notin Listed'
                           /\ \A e \in Device : \A k \in DOMAIN sends'[e] : a \notin sends'[e][k].devices
<1>1. /\ UNCHANGED <<entries, expired, member, up>> /\ up[d]
      /\ \A e \in Device \ {d} : /\ call'[e] = call[e] /\ sends'[e] = sends[e]
                                 /\ activeCallRoomIds'[e] = activeCallRoomIds[e]
                                 /\ cleaning'[e] = cleaning[e]
  BY ActingActs, ActsTypes DEF CallInv
<1>2. Listed' = Listed
  BY <1>1 DEF Listed, Entry
<1>3. Phased(call'[d]) /\ (activeCallRoomIds'[d] <=> Conn(d)')
  BY SteadyActs
<1>4. \A e \in Device \ {d} : (Conn(e)' <=> Conn(e)) /\ (Announced(e)' <=> Announced(e)) /\ Final(e)' = Final(e)
  BY <1>1 DEF Conn, Announced, Final
<1>5. /\ \A a \in Device : /\ \A k \in DOMAIN sends[a] : sends[a][k].why = "connect" => k = Len(sends[a])
                           /\ Conn(a) /\ ~Announced(a) =>
                                 a \in Listed /\ \A k \in DOMAIN sends[a] : a \in sends[a][k].devices
      /\ \A a \in Device : /\ Phased(call[a]) /\ (Announced(a) => Conn(a) /\ call[a].timers = 0)
                           /\ up[a] => (activeCallRoomIds[a] <=> Conn(a))
      /\ \A a \in Device : ~Conn(a) =>
            /\ sends[a] # <<>> => a \notin Final(a)
            /\ ~activeCallRoomIds[a] /\ ~cleaning[a] /\ sends[a] = <<>> =>
                  /\ a \notin Listed
                  /\ \A e \in Device : \A k \in DOMAIN sends[e] : a \notin sends[e][k].devices
  BY DEF CallInv, Steadily, Calling, Removing
<1>6. CASE SendsNothing(d)
  <2>1. /\ sends'[d] = sends[d] /\ (Conn(d)' <=> Conn(d)) /\ call'[d].timers = call[d].timers
        /\ \A e \in Device : sends'[e] = sends[e]
    BY <1>1, <1>6 DEF SendsNothing
  <2>2. (Announced(d)' <=> Announced(d)) /\ Final(d)' = Final(d)
    BY <2>1 DEF Announced, Final
  <2>3. cleaning[d] => cleaning'[d]
    BY ActingActs, StartIs DEF CallInv
  <2>4. \A a \in Device : /\ \A k \in DOMAIN sends'[a] : sends'[a][k].why = "connect" => k = Len(sends'[a])
                          /\ Conn(a)' /\ ~Announced(a)' =>
                                a \in Listed' /\ \A k \in DOMAIN sends'[a] : a \in sends'[a][k].devices
    BY <1>2, <1>4, <1>5, <2>1, <2>2
  <2>5. ASSUME NEW a \in Device
        PROVE  /\ Phased(call'[a]) /\ (Announced(a)' => Conn(a)' /\ call'[a].timers = 0)
               /\ up'[a] => (activeCallRoomIds'[a] <=> Conn(a)')
    BY <1>1, <1>3, <1>4, <1>5, <2>1, <2>2
  <2>6. ASSUME NEW a \in Device, ~Conn(a)'
        PROVE  /\ sends'[a] # <<>> => a \notin Final(a)'
               /\ ~activeCallRoomIds'[a] /\ ~cleaning'[a] /\ sends'[a] = <<>> =>
                     /\ a \notin Listed'
                     /\ \A e \in Device : \A k \in DOMAIN sends'[e] : a \notin sends'[e][k].devices
    <3>1. ~Conn(a) /\ sends'[a] = sends[a] /\ Final(a)' = Final(a) /\ (cleaning[a] => cleaning'[a])
      BY <1>1, <1>4, <2>1, <2>2, <2>3, <2>6
    <3>2. activeCallRoomIds[a] => activeCallRoomIds'[a]
      BY <1>1, <1>5, <2>6, <3>1
    <3> QED BY <1>2, <1>5, <2>1, <3>1, <3>2
  <2> QED BY <2>4, <2>5, <2>6
<1>7. CASE Announces(d)
  <2>1. PICK u \in Update : u = [why |-> "connect", devices |-> Devices(d) \cup {d}]
    BY EntryType DEF CallInv, Basis, Update
  <2>2. PICK s \in Seq(Update) : s = sends[d]
    BY SendsType
  <2>3. PICK r : r = sends'[d] /\ r = s \o <<u>>
    BY <1>7, <2>1, <2>2 DEF Announces
  <2>4. /\ Len(s) \in Nat /\ Len(r) = Len(s) + 1 /\ r # <<>>
        /\ Len(r) \in DOMAIN r /\ r[Len(r)] = u
        /\ \A k \in DOMAIN r : k = Len(r) \/ (k \in DOMAIN s /\ r[k] = s[k])
    BY <2>3, OneMoreUpdate
  <2>5. /\ ~Conn(d) /\ Conn(d)' /\ call'[d].timers = 0 /\ ~Announced(d)
        /\ \A e \in Device \ {d} : sends[e] = <<>>
        /\ Devices(d) = Listed
    BY <1>5, <1>7, InOrder DEF Announces
  <2>6. u.why = "connect" /\ u.devices = Listed \cup {d}
    BY <2>1, <2>5
  <2>7. Announced(d)'
    BY <2>3, <2>4, <2>6 DEF Announced
  <2>8. ASSUME NEW a \in Device
        PROVE  /\ \A k \in DOMAIN sends'[a] : sends'[a][k].why = "connect" => k = Len(sends'[a])
               /\ Conn(a)' /\ ~Announced(a)' =>
                     a \in Listed' /\ \A k \in DOMAIN sends'[a] : a \in sends'[a][k].devices
    <3>1. CASE a = d
      <4>1. \A k \in DOMAIN s : s[k].why # "connect"
        BY <2>2, <2>5 DEF Announced
      <4> QED BY <2>3, <2>4, <2>7, <3>1, <4>1
    <3>2. CASE a # d
      BY <1>1, <1>2, <1>4, <1>5, <3>2
    <3> QED BY <3>1, <3>2
  <2>9. ASSUME NEW a \in Device
        PROVE  /\ Phased(call'[a]) /\ (Announced(a)' => Conn(a)' /\ call'[a].timers = 0)
               /\ up'[a] => (activeCallRoomIds'[a] <=> Conn(a)')
    BY <1>1, <1>3, <1>4, <1>5, <2>5
  <2>10. ASSUME NEW a \in Device, ~Conn(a)'
         PROVE  /\ sends'[a] # <<>> => a \notin Final(a)'
                /\ ~activeCallRoomIds'[a] /\ ~cleaning'[a] /\ sends'[a] = <<>> =>
                      /\ a \notin Listed'
                      /\ \A e \in Device : \A k \in DOMAIN sends'[e] : a \notin sends'[e][k].devices
    <3>1. a # d /\ ~Conn(a) /\ sends'[a] = <<>> /\ sends[a] = <<>>
      BY <1>1, <1>4, <2>5, <2>10
    <3>2. ASSUME ~activeCallRoomIds'[a], ~cleaning'[a], NEW e \in Device, NEW k \in DOMAIN sends'[e]
          PROVE  a \notin Listed /\ a \notin sends'[e][k].devices
      <4>1. a \notin Listed /\ \A j \in DOMAIN s : a \notin s[j].devices
        BY <1>1, <1>5, <2>2, <3>1, <3>2
      <4>2. e = d
        BY <1>1, <2>5, <3>2
      <4> QED BY <2>3, <2>4, <2>6, <3>1, <3>2, <4>1, <4>2
    <3>3. ~activeCallRoomIds'[a] /\ ~cleaning'[a] => a \notin Listed
      BY <1>1, <1>5, <3>1
    <3> QED BY <1>2, <3>1, <3>2, <3>3
  <2> QED BY <2>8, <2>9, <2>10
<1>8. CASE Removes(d)
  <2>1. PICK u \in Update : u = [why |-> "remove", devices |-> Devices(d) \ {d}]
    BY EntryType DEF CallInv, Basis, Update
  <2>2. PICK s \in Seq(Update) : s = sends[d]
    BY SendsType
  <2>3. PICK r : r = sends'[d] /\ r = s \o <<u>>
    BY <1>8, <2>1, <2>2 DEF Removes
  <2>4. /\ Len(s) \in Nat /\ Len(r) = Len(s) + 1 /\ r # <<>>
        /\ Len(r) \in DOMAIN r /\ r[Len(r)] = u
        /\ \A k \in DOMAIN r : k = Len(r) \/ (k \in DOMAIN s /\ r[k] = s[k])
    BY <2>3, OneMoreUpdate
  <2>5. /\ ~Conn(d)' /\ call'[d].timers = 0 /\ ~Announced(d)
        /\ \A e \in Device \ {d} : sends[e] = <<>>
        /\ Devices(d) = Listed
    BY <1>8, InOrder DEF Removes, Steady
  <2>6. u.why = "remove" /\ u.devices = Listed \ {d}
    BY <2>1, <2>5
  <2>7. ~Announced(d)'
    <3>1. \A k \in DOMAIN s : s[k].why # "connect"
      BY <2>2, <2>5 DEF Announced
    <3> QED BY <2>3, <2>4, <2>6, <3>1 DEF Announced
  <2>8. ASSUME NEW a \in Device
        PROVE  /\ \A k \in DOMAIN sends'[a] : sends'[a][k].why = "connect" => k = Len(sends'[a])
               /\ Conn(a)' /\ ~Announced(a)' =>
                     a \in Listed' /\ \A k \in DOMAIN sends'[a] : a \in sends'[a][k].devices
    <3>1. CASE a = d
      BY <2>5, <2>7, <3>1 DEF Announced
    <3>2. CASE a # d
      BY <1>1, <1>2, <1>4, <1>5, <3>2
    <3> QED BY <3>1, <3>2
  <2>9. ASSUME NEW a \in Device
        PROVE  /\ Phased(call'[a]) /\ (Announced(a)' => Conn(a)' /\ call'[a].timers = 0)
               /\ up'[a] => (activeCallRoomIds'[a] <=> Conn(a)')
    BY <1>1, <1>3, <1>4, <1>5, <2>7
  <2>10. ASSUME NEW a \in Device, ~Conn(a)'
         PROVE  /\ sends'[a] # <<>> => a \notin Final(a)'
                /\ ~activeCallRoomIds'[a] /\ ~cleaning'[a] /\ sends'[a] = <<>> =>
                      /\ a \notin Listed'
                      /\ \A e \in Device : \A k \in DOMAIN sends'[e] : a \notin sends'[e][k].devices
    <3>1. CASE a = d
      <4>1. sends'[a] # <<>> /\ Final(a)' = u.devices
        BY <2>3, <2>4, <3>1 DEF Final
      <4> QED BY <2>6, <3>1, <4>1
    <3>2. CASE a # d
      <4>1. ~Conn(a) /\ sends'[a] = <<>> /\ sends[a] = <<>>
        BY <1>1, <1>4, <2>5, <2>10, <3>2
      <4>2. ASSUME ~activeCallRoomIds'[a], ~cleaning'[a], NEW e \in Device, NEW k \in DOMAIN sends'[e]
            PROVE  a \notin sends'[e][k].devices
        <5>1. a \notin Listed /\ \A j \in DOMAIN s : a \notin s[j].devices
          BY <1>1, <1>5, <2>2, <3>2, <4>1, <4>2
        <5>2. e = d
          BY <1>1, <2>5, <4>2
        <5> QED BY <2>3, <2>4, <2>6, <4>2, <5>1, <5>2
      <4>3. ~activeCallRoomIds'[a] /\ ~cleaning'[a] => a \notin Listed
        BY <1>1, <1>5, <3>2, <4>1
      <4> QED BY <1>2, <4>1, <4>2, <4>3
    <3> QED BY <3>1, <3>2
  <2> QED BY <2>8, <2>9, <2>10
<1> QED BY <1>6, <1>7, <1>8, SteadyActs

(* A device renews or cleans the entry: no connection changes. *)
LEMMA Renews ==
    ASSUME CallInv, NEW d \in Device, NEW u \in Update, Orderly(d), Serial,
           Safe' => Safe, Steady' => Steady, UNCHANGED <<call, activeCallRoomIds, up, entries, expired, member>>,
           sends' = [sends EXCEPT ![d] = @ \o <<u>>],
           \A e \in Device \ {d} : cleaning'[e] = cleaning[e],
           u.why # "connect", u.devices \subseteq Listed \cup {d},
           Safe => /\ \A e \in Device \ {d} : Conn(e) /\ e \in Listed => e \in u.devices
                   /\ Conn(d) => d \in u.devices,
           Steady /\ ~Conn(d) => d \notin u.devices
    PROVE  OneUpdates' /\ Announcing' /\ Steadily' /\ Calling' /\ Removing'
<1>1. PICK s \in Seq(Update) : s = sends[d]
  BY SendsType
<1>2. PICK r : r = sends'[d] /\ r = s \o <<u>>
  BY <1>1 DEF CallInv, Basis, CallTypeOK
<1>3. /\ Len(s) \in Nat /\ Len(r) = Len(s) + 1 /\ r # <<>>
      /\ Len(r) \in DOMAIN r /\ r[Len(r)] = u
      /\ \A k \in DOMAIN r : k = Len(r) \/ (k \in DOMAIN s /\ r[k] = s[k])
      /\ \A k \in DOMAIN s : k \in DOMAIN r /\ r[k] = s[k]
  <2>1. r = s \o <<u>>
    BY <1>2
  <2> QED BY <2>1, OneMoreUpdate
<1>4. /\ \A e \in Device \ {d} : sends[e] = <<>> /\ sends'[e] = <<>>
      /\ callScenario.steady => ~Announced(d)
  BY InOrder DEF CallInv, Basis, CallTypeOK
<1>5. Listed' = Listed /\ \A a \in Device : (Conn(a)' <=> Conn(a)) /\ call'[a] = call[a]
  BY DEF Listed, Entry, Conn
<1>6. Announced(d)' <=> Announced(d)
  BY <1>1, <1>2, <1>3 DEF Announced
<1>7. \A a \in Device \ {d} : ~Announced(a)' /\ ~Announced(a)
  BY <1>4 DEF Announced
<1>8. Final(d)' = u.devices
  BY <1>2, <1>3 DEF Final
<1>9. OneUpdates'
  BY <1>4 DEF CallInv, OneUpdates
<1>10. Announcing'
  <2>1. ASSUME Safe', NEW a \in Device, NEW e \in Device, e # a, Conn(e)', NEW k \in DOMAIN sends'[a]
        PROVE  e \in sends'[a][k].devices
    <3>1. a = d /\ Conn(e) /\ sends[e] = <<>>
      BY <1>4, <1>5, <2>1
    <3>2. e \in Listed /\ \A j \in DOMAIN s : e \in s[j].devices
      BY <1>1, <2>1, <3>1 DEF CallInv, Announcing
    <3>3. e \in u.devices
      BY <2>1, <3>1, <3>2
    <3> QED BY <1>2, <1>3, <2>1, <3>1, <3>2, <3>3
  <2>2. ASSUME Safe', NEW a \in Device, Conn(a)'
        PROVE  /\ call'[a].timers > 0 \/ Announced(a)'
               /\ a \in IF sends'[a] = <<>> THEN Listed' ELSE Final(a)'
    <3>1. CASE a # d
      BY <1>4, <1>5, <1>7, <2>2, <3>1 DEF CallInv, Announcing
    <3>2. CASE a = d
      <4>1. call[d].timers > 0 \/ Announced(d)
        BY <1>5, <2>2, <3>2 DEF CallInv, Announcing
      <4> QED BY <1>2, <1>3, <1>5, <1>6, <1>8, <2>2, <3>2, <4>1
    <3> QED BY <3>1, <3>2
  <2> QED BY <2>1, <2>2 DEF Announcing
<1>11. Steadily'
  <2>1. ASSUME Steady', NEW a \in Device
        PROVE  /\ \A k \in DOMAIN sends'[a] : sends'[a][k].why = "connect" => k = Len(sends'[a])
               /\ Conn(a)' /\ ~Announced(a)' =>
                     a \in Listed' /\ \A k \in DOMAIN sends'[a] : a \in sends'[a][k].devices
    <3>1. CASE a = d
      <4>1. Safe /\ ~Announced(d)
        BY <1>4, <2>1 DEF Steady, Safe
      <4>2. Conn(d) => d \in Listed /\ d \in u.devices /\ \A k \in DOMAIN s : d \in s[k].devices
        BY <1>1, <2>1, <4>1 DEF CallInv, Steadily
      <4>3. \A k \in DOMAIN sends'[d] : sends'[d][k].why # "connect"
        BY <1>6, <4>1 DEF Announced
      <4>4. Conn(d)' => d \in Listed' /\ \A k \in DOMAIN sends'[d] : d \in sends'[d][k].devices
        BY <1>2, <1>3, <1>5, <4>2
      <4> QED BY <3>1, <4>3, <4>4
    <3>2. CASE a # d
      BY <1>4, <1>5, <1>7, <2>1, <3>2 DEF CallInv, Steadily
    <3> QED BY <3>1, <3>2
  <2> QED BY <2>1 DEF Steadily
<1>12. Calling'
  <2>1. ASSUME Steady', NEW a \in Device
        PROVE  /\ Phased(call'[a]) /\ (Announced(a)' => Conn(a)' /\ call'[a].timers = 0)
               /\ up'[a] => (activeCallRoomIds'[a] <=> Conn(a)')
    BY <1>5, <1>6, <1>7, <2>1 DEF CallInv, Calling
  <2> QED BY <2>1 DEF Calling
<1>13. Removing'
  <2>1. ASSUME Steady', NEW a \in Device, ~Conn(a)'
        PROVE  /\ sends'[a] # <<>> => a \notin Final(a)'
               /\ ~activeCallRoomIds'[a] /\ ~cleaning'[a] /\ sends'[a] = <<>> =>
                     /\ a \notin Listed'
                     /\ \A e \in Device : \A k \in DOMAIN sends'[e] : a \notin sends'[e][k].devices
    <3>1. CASE a = d
      BY <1>2, <1>3, <1>5, <1>8, <2>1, <3>1
    <3>2. CASE a # d
      <4>1. ASSUME ~activeCallRoomIds'[a], ~cleaning'[a]
            PROVE  a \notin Listed /\ \A k \in DOMAIN s : a \notin s[k].devices
        BY <1>1, <1>4, <1>5, <2>1, <3>2, <4>1 DEF CallInv, Removing
      <4>2. ASSUME ~activeCallRoomIds'[a], ~cleaning'[a], NEW e \in Device, NEW k \in DOMAIN sends'[e]
            PROVE  a \notin sends'[e][k].devices
        BY <1>2, <1>3, <1>4, <3>2, <4>1, <4>2
      <4> QED BY <1>4, <1>5, <3>2, <4>1, <4>2
    <3> QED BY <3>1, <3>2
  <2> QED BY <2>1 DEF Removing
<1> QED BY <1>9, <1>10, <1>11, <1>12, <1>13

(* The resend timer keeps the invariant; *)
LEMMA ResendKeeps ==
    ASSUME CallInv, NEW d \in Device, Resend(d), Serial, Safe' => Safe, Steady' => Steady
    PROVE  OneUpdates' /\ Announcing' /\ Steadily' /\ Calling' /\ Removing'
<1>1. member /\ Orderly(d) /\ call[d].timers > 0 /\ Devices(d) = Listed
  BY InOrder DEF CallInv, OneUpdates, Resend
<1>2. PICK u \in Update : u = [why |-> "resend", devices |-> Devices(d) \cup {d}]
  BY EntryType DEF CallInv, Basis, Update
<1>3. AddOurDevice(member, d, "resend") = <<u>>
  BY <1>1, <1>2 DEF AddOurDevice, UpdateDevices
<1>4. sends' = [sends EXCEPT ![d] = @ \o <<u>>]
  BY <1>3 DEF Resend
<1>5. u.why # "connect" /\ u.devices = Listed \cup {d}
  BY <1>1, <1>2
<1>6. Steady => Conn(d)
  BY <1>1, SendsType DEF CallInv, Calling, Phased, Conn
<1>7. UNCHANGED <<call, activeCallRoomIds, up, entries, expired, member>> /\ cleaning' = cleaning
  BY DEF Resend, roomVars
<1> QED BY <1>1, <1>4, <1>5, <1>6, <1>7, Renews

(* so does clean, which knows the current entry and that devices that are up *)
(* have been seen;                                                           *)
LEMMA CleanKeeps ==
    ASSUME CallInv, NEW d \in Device, Clean(d), Serial, Safe' => Safe, Steady' => Steady
    PROVE  OneUpdates' /\ Announcing' /\ Steadily' /\ Calling' /\ Removing'
<1>1. member /\ Orderly(d) /\ Devices(d) = Listed /\ up[d]
  BY InOrder DEF CallInv, OneUpdates, Clean, Basis
<1>2. PICK seen \in SUBSET Device :
        /\ \A e \in Device : up[e] => e \in seen
        /\ LET gone == Inactive(d, seen)
           IN sends' = [sends EXCEPT ![d] =
                  @ \o (IF gone = {} THEN <<>> ELSE UpdateDevices(member, "clean", Devices(d) \ gone))]
  BY DEF Clean
<1>3. PICK gone : gone = Inactive(d, seen)
  OBVIOUS
<1>4. \A e : e \in gone <=> e \in Listed /\ (e \notin seen \/ (e = d /\ ~Conn(d)))
  BY <1>1, <1>3 DEF Inactive, Conn
<1>5. UNCHANGED <<call, activeCallRoomIds, up, entries, expired, member>>
      /\ cleaning' = [cleaning EXCEPT ![d] = FALSE]
  BY DEF Clean, roomVars
<1>6. \A e \in Device \ {d} : cleaning'[e] = cleaning[e]
  BY <1>5 DEF CallInv, Basis, CallTypeOK
<1>7. CASE gone # {}
  <2>1. PICK u \in Update : u = [why |-> "clean", devices |-> Devices(d) \ gone]
    BY EntryType DEF CallInv, Basis, Update
  <2>2. sends' = [sends EXCEPT ![d] = @ \o <<u>>]
    BY <1>1, <1>2, <1>3, <1>7, <2>1 DEF UpdateDevices
  <2>3. u.why # "connect" /\ u.devices = Listed \ gone
    BY <1>1, <2>1
  <2>4. ASSUME NEW e \in Device \ {d}, Conn(e), e \in Listed
        PROVE  e \in u.devices
    <3>1. ~IsConnected(NewCall.state)
      BY DEF NewCall, IsConnected
    <3>2. up[e]
      BY <2>4, <3>1 DEF CallInv, Basis, Conn
    <3> QED BY <1>2, <1>4, <2>3, <2>4, <3>2
  <2>5. ASSUME Safe, Conn(d)
        PROVE  d \in u.devices
    <3>1. CASE callScenario.steady
      <4>1. Steady /\ ~Announced(d)
        BY <1>1, <2>5, <3>1, InOrder DEF Steady
      <4>2. d \in Listed
        BY <2>5, <4>1 DEF CallInv, Steadily
      <4> QED BY <1>1, <1>2, <1>4, <2>3, <2>5, <4>2
    <3>2. CASE callCount["crashes"] = 0
      <4>1. \A e \in Device : up[e]
        BY <3>2 DEF CallInv, Basis, Serial
      <4>2. \A e \in gone : e \in Device
        BY <1>4, EntryType DEF CallInv, Basis
      <4> QED BY <1>2, <1>4, <1>7, <2>5, <4>1, <4>2
    <3> QED BY <2>5, <3>1, <3>2 DEF Safe
  <2>6. ~Conn(d) => d \notin u.devices
    BY <1>4, <2>3
  <2> QED BY <1>1, <1>5, <1>6, <2>2, <2>3, <2>4, <2>5, <2>6, Renews
<1>8. CASE gone = {}
  <2>1. sends' = [sends EXCEPT ![d] = @ \o <<>>]
    BY <1>2, <1>3, <1>8
  <2>2. \A e \in Device : sends'[e] = sends[e]
    <3>1. PICK s \in Seq(Update) : s = sends[d]
      BY SendsType
    <3>2. s \o <<>> = s
      OBVIOUS
    <3> QED BY <2>1, <3>1, <3>2 DEF CallInv, Basis, CallTypeOK
  <2>3. Listed' = Listed /\ \A a \in Device : /\ Conn(a)' <=> Conn(a)
                                              /\ Announced(a)' <=> Announced(a)
                                              /\ Final(a)' = Final(a)
    BY <1>5, <2>2 DEF Listed, Entry, Conn, Announced, Final
  <2>4. OneUpdates'
    BY <1>5, <2>2 DEF CallInv, OneUpdates, Serial
  <2>5. Announcing'
    BY <1>5, <2>2, <2>3 DEF CallInv, Announcing
  <2>6. Steadily'
    BY <1>5, <2>2, <2>3 DEF CallInv, Steadily
  <2>7. Calling'
    BY <1>5, <2>2, <2>3 DEF CallInv, Calling
  <2>8. Removing'
    <3>1. ASSUME Steady', NEW a \in Device, ~Conn(a)'
          PROVE  /\ sends'[a] # <<>> => a \notin Final(a)'
                 /\ ~activeCallRoomIds'[a] /\ ~cleaning'[a] /\ sends'[a] = <<>> =>
                       /\ a \notin Listed'
                       /\ \A e \in Device : \A k \in DOMAIN sends'[e] : a \notin sends'[e][k].devices
      <4>1. CASE a # d
        BY <1>5, <1>6, <2>2, <2>3, <3>1, <4>1 DEF CallInv, Removing
      <4>2. CASE a = d
        <5>1. d \notin Listed
          BY <1>4, <1>8, <2>3, <3>1, <4>2
        <5>2. \A e \in Device \ {d} : sends'[e] = <<>>
          BY <1>1, <2>2, InOrder
        <5>3. sends[d] # <<>> => d \notin Final(d)
          BY <2>3, <3>1, <4>2 DEF CallInv, Removing
        <5> QED BY <2>2, <2>3, <4>2, <5>1, <5>2, <5>3
      <4> QED BY <4>1, <4>2
    <3> QED BY <3>1 DEF Removing
  <2> QED BY <2>4, <2>5, <2>6, <2>7, <2>8
<1> QED BY <1>7, <1>8

(* The first update of a device reaches the server: s becomes r. *)
Sent(d, s, r) ==
    /\ s = sends[d] /\ r = sends'[d] /\ Len(s) \in Nat /\ Len(s) > 0 /\ Len(r) = Len(s) - 1
    /\ \A k \in DOMAIN r : k + 1 \in DOMAIN s /\ r[k] = s[k + 1]
    /\ \A k \in DOMAIN s : k = 1 \/ (k - 1 \in DOMAIN r /\ r[k - 1] = s[k])
    /\ 1 \in DOMAIN s /\ Listed' = s[1].devices
    /\ call'[d] = AfterSend(call[d], s[1].why)
    /\ \A e \in Device \ {d} : call'[e] = call[e] /\ sends'[e] = sends[e] /\ sends[e] = <<>>
    /\ UNCHANGED <<up, activeCallRoomIds, cleaning, member>>

(* A serial update that is sent is the first. *)
LEMMA FirstSent ==
    ASSUME CallInv, NEW d \in Device, EntrySent(d), Serial
    PROVE  \E s \in Seq(Update), r \in Seq(Update) : Sent(d, s, r)
<1>1. PICK i \in DOMAIN sends[d] :
        /\ callScenario.serial => i = 1
        /\ entries' = Append(entries, sends[d][i].devices)
        /\ call' = [call EXCEPT ![d] = AfterSend(@, sends[d][i].why)]
        /\ sends' = [sends EXCEPT ![d] = RemoveAt(@, i)]
        /\ UNCHANGED <<up, activeCallRoomIds, known, cleaning, expired, member, callCount, callScenario>>
  BY DEF EntrySent
<1>2. PICK s \in Seq(Update) : s = sends[d] /\ i = 1 /\ 1 \in DOMAIN s
  BY <1>1, SendsType DEF Serial
<1>3. PICK r : r = SubSeq(s, 2, Len(s))
  OBVIOUS
<1>4. /\ r \in Seq(Update) /\ Len(s) \in Nat /\ Len(s) > 0 /\ Len(r) = Len(s) - 1
      /\ DOMAIN r = 1 .. (Len(s) - 1) /\ DOMAIN s = 1 .. Len(s)
      /\ \A k \in 1 .. (Len(s) - 1) : r[k] = s[k + 1]
  BY <1>2, <1>3
<1>5. RemoveAt(s, 1) = r
  <2>1. SubSeq(s, 1, 0) = <<>>
    BY <1>2
  <2>2. RemoveAt(s, 1) = SubSeq(s, 1, 0) \o SubSeq(s, 2, Len(s))
    BY DEF RemoveAt
  <2> QED BY <1>3, <1>4, <2>1, <2>2
<1>6. ASSUME NEW k \in DOMAIN s, k # 1
      PROVE  k - 1 \in DOMAIN r /\ r[k - 1] = s[k]
  <2>1. k - 1 \in 1 .. (Len(s) - 1) /\ (k - 1) + 1 = k
    BY <1>4, <1>6
  <2>2. r[k - 1] = s[(k - 1) + 1]
    BY <1>4, <2>1
  <2> QED BY <1>4, <2>1, <2>2
<1>7. \A k \in DOMAIN r : k + 1 \in DOMAIN s /\ r[k] = s[k + 1]
  BY <1>4
<1>8. /\ call'[d] = AfterSend(call[d], s[1].why) /\ sends'[d] = r
      /\ \A e \in Device \ {d} : call'[e] = call[e] /\ sends'[e] = sends[e]
  BY <1>1, <1>2, <1>5 DEF CallInv, Basis, CallTypeOK
<1>9. \A e \in Device \ {d} : sends[e] = <<>>
  <2>1. sends[d] # <<>>
    BY <1>2
  <2> QED BY <2>1 DEF CallInv, OneUpdates
<1>10. Listed' = s[1].devices
  <2>1. entries \in Seq(SUBSET Device) /\ expired \in 0 .. Len(entries) /\ Len(entries) \in Nat
    BY DEF CallInv, Basis, CallTypeOK
  <2>2. PICK x : x = s[1].devices /\ entries' = Append(entries, x) /\ x \in SUBSET Device
    <3>1. s[1] \in Update
      BY <1>2
    <3> QED BY <1>1, <1>2, <3>1 DEF Update
  <2>3. Len(entries') = Len(entries) + 1 /\ entries'[Len(entries')] = x /\ expired' = expired
    BY <1>1, <2>1, <2>2
  <2>4. ~(Len(entries') <= expired')
    BY <2>1, <2>3
  <2>5. Listed' = IF Len(entries') <= expired' THEN {} ELSE entries'[Len(entries')]
    BY DEF Listed, Entry
  <2> QED BY <2>2, <2>3, <2>4, <2>5
<1>11. Sent(d, s, r)
  BY <1>1, <1>2, <1>4, <1>6, <1>7, <1>8, <1>9, <1>10 DEF Sent
<1> QED BY <1>4, <1>11

(* The answer of the server keeps the invariant, *)
LEMMA EntrySentKeeps ==
    ASSUME CallInv, NEW d \in Device, EntrySent(d), Serial, Safe' => Safe, Steady' => Steady
    PROVE  OneUpdates' /\ Announcing' /\ Steadily' /\ Calling' /\ Removing'
<1>0. PICK s \in Seq(Update), r \in Seq(Update) : Sent(d, s, r)
  BY FirstSent
<1>1. /\ s = sends[d] /\ r = sends'[d] /\ Len(s) \in Nat /\ Len(s) > 0 /\ Len(r) = Len(s) - 1
      /\ \A k \in DOMAIN r : k + 1 \in DOMAIN s /\ r[k] = s[k + 1]
      /\ \A k \in DOMAIN s : k = 1 \/ (k - 1 \in DOMAIN r /\ r[k - 1] = s[k])
      /\ 1 \in DOMAIN s /\ Listed' = s[1].devices
      /\ call'[d] = AfterSend(call[d], s[1].why)
      /\ \A e \in Device \ {d} : call'[e] = call[e] /\ sends'[e] = sends[e] /\ sends[e] = <<>>
      /\ UNCHANGED <<up, activeCallRoomIds, cleaning, member>>
  BY <1>0 DEF Sent
<1>2. /\ DOMAIN s = 1 .. Len(s) /\ DOMAIN r = 1 .. Len(r) /\ s # <<>>
      /\ r = <<>> => Len(s) = 1
      /\ r # <<>> => Len(r) \in DOMAIN r
  <2>1. Len(s) > 0 /\ Len(r) = Len(s) - 1 /\ Len(s) \in Nat
    BY <1>1
  <2> QED BY <2>1
<1>3. /\ s[1].why = "connect" => call'[d] = SetTimer(call[d])
      /\ s[1].why # "connect" => call'[d] = call[d]
  BY <1>1 DEF AfterSend
<1>4. /\ call'[d].state = call[d].state /\ call'[d].starting = call[d].starting
      /\ call'[d].joining = call[d].joining /\ call'[d].hangingUp = call[d].hangingUp
      /\ call[d].timers \in Nat
      /\ s[1].why = "connect" => call'[d].timers = call[d].timers + 1 /\ call'[d].held
      /\ s[1].why # "connect" => call'[d].timers = call[d].timers /\ call'[d].held = call[d].held
  BY <1>3, SendsType DEF SetTimer, CallOf
<1>5. \A a \in Device : Conn(a)' <=> Conn(a)
  BY <1>1, <1>4 DEF Conn
<1>6. /\ Announced(d) <=> \E k \in DOMAIN s : s[k].why = "connect"
      /\ Announced(d)' <=> \E k \in DOMAIN r : r[k].why = "connect"
      /\ Final(d) = s[Len(s)].devices
      /\ r # <<>> => Final(d)' = Final(d)
  <2>1. r # <<>> => r[Len(r)] = s[Len(s)]
    <3>1. Len(r) + 1 = Len(s)
      BY <1>1
    <3> QED BY <1>1, <1>2, <3>1
  <2> QED BY <1>1, <2>1 DEF Announced, Final
<1>7. \A a \in Device \ {d} : /\ ~Announced(a) /\ ~Announced(a)' /\ sends'[a] = <<>> /\ sends[a] = <<>>
                              /\ call'[a] = call[a]
  BY <1>1 DEF Announced
<1>8. Announced(d) => s[1].why = "connect" \/ Announced(d)'
  <2>1. ASSUME NEW k \in DOMAIN s, s[k].why = "connect", k # 1
        PROVE  Announced(d)'
    <3>1. k - 1 \in DOMAIN r /\ r[k - 1].why = "connect"
      BY <1>1, <2>1
    <3> QED BY <1>6, <3>1
  <2> QED BY <1>6, <2>1
<1>9. Announced(d)' => Announced(d)
  <2>1. ASSUME NEW k \in DOMAIN r, r[k].why = "connect"
        PROVE  Announced(d)
    <3>1. k + 1 \in DOMAIN s /\ s[k + 1].why = "connect"
      BY <1>1, <2>1
    <3> QED BY <1>6, <3>1
  <2> QED BY <1>6, <2>1
<1>10. OneUpdates'
  <2>1. member /\ member' = member
    BY <1>1 DEF CallInv, OneUpdates
  <2>2. \A e \in Device \ {d} : sends'[e] = <<>>
    BY <1>7
  <2> QED BY <2>1, <2>2 DEF OneUpdates
<1>11. Announcing'
  <2>1. ASSUME Safe', NEW a \in Device, NEW e \in Device, e # a, Conn(e)', NEW k \in DOMAIN sends'[a]
        PROVE  e \in sends'[a][k].devices
    <3>1. a = d /\ Conn(e)
      BY <1>5, <1>7, <2>1
    <3>2. \A j \in DOMAIN s : e \in s[j].devices
      BY <1>1, <2>1, <3>1 DEF CallInv, Announcing
    <3> QED BY <1>1, <2>1, <3>1, <3>2
  <2>2. ASSUME Safe', NEW a \in Device, Conn(a)'
        PROVE  /\ call'[a].timers > 0 \/ Announced(a)'
               /\ a \in IF sends'[a] = <<>> THEN Listed' ELSE Final(a)'
    <3>1. CASE a # d
      <4>1. Conn(a) /\ ~Announced(a) /\ sends'[a] = <<>> /\ call'[a] = call[a]
        BY <1>5, <1>7, <2>2, <3>1
      <4>2. call[a].timers > 0
        BY <2>2, <4>1 DEF CallInv, Announcing
      <4>3. a \in s[1].devices
        BY <1>1, <2>2, <3>1, <4>1 DEF CallInv, Announcing
      <4> QED BY <1>1, <4>1, <4>2, <4>3
    <3>2. CASE a = d
      <4>1. (call[d].timers > 0 \/ Announced(d)) /\ d \in Final(d)
        BY <1>1, <1>2, <1>5, <2>2, <3>2 DEF CallInv, Announcing
      <4>2. call'[d].timers > 0 \/ Announced(d)'
        BY <1>4, <1>8, <4>1
      <4>3. CASE r = <<>>
        BY <1>1, <1>2, <1>6, <3>2, <4>1, <4>2, <4>3
      <4>4. CASE r # <<>>
        BY <1>1, <1>6, <3>2, <4>1, <4>2, <4>4
      <4> QED BY <4>3, <4>4
    <3> QED BY <3>1, <3>2
  <2> QED BY <2>1, <2>2 DEF Announcing
<1>12. Steadily'
  <2>1. ASSUME Steady', NEW a \in Device
        PROVE  /\ \A k \in DOMAIN sends'[a] : sends'[a][k].why = "connect" => k = Len(sends'[a])
               /\ Conn(a)' /\ ~Announced(a)' =>
                     a \in Listed' /\ \A k \in DOMAIN sends'[a] : a \in sends'[a][k].devices
    <3>1. CASE a # d
      <4>1. sends'[a] = <<>> /\ ~Announced(a) /\ Safe
        BY <1>7, <2>1, <3>1 DEF Steady, Safe
      <4>2. Conn(a) => a \in s[1].devices
        BY <1>1, <3>1, <4>1 DEF CallInv, Announcing
      <4> QED BY <1>1, <1>5, <4>1, <4>2
    <3>2. CASE a = d
      <4>1. ASSUME NEW k \in DOMAIN r, r[k].why = "connect"
            PROVE  k = Len(r)
        <5>1. k + 1 \in DOMAIN s /\ r[k] = s[k + 1]
          BY <1>1, <4>1, Zenon
        <5>2. k \in Nat
          BY <1>2, <4>1
        <5>3. k + 1 \in DOMAIN s /\ s[k + 1].why = "connect" /\ k \in Nat
          BY <4>1, <5>1, <5>2, Zenon
        <5>4. k + 1 = Len(s)
          BY <1>1, <2>1, <5>3 DEF CallInv, Steadily
        <5> QED BY <1>1, <5>3, <5>4
      <4>2. ASSUME Conn(d), ~Announced(d)', Announced(d)
            PROVE  r = <<>> /\ d \in Listed'
        <5>1. s[1].why = "connect"
          BY <1>8, <4>2
        <5>2. Len(s) = 1
          BY <1>1, <2>1, <5>1 DEF CallInv, Steadily
        <5>3. d \in Final(d)
          BY <1>1, <1>2, <2>1, <4>2 DEF CallInv, Announcing, Steady, Safe
        <5> QED BY <1>1, <1>2, <1>6, <5>2, <5>3
      <4>3. ASSUME Conn(d), ~Announced(d)
            PROVE  d \in Listed' /\ \A k \in DOMAIN r : d \in r[k].devices
        <5>1. \A k \in DOMAIN s : d \in s[k].devices
          BY <1>1, <2>1, <4>3 DEF CallInv, Steadily
        <5> QED BY <1>1, <5>1
      <4> QED BY <1>1, <1>5, <3>2, <4>1, <4>2, <4>3
    <3> QED BY <3>1, <3>2
  <2> QED BY <2>1 DEF Steadily
<1>13. Calling'
  <2>1. ASSUME Steady', NEW a \in Device
        PROVE  /\ Phased(call'[a]) /\ (Announced(a)' => Conn(a)' /\ call'[a].timers = 0)
               /\ up'[a] => (activeCallRoomIds'[a] <=> Conn(a)')
    <3>1. CASE a # d
      BY <1>1, <1>5, <1>7, <2>1, <3>1 DEF CallInv, Calling
    <3>2. CASE a = d
      <4>1. /\ Phased(call[d]) /\ (Announced(d) => Conn(d) /\ call[d].timers = 0)
            /\ up[d] => (activeCallRoomIds[d] <=> Conn(d))
        BY <2>1 DEF CallInv, Calling
      <4>2. CASE s[1].why = "connect"
        <5>1. Announced(d) /\ call[d].timers = 0 /\ Conn(d)
          BY <1>1, <1>6, <4>1, <4>2
        <5>2. Len(s) = 1
          BY <1>1, <2>1, <4>2 DEF CallInv, Steadily
        <5>3. ~Announced(d)'
          BY <1>1, <1>2, <1>6, <5>2
        <5>4. Phased(call'[d])
          BY <1>4, <4>1, <4>2, <5>1 DEF Phased, Conn
        <5> QED BY <1>1, <1>5, <3>2, <4>1, <5>3, <5>4
      <4>3. CASE s[1].why # "connect"
        <5>1. call'[d] = call[d]
          BY <1>3, <4>3
        <5> QED BY <1>1, <1>5, <1>9, <3>2, <4>1, <5>1
      <4> QED BY <4>2, <4>3
    <3> QED BY <3>1, <3>2
  <2> QED BY <2>1 DEF Calling
<1>14. Removing'
  <2>1. ASSUME Steady', NEW a \in Device, ~Conn(a)'
        PROVE  /\ sends'[a] # <<>> => a \notin Final(a)'
               /\ ~activeCallRoomIds'[a] /\ ~cleaning'[a] /\ sends'[a] = <<>> =>
                     /\ a \notin Listed'
                     /\ \A e \in Device : \A k \in DOMAIN sends'[e] : a \notin sends'[e][k].devices
    <3>1. CASE a # d
      <4>1. ASSUME ~activeCallRoomIds'[a], ~cleaning'[a]
            PROVE  \A k \in DOMAIN s : a \notin s[k].devices
        BY <1>1, <1>5, <1>7, <2>1, <3>1, <4>1 DEF CallInv, Removing
      <4>2. ASSUME ~activeCallRoomIds'[a], ~cleaning'[a]
            PROVE  \A k \in DOMAIN r : a \notin r[k].devices
        BY <1>1, <4>1, <4>2
      <4>3. ASSUME ~activeCallRoomIds'[a], ~cleaning'[a], NEW e \in Device, NEW k \in DOMAIN sends'[e]
            PROVE  a \notin sends'[e][k].devices
        <5>1. sends'[d] = r /\ \A f \in Device \ {d} : sends'[f] = <<>>
          BY <1>1, <1>7
        <5>2. e = d
          BY <4>3, <5>1
        <5> QED BY <4>2, <4>3, <5>1, <5>2
      <4>4. ~activeCallRoomIds'[a] /\ ~cleaning'[a] => a \notin Listed'
        BY <1>1, <4>1
      <4> QED BY <1>7, <3>1, <4>3, <4>4
    <3>2. CASE a = d
      <4>1. d \notin Final(d)
        BY <1>1, <1>2, <1>5, <2>1, <3>2 DEF CallInv, Removing
      <4>2. CASE r = <<>>
        <5>1. d \notin Listed'
          BY <1>1, <1>2, <1>6, <4>1, <4>2
        <5>2. \A e \in Device : sends'[e] = <<>>
          BY <1>1, <1>7, <4>2
        <5> QED BY <3>2, <5>1, <5>2
      <4>3. CASE r # <<>>
        BY <1>1, <1>6, <3>2, <4>1, <4>3
      <4> QED BY <4>2, <4>3
    <3> QED BY <3>1, <3>2
  <2> QED BY <2>1 DEF Removing
<1> QED BY <1>10, <1>11, <1>12, <1>13, <1>14

(* A tab ends.  One that crashes has nothing under way where calls follow   *)
(* one another; one that unloads may have sent its removal.                *)
LEMMA CrashKeeps ==
    ASSUME CallInv, NEW d \in Device, Crash(d), Serial, Serial', Safe' => Safe, Steady' => Steady
    PROVE  OneUpdates' /\ Announcing' /\ Steadily' /\ Calling' /\ Removing'
<1>1. /\ UNCHANGED <<known, expired, member, callScenario, activeCallRoomIds, entries>>
      /\ up' = [up EXCEPT ![d] = FALSE] /\ call' = [call EXCEPT ![d] = NewCall] /\ up[d]
      /\ sends' = [sends EXCEPT ![d] = <<>>] /\ cleaning' = [cleaning EXCEPT ![d] = FALSE]
      /\ callScenario.steady => sends[d] = <<>> /\ ~cleaning[d]
  BY DEF Crash, Gone
<1>2. callCount'["crashes"] # 0
  BY CountGrows DEF Crash, Bounds, CallInv, Basis
<1>3. Safe' <=> Steady'
  BY <1>2 DEF Safe, Steady
<1>4. /\ up'[d] = FALSE /\ call'[d] = NewCall /\ sends'[d] = <<>>
      /\ \A e \in Device \ {d} : /\ up'[e] = up[e] /\ call'[e] = call[e] /\ sends'[e] = sends[e]
                                 /\ cleaning'[e] = cleaning[e]
      /\ cleaning'[d] = FALSE
  BY <1>1 DEF CallInv, Basis, CallTypeOK
<1>5. Listed' = Listed
  BY <1>1 DEF Listed, Entry
<1>6. ~Conn(d)' /\ Phased(NewCall) /\ ~Announced(d)'
  BY <1>4 DEF Conn, NewCall, IsConnected, Phased, Announced
<1>7. \A e \in Device \ {d} : (Conn(e)' <=> Conn(e)) /\ (Announced(e)' <=> Announced(e)) /\ Final(e)' = Final(e)
  BY <1>4 DEF Conn, Announced, Final
<1>8. \A e \in Device : sends'[e] = <<>> \/ sends'[e] = sends[e]
  BY <1>4
<1>9. OneUpdates'
  BY <1>1, <1>8 DEF CallInv, OneUpdates
<1>10. Announcing'
  <2>1. ASSUME Safe', NEW a \in Device, NEW e \in Device, e # a, Conn(e)', NEW k \in DOMAIN sends'[a]
        PROVE  e \in sends'[a][k].devices
    <3>1. e # d /\ Conn(e) /\ a # d /\ sends'[a] = sends[a]
      BY <1>4, <1>6, <1>7, <2>1
    <3> QED BY <2>1, <3>1 DEF CallInv, Announcing
  <2>2. ASSUME Safe', NEW a \in Device, Conn(a)'
        PROVE  /\ call'[a].timers > 0 \/ Announced(a)'
               /\ a \in IF sends'[a] = <<>> THEN Listed' ELSE Final(a)'
    <3>1. a # d
      BY <1>6, <2>2
    <3> QED BY <1>4, <1>5, <1>7, <2>2, <3>1 DEF CallInv, Announcing
  <2> QED BY <2>1, <2>2 DEF Announcing
<1>11. Steadily'
  <2>1. ASSUME Steady', NEW a \in Device
        PROVE  /\ \A k \in DOMAIN sends'[a] : sends'[a][k].why = "connect" => k = Len(sends'[a])
               /\ Conn(a)' /\ ~Announced(a)' =>
                     a \in Listed' /\ \A k \in DOMAIN sends'[a] : a \in sends'[a][k].devices
    <3>1. CASE a = d
      BY <1>4, <1>6, <3>1
    <3>2. CASE a # d
      BY <1>4, <1>5, <1>7, <2>1, <3>2 DEF CallInv, Steadily
    <3> QED BY <3>1, <3>2
  <2> QED BY <2>1 DEF Steadily
<1>12. Calling'
  <2>1. ASSUME Steady', NEW a \in Device
        PROVE  /\ Phased(call'[a]) /\ (Announced(a)' => Conn(a)' /\ call'[a].timers = 0)
               /\ up'[a] => (activeCallRoomIds'[a] <=> Conn(a)')
    <3>1. CASE a = d
      BY <1>4, <1>6, <3>1
    <3>2. CASE a # d
      BY <1>1, <1>4, <1>7, <2>1, <3>2 DEF CallInv, Calling
    <3> QED BY <3>1, <3>2
  <2> QED BY <2>1 DEF Calling
<1>13. Removing'
  <2>1. ASSUME Steady', NEW a \in Device, ~Conn(a)'
        PROVE  /\ sends'[a] # <<>> => a \notin Final(a)'
               /\ ~activeCallRoomIds'[a] /\ ~cleaning'[a] /\ sends'[a] = <<>> =>
                     /\ a \notin Listed'
                     /\ \A e \in Device : \A k \in DOMAIN sends'[e] : a \notin sends'[e][k].devices
    <3>1. /\ callScenario'.steady /\ callScenario' = callScenario
          /\ sends[d] = <<>> /\ ~cleaning[d]
          /\ \A e \in Device : sends'[e] = sends[e]
      BY <1>1, <1>4, <2>1 DEF Steady
    <3>2. CASE a = d
      <4>1. activeCallRoomIds[d] <=> Conn(d)
        BY <1>1, <2>1 DEF CallInv, Calling
      <4> QED BY <1>1, <1>5, <2>1, <3>1, <3>2, <4>1 DEF CallInv, Removing
    <3>3. CASE a # d
      BY <1>1, <1>4, <1>5, <1>7, <2>1, <3>1, <3>3 DEF CallInv, Removing
    <3> QED BY <3>2, <3>3
  <2> QED BY <2>1 DEF Removing
<1> QED BY <1>9, <1>10, <1>11, <1>12, <1>13

(* so does a page that unloads in the call, *)
LEMMA UnloadKeeps ==
    ASSUME CallInv, NEW d \in Device, BeforeUnload(d), Serial, Serial', Safe' => Safe, Steady' => Steady
    PROVE  OneUpdates' /\ Announcing' /\ Steadily' /\ Calling' /\ Removing'
<1>1. /\ UNCHANGED <<known, expired, member, callScenario>> /\ member /\ Orderly(d)
      /\ up' = [up EXCEPT ![d] = FALSE] /\ call' = [call EXCEPT ![d] = NewCall] /\ up[d]
      /\ sends' = [sends EXCEPT ![d] = <<>>] /\ cleaning' = [cleaning EXCEPT ![d] = FALSE]
      /\ activeCallRoomIds' = [activeCallRoomIds EXCEPT ![d] = FALSE]
      /\ Happens("crashes") /\ entries' = Append(entries, Devices(d) \ {d})
  BY NoFaults DEF BeforeUnload, Gone, CallInv, OneUpdates
<1>2. callCount'["crashes"] # 0
  BY <1>1, CountGrows DEF Bounds, CallInv, Basis
<1>3. Safe' <=> Steady'
  BY <1>2 DEF Safe, Steady
<1>4. /\ up'[d] = FALSE /\ call'[d] = NewCall /\ sends'[d] = <<>>
      /\ \A e \in Device \ {d} : /\ up'[e] = up[e] /\ call'[e] = call[e] /\ sends'[e] = sends[e]
                                 /\ cleaning'[e] = cleaning[e]
                                 /\ activeCallRoomIds'[e] = activeCallRoomIds[e]
  BY <1>1 DEF CallInv, Basis, CallTypeOK
<1>5. Devices(d) = Listed /\ \A e \in Device \ {d} : sends[e] = <<>>
  BY <1>1, InOrder
<1>6. \A e \in Device : sends'[e] = <<>> /\ ~Announced(e)'
  BY <1>4, <1>5 DEF Announced
<1>7. Listed' = Listed \ {d}
  <2>1. entries \in Seq(SUBSET Device) /\ expired \in 0 .. Len(entries) /\ Len(entries) \in Nat
    BY DEF CallInv, Basis, CallTypeOK
  <2>2. PICK x \in SUBSET Device : x = Devices(d) \ {d}
    BY EntryType DEF CallInv, Basis
  <2>3. Len(entries') = Len(entries) + 1 /\ entries'[Len(entries')] = x /\ expired' = expired
    BY <1>1, <2>1, <2>2
  <2>4. ~(Len(entries') <= expired')
    BY <2>1, <2>3
  <2>5. Listed' = IF Len(entries') <= expired' THEN {} ELSE entries'[Len(entries')]
    BY DEF Listed, Entry
  <2> QED BY <1>5, <2>2, <2>3, <2>4, <2>5
<1>8. ~Conn(d)' /\ Phased(NewCall)
  BY <1>4 DEF Conn, NewCall, IsConnected, Phased
<1>9. \A e \in Device \ {d} : (Conn(e)' <=> Conn(e)) /\ ~Announced(e)
  BY <1>4, <1>5 DEF Conn, Announced
<1>10. OneUpdates'
  BY <1>1, <1>6 DEF OneUpdates
<1>11. ASSUME Steady', NEW a \in Device, Conn(a)'
       PROVE  a # d /\ call'[a].timers > 0 /\ a \in Listed'
  <2>1. a # d /\ Conn(a) /\ ~Announced(a) /\ sends[a] = <<>> /\ Safe
    BY <1>3, <1>5, <1>8, <1>9, <1>11
  <2>2. call[a].timers > 0 /\ a \in Listed
    BY <2>1 DEF CallInv, Announcing
  <2> QED BY <1>4, <1>7, <2>1, <2>2
<1>12. Announcing'
  BY <1>3, <1>6, <1>11 DEF Announcing
<1>13. Steadily'
  BY <1>6, <1>11 DEF Steadily
<1>14. Calling'
  <2>1. ASSUME Steady', NEW a \in Device
        PROVE  /\ Phased(call'[a]) /\ (Announced(a)' => Conn(a)' /\ call'[a].timers = 0)
               /\ up'[a] => (activeCallRoomIds'[a] <=> Conn(a)')
    <3>1. CASE a = d
      BY <1>4, <1>6, <1>8, <3>1
    <3>2. CASE a # d
      BY <1>4, <1>6, <1>9, <2>1, <3>2 DEF CallInv, Calling
    <3> QED BY <3>1, <3>2
  <2> QED BY <2>1 DEF Calling
<1>15. Removing'
  <2>1. ASSUME Steady', NEW a \in Device, ~Conn(a)', ~activeCallRoomIds'[a], ~cleaning'[a]
        PROVE  a \notin Listed'
    <3>1. CASE a = d
      BY <1>7, <3>1
    <3>2. CASE a # d
      BY <1>4, <1>5, <1>7, <1>9, <2>1, <3>2 DEF CallInv, Removing
    <3> QED BY <3>1, <3>2
  <2> QED BY <1>6, <2>1 DEF Removing
<1> QED BY <1>10, <1>12, <1>13, <1>14, <1>15

(* Where no connection, update or entry changes. *)
LEMMA SameConnections ==
    ASSUME CallInv, UNCHANGED <<call, sends, member>>, Serial, Safe' => Safe, Steady' => Steady,
           \/ Listed' = Listed
           \/ Listed' = {} /\ \A e \in Device : sends[e] = <<>> /\ ~(call[e].timers > 0)
    PROVE  /\ OneUpdates' /\ Announcing' /\ Steadily'
           /\ \A a \in Device : (Conn(a)' <=> Conn(a)) /\ (Announced(a)' <=> Announced(a))
                                /\ Final(a)' = Final(a)
<1>1. \A a \in Device : (Conn(a)' <=> Conn(a)) /\ (Announced(a)' <=> Announced(a)) /\ Final(a)' = Final(a)
  BY DEF Conn, Announced, Final
<1>2. ASSUME Safe, Listed' # Listed
      PROVE  \A a \in Device : ~Conn(a)
  BY <1>2 DEF CallInv, Announcing, Announced
<1>3. OneUpdates'
  BY DEF CallInv, OneUpdates
<1>4. Announcing'
  BY <1>1, <1>2 DEF CallInv, Announcing
<1>5. Steady => Safe
  BY DEF Steady, Safe
<1>6. Steadily'
  BY <1>1, <1>2, <1>5 DEF CallInv, Steadily
<1> QED BY <1>1, <1>3, <1>4, <1>6

(* and so do /sync, the restart of a client and the end of the hour. *)
LEMMA OthersKeep ==
    ASSUME CallInv, Serial, Serial', Safe' => Safe, Steady' => Steady,
           \/ \E d \in Device : Sync(d) \/ OnReady(d)
           \/ Expire \/ UNCHANGED callVars
    PROVE  OneUpdates' /\ Announcing' /\ Steadily' /\ Calling' /\ Removing'
<1>1. ASSUME NEW d \in Device, OnReady(d)
      PROVE  OneUpdates' /\ Announcing' /\ Steadily' /\ Calling' /\ Removing'
  <2>1. /\ UNCHANGED <<call, sends, entries, expired, member>> /\ ~up[d]
        /\ cleaning' = [cleaning EXCEPT ![d] = activeCallRoomIds[d]]
        /\ activeCallRoomIds' = [activeCallRoomIds EXCEPT ![d] = FALSE]
        /\ up' = [up EXCEPT ![d] = TRUE]
    BY <1>1 DEF OnReady, roomVars
  <2>2. Listed' = Listed
    BY <2>1 DEF Listed, Entry
  <2>3. /\ OneUpdates' /\ Announcing' /\ Steadily'
        /\ \A a \in Device : (Conn(a)' <=> Conn(a)) /\ (Announced(a)' <=> Announced(a)) /\ Final(a)' = Final(a)
    BY <2>1, <2>2, SameConnections
  <2>4. /\ cleaning'[d] = activeCallRoomIds[d] /\ activeCallRoomIds'[d] = FALSE
        /\ \A e \in Device \ {d} : cleaning'[e] = cleaning[e] /\ activeCallRoomIds'[e] = activeCallRoomIds[e]
                                   /\ up'[e] = up[e]
    BY <2>1 DEF CallInv, Basis, CallTypeOK
  <2>5. ~Conn(d) /\ ~cleaning[d]
    BY <2>1 DEF CallInv, Basis, Conn, NewCall, IsConnected
  <2>6. Calling'
    <3>1. ASSUME Steady', NEW a \in Device
          PROVE  /\ Phased(call'[a]) /\ (Announced(a)' => Conn(a)' /\ call'[a].timers = 0)
                 /\ up'[a] => (activeCallRoomIds'[a] <=> Conn(a)')
      BY <2>1, <2>3, <2>4, <2>5, <3>1 DEF CallInv, Calling
    <3> QED BY <3>1 DEF Calling
  <2>7. Removing'
    <3>1. ASSUME Steady', NEW a \in Device, ~Conn(a)'
          PROVE  /\ sends'[a] # <<>> => a \notin Final(a)'
                 /\ ~activeCallRoomIds'[a] /\ ~cleaning'[a] /\ sends'[a] = <<>> =>
                       /\ a \notin Listed'
                       /\ \A e \in Device : \A k \in DOMAIN sends'[e] : a \notin sends'[e][k].devices
      <4>1. ~activeCallRoomIds'[a] /\ ~cleaning'[a] => ~activeCallRoomIds[a] /\ ~cleaning[a]
        BY <2>4, <2>5
      <4> QED BY <2>1, <2>2, <2>3, <3>1, <4>1 DEF CallInv, Removing
    <3> QED BY <3>1 DEF Removing
  <2> QED BY <2>3, <2>6, <2>7
<1>2. ASSUME UNCHANGED <<call, up, activeCallRoomIds, sends, cleaning, member>>,
             \/ Listed' = Listed
             \/ Listed' = {} /\ \A e \in Device : sends[e] = <<>> /\ ~(call[e].timers > 0)
      PROVE  OneUpdates' /\ Announcing' /\ Steadily' /\ Calling' /\ Removing'
  <2>1. /\ OneUpdates' /\ Announcing' /\ Steadily'
        /\ \A a \in Device : (Conn(a)' <=> Conn(a)) /\ (Announced(a)' <=> Announced(a)) /\ Final(a)' = Final(a)
    BY <1>2, SameConnections
  <2>2. Calling'
    BY <1>2, <2>1 DEF CallInv, Calling
  <2>3. Removing'
    BY <1>2, <2>1 DEF CallInv, Removing
  <2> QED BY <2>1, <2>2, <2>3
<1>3. ASSUME NEW d \in Device, Sync(d)
      PROVE  UNCHANGED <<call, up, activeCallRoomIds, sends, cleaning, member>> /\ Listed' = Listed
  BY <1>3 DEF Sync, roomVars, Listed, Entry
<1>4. ASSUME UNCHANGED callVars
      PROVE  UNCHANGED <<call, up, activeCallRoomIds, sends, cleaning, member>> /\ Listed' = Listed
  BY <1>4 DEF callVars, deviceVars, roomVars, Listed, Entry
<1>5. ASSUME Expire
      PROVE  /\ UNCHANGED <<call, up, activeCallRoomIds, sends, cleaning, member>>
             /\ Listed' = {} /\ \A e \in Device : sends[e] = <<>> /\ ~(call[e].timers > 0)
  <2>1. /\ UNCHANGED <<call, up, activeCallRoomIds, sends, cleaning, member, entries>>
        /\ expired' = Len(entries) /\ \A e \in Device : call[e].timers = 0 /\ sends[e] = <<>>
    BY <1>5 DEF Expire, deviceVars
  <2>2. Len(entries) \in Nat
    BY DEF CallInv, Basis, CallTypeOK
  <2>3. Listed' = IF Len(entries') <= expired' THEN {} ELSE entries'[Len(entries')]
    BY DEF Listed, Entry
  <2>4. Len(entries') <= expired'
    BY <2>1, <2>2
  <2> QED BY <2>1, <2>3, <2>4
<1> QED BY <1>1, <1>2, <1>3, <1>4, <1>5

----------------------------------------------------------------------------
(* EVERY STEP KEEPS THE INVARIANT *)

(* All the actions on a call keep it, *)
LEMMA ActingKeeps ==
    ASSUME CallInv, NEW d \in Device, Acting(d), Serial, Serial', Safe' => Safe, Steady' => Steady
    PROVE  OneUpdates' /\ Announcing' /\ Steadily' /\ Calling' /\ Removing'
<1>1. OneUpdates' /\ Announcing'
  BY ActingAnnouncing
<1>2. CASE Steady'
  BY <1>1, <1>2, ActingSteadily DEF Steadily, Calling, Removing
<1>3. CASE ~Steady'
  BY <1>1, <1>3 DEF Steadily, Calling, Removing
<1> QED BY <1>2, <1>3

(* all the steps, *)
LEMMA CallInvStep ==
    ASSUME CallInv, [CallNext]_callVars
    PROVE  CallInv'
<1>1. Basis'
  BY BasisStep DEF CallInv
<1>2. (Serial' => Serial) /\ (Safe' => Safe) /\ (Steady' => Steady)
  BY CountsGrow DEF CallInv
<1>3. CASE ~Serial'
  BY <1>1, <1>3 DEF CallInv, OneUpdates, Announcing, Steadily, Calling, Removing, Safe, Steady
<1>4. CASE Serial'
  <2>1. Serial /\ ~Happens("faults") /\ ~Happens("leaves") /\ member
    BY <1>2, <1>4, NoFaults DEF CallInv, OneUpdates
  <2>2. ~MyMembership /\ \A d \in Device : ~WidgetTimeout(d) /\ ~DisconnectFailed(d) /\ ~SendFailed(d)
    BY <2>1 DEF MyMembership, WidgetTimeout, DisconnectFailed, SendFailed
  <2>3. ASSUME NEW d \in Device, Acting(d)
        PROVE  OneUpdates' /\ Announcing' /\ Steadily' /\ Calling' /\ Removing'
    BY <1>2, <1>4, <2>1, <2>3, ActingKeeps
  <2>4. ASSUME NEW d \in Device, EntrySent(d) \/ Resend(d) \/ Clean(d)
        PROVE  OneUpdates' /\ Announcing' /\ Steadily' /\ Calling' /\ Removing'
    BY <1>2, <2>1, <2>4, EntrySentKeeps, ResendKeeps, CleanKeeps
  <2>5. ASSUME NEW d \in Device, Crash(d) \/ BeforeUnload(d)
        PROVE  OneUpdates' /\ Announcing' /\ Steadily' /\ Calling' /\ Removing'
    BY <1>2, <1>4, <2>1, <2>5, CrashKeeps, UnloadKeeps
  <2>6. ASSUME \/ \E d \in Device : Sync(d) \/ OnReady(d)
               \/ Expire \/ UNCHANGED callVars
        PROVE  OneUpdates' /\ Announcing' /\ Steadily' /\ Calling' /\ Removing'
    BY <1>2, <1>4, <2>1, <2>6, OthersKeep
  <2>7. \/ \E d \in Device : \/ Acting(d) \/ EntrySent(d) \/ Resend(d) \/ Clean(d)
                                \/ Crash(d) \/ BeforeUnload(d)
        \/ \E d \in Device : Sync(d) \/ OnReady(d)
        \/ Expire \/ UNCHANGED callVars
    BY <2>2 DEF CallNext, Acting
  <2> QED BY <1>1, <2>3, <2>4, <2>5, <2>6, <2>7 DEF CallInv
<1> QED BY <1>3, <1>4

(* and it holds at first. *)
LEMMA CallInvInit ==
    ASSUME CallInit
    PROVE  CallInv
<1>1. /\ NewCall \in CallOf /\ Holds(NewCall) /\ ~IsConnected(NewCall.state) /\ Phased(NewCall)
  BY DEF NewCall, CallOf, Status, Holds, IsConnected, Phased
<1>2. /\ entries = << {} >> /\ Len(entries) = 1 /\ entries[1] = {} /\ entries \in Seq(SUBSET Device)
      /\ expired = 0 /\ member = TRUE
  <2>1. \E none : none = {}
    OBVIOUS
  <2>0. PICK none : none = {}
    BY <2>1
  <2>4. none \in SUBSET Device
    BY <2>0
  <2>2. <<none>> \in Seq(SUBSET Device) /\ Len(<<none>>) = 1 /\ <<none>>[1] = none
    BY <2>4
  <2> QED BY <2>0, <2>2 DEF CallInit
<1>3. \A d \in Device : /\ call[d] = NewCall /\ up[d] /\ ~activeCallRoomIds[d] /\ sends[d] = <<>>
                        /\ ~cleaning[d] /\ known[d] = 1
  BY DEF CallInit
<1>4. Listed = {}
  BY <1>2 DEF Listed, Entry
<1>5. <<>> \in Seq(Update)
  OBVIOUS
<1>6. CallTypeOK
  BY <1>1, <1>2, <1>5 DEF CallInit, CallTypeOK
<1>7. Basis
  BY <1>1, <1>3, <1>6 DEF Basis
<1>8. OneUpdates
  BY <1>2, <1>3 DEF OneUpdates
<1>9. \A d \in Device : ~Conn(d) /\ ~Announced(d)
  BY <1>1, <1>3 DEF Conn, Announced
<1>10. \A d \in Device : DOMAIN sends[d] = {}
  BY <1>3
<1>11. Announcing /\ Steadily
  BY <1>9, <1>10 DEF Announcing, Steadily
<1>12. Calling /\ Removing
  BY <1>1, <1>3, <1>4, <1>9, <1>10 DEF Calling, Removing
<1> QED BY <1>7, <1>8, <1>11, <1>12 DEF CallInv

----------------------------------------------------------------------------
(* THEOREMS *)

(* The inductive invariant of the group calls, from which the rest follows: *)
(* one device at a time updates the entry, no update drops another device   *)
(* that is in the call, the last update of one that is lists it, and one    *)
(* that is not removes itself last or remembers to.                         *)
THEOREM CallInvariant == CallSpec => []CallInv
<1>1. CallInit => CallInv
  BY CallInvInit
<1>2. CallInv /\ [CallNext]_callVars => CallInv'
  BY CallInvStep
<1> QED BY <1>1, <1>2, PTL DEF CallSpec

(* The calls, updates and entries always have their types: in particular    *)
(* clearTimer of JitsiCall never counts an interval below zero, and no      *)
(* client knows an entry that the room does not have.                       *)
THEOREM CallTypeCorrect == CallSpec => []CallTypeOK
<1>1. CallInv => CallTypeOK
  BY DEF CallInv, Basis
<1> QED BY <1>1, CallInvariant, PTL

(* For any number of devices, starts, resends and reconnections: where      *)
(* updates do not overlap and none failed, a device that is in the call is  *)
(* shown to be by the updateParticipants of every client, once all updates  *)
(* have been answered and synced.                                           *)
THEOREM InTheCallShown == CallSpec => []ConnectedShown
<1>1. ASSUME CallInv, callScenario.serial, callScenario.steady \/ callCount["crashes"] = 0,
             Quiet, callCount["faults"] = 0, callCount["leaves"] = 0,
             NEW d \in Device, NEW e \in Device, up[e], IsConnected(call[d].state)
      PROVE  d \in Participants(e)
  <2>1. Serial /\ Safe /\ member /\ sends[d] = <<>> /\ known[e] = Len(entries)
    BY <1>1 DEF Serial, Safe, Quiet, CallInv, OneUpdates
  <2>2. d \in Listed
    BY <1>1, <2>1 DEF CallInv, Announcing, Conn
  <2>3. Devices(e) = Listed
    BY <2>1 DEF Devices, Listed
  <2> QED BY <1>1, <2>1, <2>2, <2>3 DEF Participants
<1>2. CallInv => ConnectedShown
  BY <1>1 DEF ConnectedShown
<1> QED BY <1>2, CallInvariant, PTL

(* Where moreover nobody hangs up before the entry of a new connection is   *)
(* sent: a device that is listed without being in the call is being removed *)
(* or will be at its next start, because CallStore keeps the room in        *)
(* activeCallRoomIds until the call was disconnected or cleaned.            *)
THEOREM UncleanKept == CallSpec => []UncleanRemembered
<1>1. CallInv => UncleanRemembered
  <2>1. ASSUME CallInv, callScenario.serial, callScenario.steady,
               callCount["faults"] = 0, callCount["leaves"] = 0, NEW d \in Listed,
               ~IsConnected(call[d].state), ~activeCallRoomIds[d], ~cleaning[d],
               \A e \in Device : sends[e] = <<>>
        PROVE  FALSE
    <3>1. Steady
      BY <2>1 DEF Steady, Serial
    <3>2. d \in Device
      <4>1. entries \in Seq(SUBSET Device) /\ Len(entries) \in Nat /\ expired \in 0 .. Len(entries)
        BY <2>1 DEF CallInv, Basis, CallTypeOK
      <4>2. ~(Len(entries) <= expired) /\ d \in entries[Len(entries)]
        BY DEF Listed, Entry
      <4>3. Len(entries) \in DOMAIN entries
        BY <4>1, <4>2
      <4> QED BY <4>1, <4>2, <4>3
    <3> QED BY <2>1, <3>1, <3>2 DEF CallInv, Removing, Conn
  <2> QED BY <2>1 DEF UncleanRemembered
<1> QED BY <1>1, CallInvariant, PTL
=============================================================================
