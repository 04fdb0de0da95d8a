-------------------------- MODULE EventIndexProofs --------------------------
(***************************************************************************)
(* Proofs about EventIndex: types, what a crawl that stops early leaves    *)
(* behind, redactions, and the checkpoints that the crawler holds.         *)
(***************************************************************************)
EXTENDS EventIndex, SequenceTheorems, FiniteSetTheorems, TLAPS

----------------------------------------------------------------------------
(* WHAT IS COVERED, in one room and in terms of positions: W are the       *)
(* messages that must not be lost, X the indexed events, P the live ones   *)
(* that are not committed, B and A the tokens of the backward crawls that  *)
(* are stored or about to be, F those of forward crawls.                   *)

(* A backward crawl of T has x before it and began its chunks below y. *)
Back(T, x, y) == \E t \in T : x <= t /\ t < y

(* A forward crawl will come to x, with nothing in between that could stop *)
(* it: no event it may take for a sign that it has caught up, and no       *)
(* backward crawl that may index one.                                      *)
Forth(F, Z, sv, x) == x <= sv /\ \E f \in F : f < x /\ \A z \in Z : ~(f < z /\ z < x)

(* Whoever meets an indexed event at y and stops leaves nothing behind it: *)
(* below y, what is not indexed is for another crawl.  So it is below an   *)
(* event that waits for its commit, and of all that is saved.              *)
Sound(W, X, P, B, A, F, sn, sv, open) ==
    /\ \A y \in X \cup {f + 1 : f \in F} : \A x \in W : x < y =>
          x \in X \/ Back(B, x, y) \/ Forth(F, X \cup P \cup B \cup A, sv, x)
    /\ open => \A y \in P \cup {sn + 1} : \A x \in W : x < y =>
          x \in X \cup P \/ Back(B \cup A, x, y) \/ Forth(F, X \cup P \cup B \cup A, sv, x)
    /\ \A x \in W : x <= sv =>
          x \in X \/ Back(B, x, sv + 1) \/ Forth(F, X \cup P \cup B \cup A, sv, x)

(* Events that need not be kept may go, and a crawl may be stored. *)
LEMMA Weaker ==
    ASSUME NEW W \in SUBSET Nat, NEW X \in SUBSET Nat, NEW P \in SUBSET Nat, NEW B \in SUBSET Nat,
           NEW A \in SUBSET Nat, NEW F \in SUBSET Nat, NEW sn \in Nat, NEW sv \in Nat, NEW open,
           NEW W2 \in SUBSET W, NEW X2 \in SUBSET X, NEW P2 \in SUBSET P, NEW B2 \in SUBSET Nat,
           NEW A2 \in SUBSET Nat, NEW open2,
           Sound(W, X, P, B, A, F, sn, sv, open),
           (X \ X2) \cap W2 = {}, open2 => (P \ P2) \cap W2 = {},
           B \subseteq B2, A2 \cup B2 \subseteq A \cup B,
           open2 => open /\ A \cup B \subseteq A2 \cup B2
    PROVE  Sound(W2, X2, P2, B2, A2, F, sn, sv, open2)
<1> DEFINE Z == X \cup P \cup B \cup A
           Z2 == X2 \cup P2 \cup B2 \cup A2
<1>1. \A x : Forth(F, Z, sv, x) => Forth(F, Z2, sv, x)
  BY DEF Forth
<1>2. \A x, y : Back(B, x, y) => Back(B2, x, y)
  BY DEF Back
<1>3. open2 => \A x, y : Back(B \cup A, x, y) => Back(B2 \cup A2, x, y)
  BY DEF Back
<1> HIDE DEF Z, Z2
<1>4. ASSUME NEW y \in X2 \cup {f + 1 : f \in F}, NEW x \in W2, x < y
      PROVE  x \in X2 \/ Back(B2, x, y) \/ Forth(F, Z2, sv, x)
  BY <1>1, <1>2, <1>4 DEF Sound, Z
<1>5. ASSUME open2, NEW y \in P2 \cup {sn + 1}, NEW x \in W2, x < y
      PROVE  x \in X2 \cup P2 \/ Back(B2 \cup A2, x, y) \/ Forth(F, Z2, sv, x)
  BY <1>1, <1>3, <1>5 DEF Sound, Z
<1>6. ASSUME NEW x \in W2, x <= sv
      PROVE  x \in X2 \/ Back(B2, x, sv + 1) \/ Forth(F, Z2, sv, x)
  BY <1>1, <1>2, <1>6 DEF Sound, Z
<1> QED BY <1>4, <1>5, <1>6 DEF Sound, Z2

(* A message is sent. *)
LEMMA Sent ==
    ASSUME NEW W \in SUBSET Nat, NEW X \in SUBSET Nat, NEW P \in SUBSET Nat, NEW B \in SUBSET Nat,
           NEW A \in SUBSET Nat, NEW F \in SUBSET Nat, NEW sn \in Nat, NEW sv \in Nat, NEW open,
           NEW n \in Nat, NEW W2 \in SUBSET (W \cup {n}),
           Sound(W, X, P, B, A, F, sn, sv, open),
           \A y \in X \cup F : y < n, \A y \in P : y <= sn, sn < n, sv <= sn
    PROVE  Sound(W2, X, P, B, A, F, sn, sv, open)
<1> DEFINE Z == X \cup P \cup B \cup A
<1>1. \A y \in X \cup {f + 1 : f \in F} : ~(n < y)
  OBVIOUS
<1>2. \A y \in P \cup {sn + 1} : ~(n < y)
  OBVIOUS
<1>3. ~(n <= sv)
  OBVIOUS
<1> HIDE DEF Z
<1>4. ASSUME NEW y \in X \cup {f + 1 : f \in F}, NEW x \in W2, x < y
      PROVE  x \in X \/ Back(B, x, y) \/ Forth(F, Z, sv, x)
  BY <1>1, <1>4 DEF Sound, Z
<1>5. ASSUME open, NEW y \in P \cup {sn + 1}, NEW x \in W2, x < y
      PROVE  x \in X \cup P \/ Back(B \cup A, x, y) \/ Forth(F, Z, sv, x)
  BY <1>2, <1>5 DEF Sound, Z
<1>6. ASSUME NEW x \in W2, x <= sv
      PROVE  x \in X \/ Back(B, x, sv + 1) \/ Forth(F, Z, sv, x)
  BY <1>3, <1>6 DEF Sound, Z
<1> QED BY <1>4, <1>5, <1>6 DEF Sound, Z

(* The client sees the next event, of which it keeps what need be kept. *)
LEMMA Seen ==
    ASSUME NEW W \in SUBSET Nat, NEW X \in SUBSET Nat, NEW P \in SUBSET Nat, NEW B \in SUBSET Nat,
           NEW A \in SUBSET Nat, NEW F \in SUBSET Nat, NEW sn \in Nat, NEW sv \in Nat, NEW open,
           NEW P2 \in SUBSET (P \cup {sn + 1}),
           Sound(W, X, P, B, A, F, sn, sv, open),
           P \subseteq P2, sn + 1 \in W => sn + 1 \in P2, \A y \in P : y <= sn, sv <= sn
    PROVE  Sound(W, X, P2, B, A, F, sn + 1, sv, open)
<1> DEFINE Z == X \cup P \cup B \cup A
           Z2 == X \cup P2 \cup B \cup A
<1>1. \A x \in Nat : Forth(F, Z, sv, x) => Forth(F, Z2, sv, x)
  BY DEF Forth
<1>2. \A x \in Nat : Back(B \cup A, x, sn + 1) => Back(B \cup A, x, sn + 1 + 1)
  BY DEF Back
<1> HIDE DEF Z, Z2
<1>4. ASSUME NEW y \in X \cup {f + 1 : f \in F}, NEW x \in W, x < y
      PROVE  x \in X \/ Back(B, x, y) \/ Forth(F, Z2, sv, x)
  BY <1>1, <1>4 DEF Sound, Z
<1>5. ASSUME open, NEW y \in P2 \cup {sn + 1 + 1}, NEW x \in W, x < y
      PROVE  x \in X \cup P2 \/ Back(B \cup A, x, y) \/ Forth(F, Z2, sv, x)
  <2>1. CASE y \in P
    BY <1>1, <1>5, <2>1 DEF Sound, Z
  <2>2. CASE y \in {sn + 1, sn + 1 + 1}
    <3>1. x = sn + 1 \/ x < sn + 1
      BY <1>5, <2>2
    <3>2. CASE x = sn + 1
      BY <3>2
    <3>3. CASE x < sn + 1
      <4>1. x \in X \cup P \/ Back(B \cup A, x, sn + 1) \/ Forth(F, Z, sv, x)
        BY <1>5, <3>3 DEF Sound, Z
      <4> QED BY <4>1, <1>1, <1>2, <2>2
    <3> QED BY <3>1, <3>2, <3>3
  <2> QED BY <2>1, <2>2
<1>6. ASSUME NEW x \in W, x <= sv
      PROVE  x \in X \/ Back(B, x, sv + 1) \/ Forth(F, Z2, sv, x)
  BY <1>1, <1>6 DEF Sound, Z
<1> QED BY <1>4, <1>5, <1>6 DEF Sound, Z2

(* A limited sync leaves a gap and asks for a crawl from its end. *)
LEMMA Gap ==
    ASSUME NEW W \in SUBSET Nat, NEW X \in SUBSET Nat, NEW P \in SUBSET Nat, NEW B \in SUBSET Nat,
           NEW A \in SUBSET Nat, NEW F \in SUBSET Nat, NEW sn \in Nat, NEW sv \in Nat, NEW open,
           NEW t \in Nat, NEW A2 \in SUBSET Nat,
           Sound(W, X, P, B, A, F, sn, sv, open),
           A2 = A \cup {t}, sn < t, sv <= sn, \A y \in P : y <= sn
    PROVE  Sound(W, X, P, B, A2, F, t, sv, open)
<1> DEFINE Z == X \cup P \cup B \cup A
           Z2 == X \cup P \cup B \cup A2
<1>1. \A x \in Nat : Forth(F, Z, sv, x) => Forth(F, Z2, sv, x)
  BY DEF Forth
<1>2. \A x, y \in Nat : Back(B \cup A, x, y) => Back(B \cup A2, x, y)
  BY DEF Back
<1>3. \A x \in Nat : Back(B \cup A, x, sn + 1) => Back(B \cup A2, x, t + 1)
  BY DEF Back
<1>4. \A x \in Nat : x <= t => Back(B \cup A2, x, t + 1)
  BY DEF Back
<1> HIDE DEF Z, Z2
<1>5. ASSUME NEW y \in X \cup {f + 1 : f \in F}, NEW x \in W, x < y
      PROVE  x \in X \/ Back(B, x, y) \/ Forth(F, Z2, sv, x)
  BY <1>1, <1>5 DEF Sound, Z
<1>6. ASSUME open, NEW y \in P \cup {t + 1}, NEW x \in W, x < y
      PROVE  x \in X \cup P \/ Back(B \cup A2, x, y) \/ Forth(F, Z2, sv, x)
  <2>1. CASE y \in P
    BY <1>1, <1>2, <1>6, <2>1 DEF Sound, Z
  <2>2. CASE y = t + 1
    BY <1>4, <1>6, <2>2
  <2> QED BY <1>6, <2>1, <2>2
<1>7. ASSUME NEW x \in W, x <= sv
      PROVE  x \in X \/ Back(B, x, sv + 1) \/ Forth(F, Z2, sv, x)
  BY <1>1, <1>7 DEF Sound, Z
<1> QED BY <1>5, <1>6, <1>7 DEF Sound, Z2

(* The live events are committed when nothing else is on its way. *)
LEMMA Committed ==
    ASSUME NEW W \in SUBSET Nat, NEW X \in SUBSET Nat, NEW P \in SUBSET Nat, NEW B \in SUBSET Nat,
           NEW A \in SUBSET Nat, NEW F \in SUBSET Nat, NEW sn \in Nat, NEW sv \in Nat, NEW open,
           Sound(W, X, P, B, A, F, sn, sv, open), open, A = {}
    PROVE  Sound(W, X \cup P, {}, B, {}, F, sn, sv, open)
<1> DEFINE Z == X \cup P \cup B \cup A
<1>1. Z = (X \cup P) \cup {} \cup B \cup {} /\ B \cup A = B \cup {} /\ B \cup A = B
  OBVIOUS
<1> HIDE DEF Z
<1>2. ASSUME NEW y \in (X \cup P) \cup {f + 1 : f \in F}, NEW x \in W, x < y
      PROVE  x \in X \cup P \/ Back(B, x, y) \/ Forth(F, Z, sv, x)
  BY <1>1, <1>2 DEF Sound, Z
<1>3. ASSUME NEW y \in {} \cup {sn + 1}, NEW x \in W, x < y
      PROVE  x \in (X \cup P) \cup {} \/ Back(B \cup {}, x, y) \/ Forth(F, Z, sv, x)
  BY <1>1, <1>3 DEF Sound, Z
<1>4. ASSUME NEW x \in W, x <= sv
      PROVE  x \in X \cup P \/ Back(B, x, sv + 1) \/ Forth(F, Z, sv, x)
  BY <1>4 DEF Sound, Z
<1> QED BY <1>1, <1>2, <1>3, <1>4 DEF Sound

(* The sync position is saved when nothing is on its way. *)
LEMMA Saved ==
    ASSUME NEW W \in SUBSET Nat, NEW X \in SUBSET Nat, NEW P \in SUBSET Nat, NEW B \in SUBSET Nat,
           NEW A \in SUBSET Nat, NEW F \in SUBSET Nat, NEW sn \in Nat, NEW sv \in Nat, NEW open,
           Sound(W, X, P, B, A, F, sn, sv, open), open, A = {}, P = {}, sv <= sn
    PROVE  Sound(W, X, P, B, A, F, sn, sn, open)
<1> DEFINE Z == X \cup P \cup B \cup A
<1>1. \A x \in Nat : Forth(F, Z, sv, x) => Forth(F, Z, sn, x)
  BY DEF Forth
<1>3. B \cup A = B
  OBVIOUS
<1> HIDE DEF Z
<1>4. ASSUME NEW y \in X \cup {f + 1 : f \in F}, NEW x \in W, x < y
      PROVE  x \in X \/ Back(B, x, y) \/ Forth(F, Z, sn, x)
  BY <1>1, <1>4 DEF Sound, Z
<1>5. ASSUME NEW y \in P \cup {sn + 1}, NEW x \in W, x < y
      PROVE  x \in X \cup P \/ Back(B \cup A, x, y) \/ Forth(F, Z, sn, x)
  BY <1>1, <1>5 DEF Sound, Z
<1>6. ASSUME NEW x \in W, x <= sn
      PROVE  x \in X \/ Back(B, x, sn + 1) \/ Forth(F, Z, sn, x)
  <2>1. x < sn + 1 /\ sn + 1 \in P \cup {sn + 1}
    BY <1>6
  <2> QED BY <1>3, <1>5, <2>1
<1> QED BY <1>4, <1>5, <1>6 DEF Sound, Z

(* The page goes, and the next one begins with what was saved. *)
LEMMA Restarted ==
    ASSUME NEW W \in SUBSET Nat, NEW X \in SUBSET Nat, NEW P \in SUBSET Nat, NEW B \in SUBSET Nat,
           NEW A \in SUBSET Nat, NEW F \in SUBSET Nat, NEW sn \in Nat, NEW sv \in Nat, NEW open,
           NEW open2,
           Sound(W, X, P, B, A, F, sn, sv, open)
    PROVE  Sound(W, X, {}, B, {}, F, sv, sv, open2)
<1> DEFINE Z == X \cup P \cup B \cup A
           Z2 == X \cup {} \cup B \cup {}
<1>1. \A x \in Nat : Forth(F, Z, sv, x) => Forth(F, Z2, sv, x)
  BY DEF Forth
<1>2. ASSUME NEW x \in W, x <= sv
      PROVE  x \in X \/ Back(B, x, sv + 1) \/ Forth(F, Z2, sv, x)
  BY <1>1, <1>2 DEF Sound
<1> HIDE DEF Z, Z2
<1>3. ASSUME NEW y \in X \cup {f + 1 : f \in F}, NEW x \in W, x < y
      PROVE  x \in X \/ Back(B, x, y) \/ Forth(F, Z2, sv, x)
  BY <1>1, <1>3 DEF Sound, Z
<1>4. ASSUME NEW y \in {} \cup {sv + 1}, NEW x \in W, x < y
      PROVE  x \in X \cup {} \/ Back(B \cup {}, x, y) \/ Forth(F, Z2, sv, x)
  <2>1. x <= sv /\ y = sv + 1
    BY <1>4
  <2>2. B \cup {} = B
    OBVIOUS
  <2> QED BY <1>2, <2>1, <2>2
<1> QED BY <1>2, <1>3, <1>4 DEF Sound, Z2

(* A backward crawl has fetched the events E between the tokens n and p. *)
LEMMA FetchedBack ==
    ASSUME NEW W \in SUBSET (Nat \ {0}), NEW X \in SUBSET Nat, NEW P \in SUBSET Nat, NEW B \in SUBSET Nat,
           NEW A \in SUBSET Nat, NEW F \in SUBSET Nat, NEW sn \in Nat, NEW sv \in Nat, NEW open,
           NEW p \in B, NEW n \in Nat, NEW E \in SUBSET Nat, NEW B2 \in SUBSET Nat, n <= p,
           Sound(W, X, P, B, A, F, sn, sv, open),
           B \ {p} \subseteq B2, B2 \subseteq B \cup {n}, n \in B2 \/ n = 0,
           \A e \in E : n < e /\ e <= p, \A x \in W : n < x /\ x <= p => x \in E
    PROVE  Sound(W, X \cup E, P, B2, A, F, sn, sv, open)
<1> DEFINE Z == X \cup P \cup B \cup A
           Z2 == (X \cup E) \cup P \cup B2 \cup A
<1>1. ASSUME NEW x \in W, Forth(F, Z, sv, x)
      PROVE  x \in E \/ Forth(F, Z2, sv, x)
  <2>1. PICK f \in F : f < x /\ \A z \in Z : ~(f < z /\ z < x)
    BY <1>1 DEF Forth
  <2>2. p \in Z /\ p \in Nat /\ x \in Nat /\ f \in Nat
    OBVIOUS
  <2>3. CASE p <= f
    <3>1. \A z \in E \cup {n} : ~(f < z /\ z < x)
      BY <2>2, <2>3
    <3>2. \A z \in Z2 : z \in Z \/ z \in E \cup {n}
      OBVIOUS
    <3> QED BY <1>1, <2>1, <3>1, <3>2 DEF Forth
  <2>4. CASE x <= p
    <3>1. CASE n < x
      BY <2>4, <3>1
    <3>2. CASE x <= n
      <4>1. \A z \in E \cup {n} : ~(f < z /\ z < x)
        BY <2>2, <3>2
      <4>2. \A z \in Z2 : z \in Z \/ z \in E \cup {n}
        OBVIOUS
      <4> QED BY <1>1, <2>1, <4>1, <4>2 DEF Forth
    <3> QED BY <2>2, <3>1, <3>2
  <2> QED BY <2>1, <2>2, <2>3, <2>4
<1>2. ASSUME NEW x \in W, NEW y \in Nat, Back(B, x, y)
      PROVE  x \in E \/ Back(B2, x, y)
  <2>1. PICK t \in B : x <= t /\ t < y
    BY <1>2 DEF Back
  <2>2. CASE t # p
    BY <2>1, <2>2 DEF Back
  <2>3. CASE t = p /\ x <= n
    BY <2>1, <2>3 DEF Back
  <2> QED BY <2>1, <2>2, <2>3
<1>3. ASSUME NEW x \in W, NEW y \in Nat, Back(B \cup A, x, y)
      PROVE  x \in E \/ Back(B2 \cup A, x, y)
  <2>1. Back(B, x, y) \/ Back(A, x, y)
    BY <1>3 DEF Back
  <2>2. Back(B2, x, y) \/ Back(A, x, y) => Back(B2 \cup A, x, y)
    BY DEF Back
  <2> QED BY <1>2, <2>1, <2>2
<1>4. ASSUME NEW x \in W, NEW y \in E, x < y
      PROVE  x \in E \/ Back(B2, x, y)
  BY <1>4 DEF Back
<1>5. ASSUME NEW y \in X \cup {f + 1 : f \in F}
      PROVE  y \in Nat
  OBVIOUS
<1>0. sv + 1 \in Nat /\ \A y \in P \cup {sn + 1} : y \in Nat
  OBVIOUS
<1> HIDE DEF Z, Z2
<1>6. ASSUME NEW y \in (X \cup E) \cup {f + 1 : f \in F}, NEW x \in W, x < y
      PROVE  x \in X \cup E \/ Back(B2, x, y) \/ Forth(F, Z2, sv, x)
  BY <1>1, <1>2, <1>4, <1>5, <1>6 DEF Sound, Z
<1>7. ASSUME open, NEW y \in P \cup {sn + 1}, NEW x \in W, x < y
      PROVE  x \in (X \cup E) \cup P \/ Back(B2 \cup A, x, y) \/ Forth(F, Z2, sv, x)
  BY <1>0, <1>1, <1>3, <1>7 DEF Sound, Z
<1>8. ASSUME NEW x \in W, x <= sv
      PROVE  x \in X \cup E \/ Back(B2, x, sv + 1) \/ Forth(F, Z2, sv, x)
  BY <1>0, <1>1, <1>2, <1>8 DEF Sound, Z
<1> QED BY <1>6, <1>7, <1>8 DEF Sound, Z2

(* The forward crawl has fetched the events E between the tokens p and n,  *)
(* and goes on unless it has come to the end of the room.                  *)
LEMMA FetchedForth ==
    ASSUME NEW W \in SUBSET (Nat \ {0}), NEW X \in SUBSET Nat, NEW P \in SUBSET Nat, NEW B \in SUBSET Nat,
           NEW A \in SUBSET Nat, NEW sn \in Nat, NEW sv \in Nat, NEW open,
           NEW p \in Nat, NEW n \in Nat, NEW E \in SUBSET Nat, NEW F2 \in SUBSET {n}, p <= n,
           Sound(W, X, P, B, A, {p}, sn, sv, open),
           F2 = {n} \/ sv <= n,
           \A e \in E : p < e /\ e <= n, \A x \in W : p < x /\ x <= n => x \in E
    PROVE  Sound(W, X \cup E, P, B, A, F2, sn, sv, open)
<1> DEFINE Z == X \cup P \cup B \cup A
           Z2 == (X \cup E) \cup P \cup B \cup A
<1>1. ASSUME NEW x \in W, Forth({p}, Z, sv, x)
      PROVE  x \in E \/ Forth(F2, Z2, sv, x)
  <2>1. x <= sv /\ p < x /\ \A z \in Z : ~(p < z /\ z < x)
    BY <1>1 DEF Forth
  <2>2. CASE x <= n
    BY <2>1, <2>2
  <2>3. CASE n < x
    <3>1. n \in F2
      BY <2>1, <2>3
    <3>2. \A z \in E : ~(n < z /\ z < x)
      OBVIOUS
    <3>3. \A z \in Z : ~(n < z /\ z < x)
      BY <2>1
    <3> QED BY <2>1, <2>3, <3>1, <3>2, <3>3 DEF Forth
  <2> QED BY <2>2, <2>3
<1>2. ASSUME NEW x \in W, x <= p
      PROVE  x \in X \/ Back(B, x, p + 1)
  <2>1. p + 1 \in X \cup {f + 1 : f \in {p}} /\ x < p + 1
    BY <1>2
  <2>2. ~Forth({p}, Z, sv, x)
    BY <1>2 DEF Forth
  <2> QED BY <2>1, <2>2 DEF Sound
<1>3. ASSUME NEW y \in E \cup {f + 1 : f \in F2}, NEW x \in W, x < y
      PROVE  x \in X \cup E \/ Back(B, x, y)
  <2>0. y \in Nat /\ p + 1 <= y /\ x \in Nat
    OBVIOUS
  <2>1. CASE x <= p
    BY <1>2, <2>0, <2>1 DEF Back
  <2>2. CASE p < x
    <3>1. y <= n + 1
      OBVIOUS
    <3> QED BY <1>3, <2>0, <2>2, <3>1
  <2> QED BY <2>0, <2>1, <2>2
<1> HIDE DEF Z, Z2
<1>4. ASSUME NEW y \in (X \cup E) \cup {f + 1 : f \in F2}, NEW x \in W, x < y
      PROVE  x \in X \cup E \/ Back(B, x, y) \/ Forth(F2, Z2, sv, x)
  BY <1>1, <1>3, <1>4 DEF Sound, Z
<1>5. ASSUME open, NEW y \in P \cup {sn + 1}, NEW x \in W, x < y
      PROVE  x \in (X \cup E) \cup P \/ Back(B \cup A, x, y) \/ Forth(F2, Z2, sv, x)
  BY <1>1, <1>5 DEF Sound, Z
<1>6. ASSUME NEW x \in W, x <= sv
      PROVE  x \in X \cup E \/ Back(B, x, sv + 1) \/ Forth(F2, Z2, sv, x)
  BY <1>1, <1>6 DEF Sound, Z
<1> QED BY <1>4, <1>5, <1>6 DEF Sound, Z2

(* A backward crawl that has met an indexed event may stop. *)
LEMMA TrimmedBack ==
    ASSUME NEW W \in SUBSET (Nat \ {0}), NEW X \in SUBSET Nat, NEW P \in SUBSET Nat, NEW B \in SUBSET Nat,
           NEW A \in SUBSET Nat, NEW F \in SUBSET Nat, NEW sn \in Nat, NEW sv \in Nat, NEW open,
           NEW p \in B, NEW n \in Nat, NEW y \in X, NEW B2 \in SUBSET B, n < y, y <= p,
           Sound(W, X, P, B, A, F, sn, sv, open),
           B \ {p} \subseteq B2, \A x \in W : n < x /\ x <= p => x \in X
    PROVE  Sound(W, X, P, B2, A, F, sn, sv, open)
<1> DEFINE Z == X \cup P \cup B \cup A
           Z2 == X \cup P \cup B2 \cup A
<1>1. \A x \in W : Forth(F, Z, sv, x) => Forth(F, Z2, sv, x)
  BY DEF Forth
<1>2. ASSUME NEW x \in W, NEW q \in Nat, Back(B, x, q)
      PROVE  x \in X \/ Back(B2, x, q) \/ Forth(F, Z2, sv, x)
  <2>1. PICK t \in B : x <= t /\ t < q
    BY <1>2 DEF Back
  <2>2. CASE t # p
    BY <2>1, <2>2 DEF Back
  <2>3. CASE t = p /\ n < x
    BY <2>1, <2>3
  <2>4. CASE t = p /\ x <= n
    <3>1. x < y
      BY <2>4
    <3>2. x \in X \/ Back(B, x, y) \/ Forth(F, Z, sv, x)
      BY <3>1 DEF Sound
    <3>3. Back(B, x, y) => Back(B2, x, q)
      BY <2>1, <2>4 DEF Back
    <3> QED BY <1>1, <3>2, <3>3
  <2> QED BY <2>1, <2>2, <2>3, <2>4
<1>3. ASSUME NEW x \in W, NEW q \in Nat, Back(B \cup A, x, q)
      PROVE  x \in X \/ Back(B2 \cup A, x, q) \/ Forth(F, Z2, sv, x)
  <2>1. Back(B, x, q) \/ Back(A, x, q)
    BY <1>3 DEF Back
  <2>2. Back(B2, x, q) \/ Back(A, x, q) => Back(B2 \cup A, x, q)
    BY DEF Back
  <2> QED BY <1>2, <2>1, <2>2
<1>4. ASSUME NEW q \in X \cup {f + 1 : f \in F}
      PROVE  q \in Nat
  OBVIOUS
<1>0. sv + 1 \in Nat /\ \A q \in P \cup {sn + 1} : q \in Nat
  OBVIOUS
<1> HIDE DEF Z, Z2
<1>5. ASSUME NEW q \in X \cup {f + 1 : f \in F}, NEW x \in W, x < q
      PROVE  x \in X \/ Back(B2, x, q) \/ Forth(F, Z2, sv, x)
  BY <1>1, <1>2, <1>4, <1>5 DEF Sound, Z
<1>6. ASSUME open, NEW q \in P \cup {sn + 1}, NEW x \in W, x < q
      PROVE  x \in X \cup P \/ Back(B2 \cup A, x, q) \/ Forth(F, Z2, sv, x)
  BY <1>0, <1>1, <1>3, <1>6 DEF Sound, Z
<1>7. ASSUME NEW x \in W, x <= sv
      PROVE  x \in X \/ Back(B2, x, sv + 1) \/ Forth(F, Z2, sv, x)
  BY <1>0, <1>1, <1>2, <1>7 DEF Sound, Z
<1> QED BY <1>5, <1>6, <1>7 DEF Sound, Z2

(* So may the forward crawl. *)
LEMMA TrimmedForth ==
    ASSUME NEW W \in SUBSET (Nat \ {0}), NEW X \in SUBSET Nat, NEW P \in SUBSET Nat, NEW B \in SUBSET Nat,
           NEW A \in SUBSET Nat, NEW sn \in Nat, NEW sv \in Nat, NEW open,
           NEW p \in Nat, NEW n \in Nat, NEW y \in X, p < y, y <= n,
           Sound(W, X, P, B, A, {p}, sn, sv, open),
           \A x \in W : p < x /\ x <= n => x \in X
    PROVE  Sound(W, X, P, B, A, {}, sn, sv, open)
<1> DEFINE Z == X \cup P \cup B \cup A
<1>1. \A x \in W : Forth({p}, Z, sv, x) => x \in X
  BY DEF Forth
<1> HIDE DEF Z
<1> QED BY <1>1 DEF Sound, Z

(* A crawl ends where there is nothing more. *)
LEMMA Ended ==
    ASSUME NEW W \in SUBSET (Nat \ {0}), NEW X \in SUBSET Nat, NEW P \in SUBSET Nat, NEW B \in SUBSET Nat,
           NEW A \in SUBSET Nat, NEW F \in SUBSET Nat, NEW sn \in Nat, NEW sv \in Nat, NEW open,
           NEW B2 \in SUBSET B, NEW F2 \in SUBSET F,
           Sound(W, X, P, B, A, F, sn, sv, open),
           B \subseteq B2 \cup {0}, \A f \in F \ F2 : sv <= f
    PROVE  Sound(W, X, P, B2, A, F2, sn, sv, open)
<1> DEFINE Z == X \cup P \cup B \cup A
           Z2 == X \cup P \cup B2 \cup A
<1>1. \A x \in W : Forth(F, Z, sv, x) => Forth(F2, Z2, sv, x)
  BY DEF Forth
<1>2. \A x \in W : \A y : Back(B, x, y) => Back(B2, x, y)
  BY DEF Back
<1>3. \A x \in W : \A y : Back(B \cup A, x, y) => Back(B2 \cup A, x, y)
  BY DEF Back
<1>4. {f + 1 : f \in F2} \subseteq {f + 1 : f \in F}
  OBVIOUS
<1> HIDE DEF Z, Z2
<1>5. ASSUME NEW y \in X \cup {f + 1 : f \in F2}, NEW x \in W, x < y
      PROVE  x \in X \/ Back(B2, x, y) \/ Forth(F2, Z2, sv, x)
  BY <1>1, <1>2, <1>4, <1>5 DEF Sound, Z
<1>6. ASSUME open, NEW y \in P \cup {sn + 1}, NEW x \in W, x < y
      PROVE  x \in X \cup P \/ Back(B2 \cup A, x, y) \/ Forth(F2, Z2, sv, x)
  BY <1>1, <1>3, <1>6 DEF Sound, Z
<1>7. ASSUME NEW x \in W, x <= sv
      PROVE  x \in X \/ Back(B2, x, sv + 1) \/ Forth(F2, Z2, sv, x)
  BY <1>1, <1>2, <1>7 DEF Sound, Z
<1> QED BY <1>5, <1>6, <1>7 DEF Sound, Z2

(* The two crawls of an empty index begin where the live timeline does. *)
LEMMA Seeded ==
    ASSUME NEW W \in SUBSET (Nat \ {0}), NEW t \in Nat, NEW sn \in Nat, NEW open, t <= sn
    PROVE  Sound(W, {}, {}, {t}, {}, {t}, sn, sn, open)
<1> DEFINE Z == {} \cup {} \cup {t} \cup {}
<1>1. Z = {t} /\ {t} \cup {} = {t} /\ {} \cup {} = {}
  OBVIOUS
<1>2. \A x \in W : x < t + 1 => Back({t}, x, t + 1)
  BY DEF Back
<1>3. ASSUME NEW x \in W, x <= sn
      PROVE  Back({t}, x, sn + 1) \/ Forth({t}, Z, sn, x)
  <2>1. CASE x <= t
    BY <1>3, <2>1 DEF Back
  <2>2. CASE t < x
    BY <1>1, <1>3, <2>2 DEF Forth
  <2> QED BY <2>1, <2>2
<1>4. {} \cup {f + 1 : f \in {t}} = {t + 1}
  OBVIOUS
<1> HIDE DEF Z
<1> QED BY <1>1, <1>2, <1>3, <1>4 DEF Sound, Z

----------------------------------------------------------------------------
(* THE INDUCTIVE INVARIANT.  The checkpoints that are in the index or in   *)
(* the crawler's hands, and whether two are of the same crawl.             *)
Queue == ToSet(crawlerCheckpoints)
Known == stored \cup ((Queue \cup {currentCheckpoint, batch.next}) \ {None})
Same(c, d) == c.room = d.room /\ c.from = d.from /\ c.page = d.page /\ c.full = d.full /\ c.dir = d.dir
Once(s) == \A i, j \in 1 .. Len(s) : s[i] = s[j] => i = j

(* A redaction comes after its message; the client is behind the server,   *)
(* what it has saved and the start of its live timeline behind the client. *)
Order ==
    \A r \in Room :
        /\ saved[r] <= seen[r] /\ token[r] <= seen[r] /\ seen[r] <= Len(timeline[r])
        /\ \A q \in 1 .. Len(timeline[r]) : timeline[r][q] < q

(* What is indexed or on its way are events of encrypted rooms. *)
Placed ==
    /\ \A e \in indexed \cup live \cup decrypting \cup batch.events :
          e[1] \in encrypted /\ e[2] <= Len(timeline[e[1]])
    /\ \A e \in live \cup decrypting : e[2] <= seen[e[1]]
    /\ \A e \in batch.gone : Redacted(e, Len(timeline[e[1]]))
    /\ ~scenario.lateEncryption => encrypted = Room

(* The crawler holds a checkpoint while it works on it, and begins when    *)
(* the first sync has been handled.                                        *)
Loop ==
    /\ IsFiniteSet(stored)
    /\ crawler = "sleep" => currentCheckpoint = None
    /\ crawler \in {"fetch", "decrypt", "delete", "remove", "trim"} => currentCheckpoint # None
    /\ crawler \in {"off", "sleep", "fetch", "remove"} => batch = NoBatch
    /\ crawler = "trim" => batch.next # None
    /\ batch.next # None => currentCheckpoint # None /\ Same(batch.next, currentCheckpoint)
    /\ cancelled => phase = "closed"
    /\ setup # "done" => crawler = "off" /\ currentCheckpoint = None
    /\ setup # "seeding" => seeds = {}
    /\ setup = "idle" => phase # "syncing"
    /\ setup \in {"idle", "asking"} /\ scenario.calmStart =>
           live = {} /\ decrypting = {} /\ checking = {} /\ adding = {} /\ seen = saved
    /\ ~scenario.lateEncryption => checking = {}
    /\ phase = "down" => adding = {} /\ live = {} /\ decrypting = {} /\ checking = {}
    /\ phase \in {"down", "loaded"} => setup = "idle"
    /\ phase = "down" => crawlerCheckpoints = <<>>

(* A crawl is one of a kind unless it is that of a room encrypted late,    *)
(* which the seeding may begin, too; before the seeding there are only     *)
(* those of earlier pages, of gaps and of rooms encrypted late.            *)
Single(c) == ~c.full \/ ~scenario.lateEncryption
OfGap(c) == c.dir = "b" /\ (c.full => scenario.lateEncryption)

(* Every crawl is in a room that it may index, and begins with a token of  *)
(* its own: what is to be stored was never in the crawler's hands.         *)
Fresh ==
    /\ \A c \in Known \cup adding \cup seeds :
          /\ c.token <= Len(timeline[c.room]) /\ c.room \in encrypted /\ c.page <= reloads
          /\ c.page = reloads => c.from <= seen[c.room]
    /\ \A c \in adding \cup seeds : c.page = reloads /\ c.from = c.token
    /\ \A c \in adding \cup seeds : Single(c) => \A d \in Known : ~Same(c, d)
    /\ \A c \in adding \cap seeds : ~Single(c)
    /\ \A c \in adding : OfGap(c)
    /\ checking \subseteq encrypted
    /\ setup \in {"idle", "asking"} => \A c \in Known : c.page < reloads \/ OfGap(c)
    /\ crawler = "trim" => ~currentCheckpoint.full /\ currentCheckpoint \notin stored \ {batch.next}

(* What no fault and no early end disturbs: the index holds one checkpoint *)
(* of a crawl, and one forward crawl of a room; the crawler's queue holds  *)
(* stored checkpoints, each once and the one that it works on never; every *)
(* live timeline begins with a token.                                      *)
Apart ==
    \A c, d \in stored \cup seeds : Same(c, d) \/ (c.room = d.room /\ c.dir = "f" /\ d.dir = "f") => c = d
Tidy ==
    phase # "closed" =>
        /\ Queue \subseteq stored /\ Once(crawlerCheckpoints)
        /\ crawler \in {"fetch", "decrypt", "delete", "remove"} => currentCheckpoint \in stored \ Queue
        /\ crawler = "trim" => batch.next \notin Queue
Kept ==
    Undisturbed =>
        /\ Apart /\ Tidy
        /\ setup \in {"asking", "seeding"} => phase = "syncing"
        /\ \A r \in Room : 1 <= token[r]

(* The messages of r that nobody has redacted. *)
Wanted(r) == {p \in 1 .. Len(timeline[r]) : IsMessage(<<r, p>>) /\ ~Redacted(<<r, p>>, Len(timeline[r]))}

(* What the crawler decrypts and then adds are all the messages of a       *)
(* stretch of the room that begins where its checkpoint says.              *)
Gathered ==
    faults = 0 /\ crawler \in {"decrypt", "delete"} =>
        LET c == currentCheckpoint
            n == IF batch.next = None THEN 0 ELSE batch.next.token
        IN  /\ \A e \in batch.events : e[1] = c.room
            /\ c.dir = "b" => /\ n <= c.token
                              /\ \A e \in batch.events : n < e[2] /\ e[2] <= c.token
                              /\ \A x \in Wanted(c.room) : n < x /\ x <= c.token => <<c.room, x>> \in batch.events
            /\ c.dir = "f" /\ batch.next # None =>
                              /\ c.token <= n
                              /\ \A e \in batch.events : c.token < e[2] /\ e[2] <= n
                              /\ \A x \in Wanted(c.room) : c.token < x /\ x <= n => <<c.room, x>> \in batch.events

(* Every room is covered when the events X and the checkpoints S are what  *)
(* the index holds.                                                        *)
Positions(r, S) == {e[2] : e \in {d \in S : d[1] = r}}
Tokens(r, S, dir) == {c.token : c \in {d \in S : d.room = r /\ d.dir = dir}}
CoveredIn(r, S, X) ==
    Sound(Wanted(r), Positions(r, X), Positions(r, live \cup decrypting),
          Tokens(r, S, "b"), Tokens(r, adding, "b"), Tokens(r, S, "f"), seen[r], saved[r], phase # "closed")
Covered(S, X) == \A r \in Room : CoveredIn(r, S, X)

(* Once the index has been begun, what it holds and what is about to be    *)
(* seeded covers every room, and it still will when the crawler has done   *)
(* what it is about to do.                                                 *)
Durable == stored \cup seeds
Started == setup \notin {"idle", "asking"} \/ indexed # {} \/ stored # {}
View(S, X) ==
    \/ S = Durable /\ X = indexed
    \/ /\ phase # "closed" /\ crawler = "remove"
       /\ S = Durable \ {currentCheckpoint} /\ X = indexed
    \/ /\ phase # "closed" /\ crawler = "trim"
       /\ S = Durable \ {batch.next} /\ X = indexed
    \/ /\ phase # "closed" /\ crawler \in {"decrypt", "delete"}
       /\ S = (Durable \ {currentCheckpoint}) \cup ({batch.next} \ {None})
       /\ X = indexed \cup batch.events
Coverage == Undisturbed /\ Started => \A S, X : View(S, X) => Covered(S, X)

(* The values that the constants and the types give. *)
LEMMA Bounded ==
    ASSUME TypeOK
    PROVE  /\ scenario.len \in Nat /\ scenario.initLen \in Nat /\ scenario.initLen <= scenario.len
           /\ scenario.batch \in Nat \ {0} /\ scenario.faults \in Nat /\ scenario.reloads \in Nat
           /\ None \notin Checkpoint
           /\ \A c \in Checkpoint :
                 /\ c.room \in Room /\ c.from \in Nat /\ c.page \in Nat /\ c.token \in Nat
                 /\ c.token <= scenario.len /\ c.full \in BOOLEAN /\ c.dir \in {"b", "f"}
           /\ \A e \in Event : e[1] \in Room /\ e[2] \in Nat /\ 1 <= e[2] /\ e[2] <= scenario.len /\ e = <<e[1], e[2]>>
           /\ \A r \in Room : /\ timeline[r] \in Seq(0 .. scenario.len) /\ Len(timeline[r]) \in Nat
                              /\ Len(timeline[r]) <= scenario.len
                              /\ seen[r] \in Nat /\ saved[r] \in Nat /\ token[r] \in Nat
           /\ faults \in Nat /\ reloads \in Nat /\ reloads <= scenario.reloads
<1>1. scenario \in Scenario /\ scenario \in Scenarios
  BY EventIndexAssumption DEF TypeOK
<1>2. /\ scenario.len \in Nat /\ scenario.initLen \in Nat /\ scenario.batch \in Nat \ {0}
      /\ scenario.faults \in Nat /\ scenario.reloads \in Nat
  BY <1>1 DEF Scenario
<1>3. scenario.initLen <= scenario.len
  BY <1>1, EventIndexAssumption
<1>4. Checkpoint \subseteq [room : Room, from : Nat, page : Nat, token : Nat, full : BOOLEAN, dir : {"b", "f"}]
  BY <1>2 DEF Checkpoint
<1>5. None \notin Checkpoint
  BY <1>4, EventIndexAssumption
<1>6. \A c \in Checkpoint :
                 /\ c.room \in Room /\ c.from \in Nat /\ c.page \in Nat /\ c.token \in Nat
                 /\ c.token <= scenario.len /\ c.full \in BOOLEAN /\ c.dir \in {"b", "f"}
  BY <1>2 DEF Checkpoint
<1>7. \A e \in Event : e[1] \in Room /\ e[2] \in Nat /\ 1 <= e[2] /\ e[2] <= scenario.len /\ e = <<e[1], e[2]>>
  BY <1>2 DEF Event
<1>8. \A r \in Room : /\ timeline[r] \in Seq(0 .. scenario.len) /\ Len(timeline[r]) \in Nat
                      /\ Len(timeline[r]) <= scenario.len
                      /\ seen[r] \in Nat /\ saved[r] \in Nat /\ token[r] \in Nat
  BY <1>2 DEF TypeOK
<1>9. faults \in Nat /\ reloads \in Nat /\ reloads <= scenario.reloads
  BY <1>2 DEF TypeOK
<1> QED BY <1>2, <1>3, <1>5, <1>6, <1>7, <1>8, <1>9

(* The numbers of a room, without the types of what they count. *)
LEMMA Levels ==
    ASSUME TypeOK
    PROVE  /\ scenario.len \in Nat /\ reloads \in Nat
           /\ \A r \in Room : /\ Len(timeline[r]) \in Nat /\ Len(timeline[r]) <= scenario.len
                             /\ seen[r] \in Nat /\ saved[r] \in Nat /\ token[r] \in Nat
BY Bounded

(* A new checkpoint says where its crawl begins. *)
LEMMA Begun ==
    ASSUME TypeOK, NEW r \in Room, NEW t \in 0 .. scenario.len, NEW full \in BOOLEAN, NEW dir \in {"b", "f"}
    PROVE  LET c == NewCheckpoint(r, t, full, dir)
           IN  /\ c \in Checkpoint /\ c.room = r /\ c.from = t /\ c.page = reloads /\ c.token = t
               /\ c.full = full /\ c.dir = dir
BY DEF TypeOK, NewCheckpoint, Checkpoint

(* The crawler's queue of checkpoints. *)
LEMMA Queued ==
    ASSUME NEW S, NEW s \in Seq(S), NEW c \in S
    PROVE  /\ Append(s, c) \in Seq(S) /\ ToSet(Append(s, c)) = ToSet(s) \cup {c}
           /\ Once(s) /\ c \notin ToSet(s) => Once(Append(s, c))
<1>1. /\ Append(s, c) \in Seq(S) /\ Len(Append(s, c)) = Len(s) + 1 /\ Len(s) \in Nat
      /\ \A i \in 1 .. Len(s) : Append(s, c)[i] = s[i]
      /\ Append(s, c)[Len(s) + 1] = c
  BY AppendProperties
<1>2. DOMAIN s = 1 .. Len(s) /\ DOMAIN Append(s, c) = 1 .. (Len(s) + 1)
  BY <1>1
<1>3. ToSet(Append(s, c)) = ToSet(s) \cup {c}
  <2>1. \A x \in ToSet(Append(s, c)) : x \in ToSet(s) \cup {c}
    BY <1>1, <1>2 DEF ToSet
  <2>2. \A x \in ToSet(s) : x \in ToSet(Append(s, c))
    BY <1>1, <1>2 DEF ToSet
  <2>3. c \in ToSet(Append(s, c))
    BY <1>1, <1>2 DEF ToSet
  <2> QED BY <2>1, <2>2, <2>3
<1>4. ASSUME Once(s), c \notin ToSet(s)
      PROVE  Once(Append(s, c))
  <2>1. \A i \in 1 .. Len(s) : s[i] # c
    BY <1>2, <1>4 DEF ToSet
  <2> QED BY <1>1, <1>4, <2>1 DEF Once
<1> QED BY <1>1, <1>3, <1>4

LEMMA Taken ==
    ASSUME NEW S, NEW s \in Seq(S), s # <<>>
    PROVE  /\ Head(s) \in S /\ Tail(s) \in Seq(S) /\ ToSet(s) = ToSet(Tail(s)) \cup {Head(s)}
           /\ Once(s) => Once(Tail(s)) /\ Head(s) \notin ToSet(Tail(s))
<1>1. /\ Tail(s) \in Seq(S) /\ Len(s) \in Nat \ {0} /\ Len(Tail(s)) = Len(s) - 1 /\ Head(s) = s[1]
      /\ \A i \in 1 .. Len(Tail(s)) : Tail(s)[i] = s[i + 1]
      /\ Head(s) \in S
  BY HeadTailProperties, EmptySeq
<1>2. DOMAIN s = 1 .. Len(s) /\ DOMAIN Tail(s) = 1 .. (Len(s) - 1)
  BY <1>1
<1>3. ToSet(s) = ToSet(Tail(s)) \cup {Head(s)}
  <2>1. ASSUME NEW x \in ToSet(s) PROVE x \in ToSet(Tail(s)) \cup {Head(s)}
    <3>1. PICK i \in 1 .. Len(s) : x = s[i]
      BY <1>2 DEF ToSet
    <3>2. CASE i = 1
      BY <1>1, <3>1, <3>2
    <3>3. CASE i # 1
      <4>1. i - 1 \in 1 .. (Len(s) - 1) /\ Tail(s)[i - 1] = s[i]
        BY <1>1, <3>1, <3>3
      <4> QED BY <1>2, <3>1, <4>1 DEF ToSet
    <3> QED BY <3>2, <3>3
  <2>2. \A x \in ToSet(Tail(s)) : x \in ToSet(s)
    BY <1>1, <1>2 DEF ToSet
  <2>3. Head(s) \in ToSet(s)
    BY <1>1, <1>2 DEF ToSet
  <2> QED BY <2>1, <2>2, <2>3
<1>4. Once(s) => Once(Tail(s)) /\ Head(s) \notin ToSet(Tail(s))
  BY <1>1, <1>2 DEF Once, ToSet
<1> QED BY <1>1, <1>3, <1>4

(* The stored checkpoints in some order. *)
LEMMA Ordered ==
    ASSUME NEW S, IsFiniteSet(S), NEW s \in SetToSeqs(S)
    PROVE  s \in Seq(S) /\ ToSet(s) \subseteq S /\ Once(s)
<1>1. Cardinality(S) \in Nat
  BY FS_CardinalityType
<1>2. s \in [1 .. Cardinality(S) -> S] /\ \A i, j \in 1 .. Cardinality(S) : i # j => s[i] # s[j]
  BY DEF SetToSeqs
<1>3. s \in Seq(S) /\ Len(s) = Cardinality(S)
  BY <1>1, <1>2
<1>4. Once(s)
  BY <1>2, <1>3 DEF Once
<1> QED BY <1>2, <1>3, <1>4 DEF ToSet

(* A /messages response holds the events between the token of the request  *)
(* and the one it ends with; it is empty at the end of the room only.      *)
LEMMA Chunked ==
    ASSUME TypeOK, NEW c \in Checkpoint, c.token <= Len(timeline[c.room])
    PROVE  /\ End(c) \in Nat /\ End(c) <= Len(timeline[c.room])
           /\ c.dir = "b" => /\ End(c) <= c.token /\ Chunk(c) = (End(c) + 1) .. c.token
                             /\ Chunk(c) = {} => c.token = 0
                             /\ AtEnd(c) => End(c) = 0
           /\ c.dir = "f" => /\ c.token <= End(c) /\ Chunk(c) = (c.token + 1) .. End(c)
                             /\ Chunk(c) = {} => c.token = Len(timeline[c.room])
                             /\ AtEnd(c) => End(c) = Len(timeline[c.room])
<1> DEFINE t == c.token
           b == scenario.batch
           n == Len(timeline[c.room])
<1>1. t \in Nat /\ b \in Nat \ {0} /\ n \in Nat /\ t <= n /\ c.dir \in {"b", "f"}
  BY Bounded
<1>2. CASE c.dir = "b"
  <2> DEFINE lo == IF t <= b THEN 0 ELSE t - b
  <2>1. lo \in Nat /\ lo <= t
    BY <1>1
  <2>2. Chunk(c) = (lo + 1) .. t
    BY <1>1, <1>2 DEF Chunk
  <2>3. Cardinality((lo + 1) .. t) = t - lo
    <3>1. lo \in Int /\ lo + 1 \in Int /\ t \in Int /\ lo + 1 <= t + 1
      BY <1>1, <2>1
    <3> HIDE DEF lo, t
    <3>2. Cardinality((lo + 1) .. t) = IF lo + 1 > t THEN 0 ELSE t - (lo + 1) + 1
      BY <3>1, FS_Interval
    <3> QED BY <3>1, <3>2
  <2>4. End(c) = lo
    BY <1>1, <1>2, <2>1, <2>2, <2>3 DEF End
  <2>5. Chunk(c) = {} => t = 0
    <3>1. t # 0 => t \in (lo + 1) .. t
      BY <1>1, <2>1
    <3>2. t # 0 => t \in Chunk(c)
      BY <2>2, <3>1
    <3> HIDE DEF lo, t
    <3> QED BY <3>2
  <2> QED BY <1>1, <1>2, <2>1, <2>2, <2>4, <2>5 DEF AtEnd
<1>3. CASE c.dir = "f"
  <2> DEFINE hi == IF n <= t + b THEN n ELSE t + b
  <2>1. hi \in Nat /\ t <= hi /\ hi <= n
    BY <1>1
  <2>2. Chunk(c) = (t + 1) .. hi
    BY <1>1, <1>3 DEF Chunk
  <2>3. Cardinality((t + 1) .. hi) = hi - t
    <3>1. hi \in Int /\ t + 1 \in Int /\ t \in Int /\ t + 1 <= hi + 1
      BY <1>1, <2>1
    <3> HIDE DEF hi, t
    <3>2. Cardinality((t + 1) .. hi) = IF t + 1 > hi THEN 0 ELSE hi - (t + 1) + 1
      BY <3>1, FS_Interval
    <3> QED BY <3>1, <3>2
  <2>4. End(c) = hi
    BY <1>1, <1>3, <2>1, <2>2, <2>3 DEF End
  <2>5. Chunk(c) = {} => t = n
    <3>1. t # n => t + 1 \in (t + 1) .. hi
      BY <1>1, <2>1
    <3>2. t # n => t + 1 \in Chunk(c)
      BY <2>2, <3>1
    <3> HIDE DEF hi, t, n
    <3> QED BY <3>2
  <2> QED BY <1>1, <1>3, <2>1, <2>2, <2>4, <2>5 DEF AtEnd
<1> QED BY <1>1, <1>2, <1>3

----------------------------------------------------------------------------
(* TYPES.  A step stays in its scenario, and so do the sets it draws from. *)
LEMMA SameScenario ==
    ASSUME TypeOK, [Next]_vars
    PROVE  scenario' = scenario /\ Checkpoint' = Checkpoint /\ Event' = Event /\ Fetched' = Fetched
<1>1. scenario' = scenario
  BY DEF Next, Sync, Handlers, CrawlerFunc, vars, bounds, ServerEvent, LoadCheckpoints, CommitLiveEvents, SaveSync,
     FirstSync, IsEventIndexEmpty, OnRoomTimeline, OnTimelineReset, OnRoomStateEvent, IsRoomIndexed, StartCrawler, AddLiveEvent, AddRoomCheckpoint,
     AddInitialCheckpoint, TakeCheckpoint, MessagesResponse, MessagesError, CheckpointRemoved, FilterEvents, DeleteRedacted,
     AddHistoricEvents, CrawlTrimmed, Close, Reload
<1> QED BY <1>1 DEF Checkpoint, Event, Fetched

(* A call that fails is counted. *)
LEMMA Failed ==
    ASSUME TypeOK, Fault
    PROVE  faults' \in 0 .. scenario.faults
BY Bounded DEF TypeOK, Fault

(* The head of the loop leaves the crawler's variables their types. *)
LEMMA Turned ==
    ASSUME TypeOK, NextTurn, currentCheckpoint \in Checkpoint
    PROVE  /\ currentCheckpoint' \in Checkpoint \cup {None} /\ crawler' \in {"off", "sleep"}
           /\ cancelled' \in BOOLEAN /\ batch' \in Fetched
BY DEF TypeOK, NextTurn, Fetched, NoBatch

(* The types of TypeOK, by the part of the system. *)
ServerType ==
    /\ timeline \in [Room -> Seq(0 .. scenario.len)] /\ \A r \in Room : Len(timeline[r]) <= scenario.len
    /\ encrypted \subseteq Room
ClientType ==
    /\ token \in [Room -> 0 .. scenario.len] /\ seen \in [Room -> 0 .. scenario.len]
    /\ saved \in [Room -> 0 .. scenario.len]
IndexType == indexed \subseteq Event /\ live \subseteq Event /\ stored \subseteq Checkpoint
HandlerType ==
    /\ phase \in {"down", "loaded", "syncing", "closed"}
    /\ setup \in {"idle", "asking", "seeding", "starting", "done"}
    /\ seeds \subseteq Checkpoint /\ adding \subseteq Checkpoint /\ decrypting \subseteq Event
    /\ checking \subseteq Room
CrawlerType ==
    /\ crawlerCheckpoints \in Seq(Checkpoint) /\ currentCheckpoint \in Checkpoint \cup {None}
    /\ crawler \in {"off", "sleep", "fetch", "decrypt", "delete", "remove", "trim"}
    /\ cancelled \in BOOLEAN /\ batch \in Fetched
BoundsType ==
    /\ faults \in 0 .. scenario.faults /\ reloads \in 0 .. scenario.reloads /\ scenario \in Scenarios
    /\ overtaken \subseteq Event

LEMMA TypeStep ==
    ASSUME TypeOK, Order, Loop, Fresh, [Next]_vars
    PROVE  TypeOK'
<1>types. TypeOK' <=> (ServerType /\ ClientType /\ IndexType /\ HandlerType /\ CrawlerType /\ BoundsType)'
  BY DEF TypeOK, ServerType, ClientType, IndexType, HandlerType, CrawlerType, BoundsType
<1>typed. ServerType /\ ClientType /\ IndexType /\ HandlerType /\ CrawlerType /\ BoundsType
  BY DEF TypeOK, ServerType, ClientType, IndexType, HandlerType, CrawlerType, BoundsType
<1>same. scenario' = scenario /\ Checkpoint' = Checkpoint /\ Event' = Event /\ Fetched' = Fetched
  BY SameScenario
<1> USE <1>typed, <1>same
<1>1. ASSUME NEW r \in Room, ServerEvent(r) PROVE TypeOK'
  <2>1. ServerType'
    <3>1. PICK x \in 0 .. Len(timeline[r]) : timeline' = [timeline EXCEPT ![r] = Append(@, x)]
      BY <1>1 DEF ServerEvent
    <3>2. Len(timeline[r]) < scenario.len /\ Len(timeline[r]) \in Nat /\ scenario.len \in Nat
      BY <1>1, Bounded DEF ServerEvent
    <3>3. x \in 0 .. scenario.len /\ timeline[r] \in Seq(0 .. scenario.len)
      BY <3>2, Bounded
    <3>4. Append(timeline[r], x) \in Seq(0 .. scenario.len) /\ Len(Append(timeline[r], x)) = Len(timeline[r]) + 1
      BY <3>3, AppendProperties
    <3>5. timeline' = [timeline EXCEPT ![r] = Append(timeline[r], x)]
      BY <3>1
    <3> QED BY <1>1, <3>2, <3>4, <3>5 DEF ServerEvent, ServerType
  <2>2. ClientType'
    BY <1>1 DEF ServerEvent, ClientType, clientVars
  <2>3. IndexType'
    BY <1>1 DEF ServerEvent, IndexType, indexVars
  <2>4. HandlerType'
    BY <1>1 DEF ServerEvent, HandlerType, handlerVars
  <2>5. CrawlerType'
    BY <1>1 DEF ServerEvent, CrawlerType, crawlerVars
  <2>6. BoundsType'
    BY <1>1 DEF ServerEvent, BoundsType, bounds
  <2> QED BY <2>1, <2>2, <2>3, <2>4, <2>5, <2>6, <1>types
<1>2. ASSUME LoadCheckpoints PROVE TypeOK'
  <2>1. ServerType'
    BY <1>2 DEF LoadCheckpoints, ServerType, serverVars
  <2>2. ClientType'
    BY <1>2 DEF LoadCheckpoints, ClientType, clientVars
  <2>3. IndexType'
    BY <1>2 DEF LoadCheckpoints, IndexType, indexVars
  <2>4. HandlerType'
    BY <1>2 DEF LoadCheckpoints, HandlerType, handlerVars
  <2>5. CrawlerType'
    <3>1. crawlerCheckpoints' \in Seq(stored) /\ stored \subseteq Checkpoint
      BY <1>2, Ordered DEF LoadCheckpoints, Loop, IndexType
    <3>2. crawlerCheckpoints' \in Seq(Checkpoint)
      BY <3>1, SeqMonotonic
    <3> QED BY <1>2, <3>2 DEF LoadCheckpoints, CrawlerType
  <2>6. BoundsType'
    BY <1>2 DEF LoadCheckpoints, BoundsType, bounds
  <2> QED BY <2>1, <2>2, <2>3, <2>4, <2>5, <2>6, <1>types
<1>3. ASSUME CommitLiveEvents PROVE TypeOK'
  <2>1. ServerType'
    BY <1>3 DEF CommitLiveEvents, ServerType, serverVars
  <2>2. ClientType'
    BY <1>3 DEF CommitLiveEvents, ClientType, clientVars
  <2>3. IndexType'
    BY <1>3 DEF CommitLiveEvents, IndexType, indexVars
  <2>4. HandlerType'
    BY <1>3 DEF CommitLiveEvents, HandlerType, handlerVars
  <2>5. CrawlerType'
    BY <1>3 DEF CommitLiveEvents, CrawlerType, crawlerVars
  <2>6. BoundsType'
    BY <1>3 DEF CommitLiveEvents, BoundsType, bounds
  <2> QED BY <2>1, <2>2, <2>3, <2>4, <2>5, <2>6, <1>types
<1>4. ASSUME SaveSync PROVE TypeOK'
  <2>1. ServerType'
    BY <1>4 DEF SaveSync, ServerType, serverVars
  <2>2. ClientType'
    BY <1>4 DEF SaveSync, ClientType, clientVars
  <2>3. IndexType'
    BY <1>4 DEF SaveSync, IndexType, indexVars
  <2>4. HandlerType'
    BY <1>4 DEF SaveSync, HandlerType, handlerVars
  <2>5. CrawlerType'
    BY <1>4 DEF SaveSync, CrawlerType, crawlerVars
  <2>6. BoundsType'
    BY <1>4 DEF SaveSync, BoundsType, bounds
  <2> QED BY <2>1, <2>2, <2>3, <2>4, <2>5, <2>6, <1>types
<1>5. ASSUME FirstSync PROVE TypeOK'
  <2>1. ServerType'
    BY <1>5 DEF FirstSync, ServerType, serverVars
  <2>2. ClientType'
    BY <1>5 DEF FirstSync, ClientType, clientVars
  <2>3. IndexType'
    BY <1>5 DEF FirstSync, IndexType, indexVars
  <2>4. HandlerType'
    BY <1>5 DEF FirstSync, HandlerType
  <2>5. CrawlerType'
    BY <1>5 DEF FirstSync, CrawlerType, crawlerVars
  <2>6. BoundsType'
    BY <1>5 DEF FirstSync, BoundsType, bounds
  <2> QED BY <2>1, <2>2, <2>3, <2>4, <2>5, <2>6, <1>types
<1>6. ASSUME NEW r \in Room, OnRoomTimeline(r) PROVE TypeOK'
  <2>1. ServerType'
    BY <1>6 DEF OnRoomTimeline, ServerType, serverVars
  <2>2. ClientType'
    <3>1. seen[r] + 1 \in 0 .. scenario.len
      <4>1. seen[r] < Len(timeline[r])
        BY <1>6 DEF OnRoomTimeline
      <4> QED BY <4>1, Levels
    <3> QED BY <1>6, <3>1 DEF OnRoomTimeline, ClientType
  <2>3. IndexType'
    BY <1>6 DEF OnRoomTimeline, IndexType
  <2>4. HandlerType'
    <3>1. <<r, seen[r] + 1>> \in Event
      <4>1. seen[r] < Len(timeline[r])
        BY <1>6 DEF OnRoomTimeline
      <4>2. seen[r] + 1 \in 1 .. scenario.len
        BY <4>1, Levels
      <4> QED BY <4>2 DEF Event
    <3> QED BY <1>6, <3>1 DEF OnRoomTimeline, HandlerType
  <2>5. CrawlerType'
    BY <1>6 DEF OnRoomTimeline, CrawlerType, crawlerVars
  <2>6. BoundsType'
    <3>1. overtaken' \subseteq overtaken \cup batch.events /\ batch.events \subseteq Event
      BY <1>6 DEF OnRoomTimeline, CrawlerType, Fetched
    <3> QED BY <1>6, <3>1, Failed DEF OnRoomTimeline, BoundsType
  <2> QED BY <2>1, <2>2, <2>3, <2>4, <2>5, <2>6, <1>types
<1>7. ASSUME NEW r \in Room, OnTimelineReset(r) PROVE TypeOK'
  <2>1. ServerType'
    BY <1>7 DEF OnTimelineReset, ServerType, serverVars
  <2>2. ClientType'
    <3>1. PICK t \in (seen[r] + 1) .. (Len(timeline[r]) - 1) :
                seen' = [seen EXCEPT ![r] = t] /\ token' = [token EXCEPT ![r] = t]
      BY <1>7 DEF OnTimelineReset
    <3>2. t \in 0 .. scenario.len
      BY Levels
    <3> QED BY <1>7, <3>1, <3>2 DEF OnTimelineReset, ClientType
  <2>3. IndexType'
    BY <1>7 DEF OnTimelineReset, IndexType, indexVars
  <2>4. HandlerType'
    <3>1. PICK t \in (seen[r] + 1) .. (Len(timeline[r]) - 1) :
                adding' = IF r \in encrypted THEN adding \cup {NewCheckpoint(r, t, FALSE, "b")} ELSE adding
      BY <1>7 DEF OnTimelineReset
    <3>2. t \in 0 .. scenario.len
      BY Levels
    <3>3. NewCheckpoint(r, t, FALSE, "b") \in Checkpoint
      BY <3>2, Begun
    <3> QED BY <1>7, <3>1, <3>3 DEF OnTimelineReset, HandlerType
  <2>5. CrawlerType'
    BY <1>7 DEF OnTimelineReset, CrawlerType, crawlerVars
  <2>6. BoundsType'
    BY <1>7 DEF OnTimelineReset, BoundsType, bounds
  <2> QED BY <2>1, <2>2, <2>3, <2>4, <2>5, <2>6, <1>types
<1>8. ASSUME NEW r \in Room, OnRoomStateEvent(r) PROVE TypeOK'
  <2>1. ServerType'
    BY <1>8 DEF OnRoomStateEvent, ServerType, serverVars
  <2>2. ClientType'
    BY <1>8 DEF OnRoomStateEvent, ClientType, clientVars
  <2>3. IndexType'
    BY <1>8 DEF OnRoomStateEvent, IndexType, indexVars
  <2>4. HandlerType'
    BY <1>8 DEF OnRoomStateEvent, HandlerType
  <2>5. CrawlerType'
    BY <1>8 DEF OnRoomStateEvent, CrawlerType, crawlerVars
  <2>6. BoundsType'
    BY <1>8 DEF OnRoomStateEvent, BoundsType, bounds
  <2> QED BY <2>1, <2>2, <2>3, <2>4, <2>5, <2>6, <1>types
<1>9. ASSUME StartCrawler PROVE TypeOK'
  <2>1. ServerType'
    BY <1>9 DEF StartCrawler, ServerType, serverVars
  <2>2. ClientType'
    BY <1>9 DEF StartCrawler, ClientType, clientVars
  <2>3. IndexType'
    BY <1>9 DEF StartCrawler, IndexType, indexVars
  <2>4. HandlerType'
    BY <1>9 DEF StartCrawler, HandlerType, handlerVars
  <2>5. CrawlerType'
    BY <1>9 DEF StartCrawler, CrawlerType, crawlerVars
  <2>6. BoundsType'
    BY <1>9 DEF StartCrawler, BoundsType, bounds
  <2> QED BY <2>1, <2>2, <2>3, <2>4, <2>5, <2>6, <1>types
<1>10. ASSUME NEW e \in decrypting, AddLiveEvent(e) PROVE TypeOK'
  <2>1. ServerType'
    BY <1>10 DEF AddLiveEvent, ServerType, serverVars
  <2>2. ClientType'
    BY <1>10 DEF AddLiveEvent, ClientType, clientVars
  <2>3. IndexType'
    BY <1>10 DEF AddLiveEvent, IndexType, HandlerType, indexVars
  <2>4. HandlerType'
    BY <1>10 DEF AddLiveEvent, HandlerType, handlerVars
  <2>5. CrawlerType'
    BY <1>10 DEF AddLiveEvent, CrawlerType, crawlerVars
  <2>6. BoundsType'
    BY <1>10, Failed DEF AddLiveEvent, BoundsType, bounds
  <2> QED BY <2>1, <2>2, <2>3, <2>4, <2>5, <2>6, <1>types
<1>11. ASSUME NEW c \in adding, AddRoomCheckpoint(c) PROVE TypeOK'
  <2>1. ServerType'
    BY <1>11 DEF AddRoomCheckpoint, ServerType, serverVars
  <2>2. ClientType'
    BY <1>11 DEF AddRoomCheckpoint, ClientType, clientVars
  <2>3. IndexType'
    BY <1>11 DEF AddRoomCheckpoint, IndexType, HandlerType, indexVars
  <2>4. HandlerType'
    BY <1>11 DEF AddRoomCheckpoint, HandlerType, handlerVars
  <2>5. CrawlerType'
    <3>1. Append(crawlerCheckpoints, c) \in Seq(Checkpoint)
      BY Queued DEF CrawlerType, HandlerType
    <3> QED BY <1>11, <3>1 DEF AddRoomCheckpoint, CrawlerType
  <2>6. BoundsType'
    BY <1>11, Failed DEF AddRoomCheckpoint, BoundsType, bounds
  <2> QED BY <2>1, <2>2, <2>3, <2>4, <2>5, <2>6, <1>types
<1>12. ASSUME NEW c \in seeds, AddInitialCheckpoint(c) PROVE TypeOK'
  <2>1. ServerType'
    BY <1>12 DEF AddInitialCheckpoint, ServerType, serverVars
  <2>2. ClientType'
    BY <1>12 DEF AddInitialCheckpoint, ClientType, clientVars
  <2>3. IndexType'
    BY <1>12 DEF AddInitialCheckpoint, IndexType, HandlerType, indexVars
  <2>4. HandlerType'
    BY <1>12 DEF AddInitialCheckpoint, HandlerType, handlerVars
  <2>5. CrawlerType'
    <3>1. Append(crawlerCheckpoints, c) \in Seq(Checkpoint)
      BY Queued DEF CrawlerType, HandlerType
    <3> QED BY <1>12, <3>1 DEF AddInitialCheckpoint, CrawlerType
  <2>6. BoundsType'
    BY <1>12, Failed DEF AddInitialCheckpoint, BoundsType, bounds
  <2> QED BY <2>1, <2>2, <2>3, <2>4, <2>5, <2>6, <1>types
<1>13. ASSUME TakeCheckpoint PROVE TypeOK'
  <2>1. ServerType'
    BY <1>13 DEF TakeCheckpoint, ServerType, serverVars
  <2>2. ClientType'
    BY <1>13 DEF TakeCheckpoint, ClientType, clientVars
  <2>3. IndexType'
    BY <1>13 DEF TakeCheckpoint, IndexType, indexVars
  <2>4. HandlerType'
    BY <1>13 DEF TakeCheckpoint, HandlerType, handlerVars
  <2>5. CrawlerType'
    <3>1. crawlerCheckpoints # <<>> => Head(crawlerCheckpoints) \in Checkpoint /\ Tail(crawlerCheckpoints) \in Seq(Checkpoint)
      BY Taken DEF CrawlerType
    <3> QED BY <1>13, <3>1 DEF TakeCheckpoint, CrawlerType
  <2>6. BoundsType'
    BY <1>13 DEF TakeCheckpoint, BoundsType, bounds
  <2> QED BY <2>1, <2>2, <2>3, <2>4, <2>5, <2>6, <1>types
<1>14. ASSUME MessagesResponse PROVE TypeOK'
  <2>1. ServerType'
    BY <1>14 DEF MessagesResponse, ServerType, serverVars
  <2>2. ClientType'
    BY <1>14 DEF MessagesResponse, ClientType, clientVars
  <2>3. IndexType'
    BY <1>14 DEF MessagesResponse, IndexType, indexVars
  <2>4. HandlerType'
    BY <1>14 DEF MessagesResponse, HandlerType, handlerVars
  <2>5. CrawlerType'
    <3>1. currentCheckpoint \in Checkpoint /\ Append(crawlerCheckpoints, currentCheckpoint) \in Seq(Checkpoint)
      BY <1>14, Queued DEF CrawlerType, Loop, MessagesResponse
    <3>2. ASSUME Chunk(currentCheckpoint) # {}
          PROVE  Response(currentCheckpoint) \in Fetched /\ [Response(currentCheckpoint) EXCEPT !.next = None] \in Fetched
      <4> DEFINE c == currentCheckpoint
      <4>1. c \in Checkpoint /\ c.token <= Len(timeline[c.room]) /\ c.room \in Room
        BY <1>14, <3>1, Bounded DEF Fresh, Known, Loop, MessagesResponse
      <4>2. End(c) \in 0 .. scenario.len
        BY <4>1, Chunked, Bounded
      <4>3. [c EXCEPT !.token = End(c)] \in Checkpoint
        BY <4>1, <4>2 DEF Checkpoint
      <4>4. \A p \in Chunk(c) : p \in 1 .. Len(timeline[c.room])
        BY <4>1, Bounded DEF Chunk
      <4>5. \A p \in Chunk(c) : <<c.room, p>> \in Event
        BY <4>1, <4>4, Bounded DEF Event
      <4>6. \A p \in Chunk(c) : timeline[c.room][p] # 0 => <<c.room, timeline[c.room][p]>> \in Event
        <5>1. \A p \in 1 .. Len(timeline[c.room]) : timeline[c.room][p] \in 0 .. scenario.len
          BY <4>1, Bounded, ElementOfSeq
        <5>2. ASSUME NEW p \in Chunk(c), timeline[c.room][p] # 0
              PROVE  <<c.room, timeline[c.room][p]>> \in Event
          <6>1. timeline[c.room][p] \in 0 .. scenario.len
            BY <4>4, <5>1
          <6>2. timeline[c.room][p] \in 1 .. scenario.len
            BY <5>2, <6>1, Bounded
          <6>3. c.room \in Room
            BY <4>1
          <6> HIDE DEF c
          <6> QED BY <6>2, <6>3 DEF Event
        <5> QED BY <5>2
      <4> HIDE DEF c
      <4>7. Response(c).events \subseteq Event
        BY <4>5 DEF Response
      <4>8. Response(c).gone \subseteq Event
        BY <4>6 DEF Response, IsMessage
      <4>9. Response(c).next \in Checkpoint
        BY <4>3 DEF Response
      <4>10. Response(c) = [events |-> Response(c).events, gone |-> Response(c).gone, next |-> Response(c).next]
        BY DEF Response
      <4>11. Response(c) \in Fetched /\ [Response(c) EXCEPT !.next = None] \in Fetched
        BY <4>7, <4>8, <4>9, <4>10 DEF Fetched
      <4> QED BY <4>11 DEF c
    <3> QED BY <1>14, <3>1, <3>2 DEF MessagesResponse, Requeue, CrawlerType
  <2>6. BoundsType'
    BY <1>14 DEF MessagesResponse, BoundsType, bounds
  <2> QED BY <2>1, <2>2, <2>3, <2>4, <2>5, <2>6, <1>types
<1>15. ASSUME MessagesError PROVE TypeOK'
  <2>1. ServerType'
    BY <1>15 DEF MessagesError, ServerType, serverVars
  <2>2. ClientType'
    BY <1>15 DEF MessagesError, ClientType, clientVars
  <2>3. IndexType'
    BY <1>15 DEF MessagesError, IndexType, indexVars
  <2>4. HandlerType'
    BY <1>15 DEF MessagesError, HandlerType, handlerVars
  <2>5. CrawlerType'
    <3>1. currentCheckpoint \in Checkpoint /\ Append(crawlerCheckpoints, currentCheckpoint) \in Seq(Checkpoint)
      BY <1>15, Queued DEF CrawlerType, Loop, MessagesError
    <3> QED BY <1>15, <3>1, Turned DEF MessagesError, Requeue, CrawlerType
  <2>6. BoundsType'
    BY <1>15, Failed DEF MessagesError, BoundsType, bounds
  <2> QED BY <2>1, <2>2, <2>3, <2>4, <2>5, <2>6, <1>types
<1>16. ASSUME CheckpointRemoved PROVE TypeOK'
  <2>1. ServerType'
    BY <1>16 DEF CheckpointRemoved, ServerType, serverVars
  <2>2. ClientType'
    BY <1>16 DEF CheckpointRemoved, ClientType, clientVars
  <2>3. IndexType'
    BY <1>16 DEF CheckpointRemoved, IndexType, indexVars
  <2>4. HandlerType'
    BY <1>16 DEF CheckpointRemoved, HandlerType, handlerVars
  <2>5. CrawlerType'
    <3>1. currentCheckpoint \in Checkpoint /\ Append(crawlerCheckpoints, currentCheckpoint) \in Seq(Checkpoint)
      BY <1>16, Queued DEF CrawlerType, Loop, CheckpointRemoved
    <3> QED BY <1>16, <3>1, Turned DEF CheckpointRemoved, CrawlerType
  <2>6. BoundsType'
    BY <1>16, Failed DEF CheckpointRemoved, BoundsType, bounds
  <2> QED BY <2>1, <2>2, <2>3, <2>4, <2>5, <2>6, <1>types
<1>17. ASSUME AddHistoricEvents PROVE TypeOK'
  <2>1. ServerType'
    BY <1>17 DEF AddHistoricEvents, ServerType, serverVars
  <2>2. ClientType'
    BY <1>17 DEF AddHistoricEvents, ClientType, clientVars
  <2>3. IndexType'
    <3>1. batch.events \subseteq Event /\ batch.next \in Checkpoint \cup {None}
      BY DEF CrawlerType, Fetched
    <3> QED BY <1>17, <3>1 DEF AddHistoricEvents, IndexType
  <2>4. HandlerType'
    BY <1>17 DEF AddHistoricEvents, HandlerType, handlerVars
  <2>5. CrawlerType'
    <3>1. currentCheckpoint \in Checkpoint /\ Append(crawlerCheckpoints, currentCheckpoint) \in Seq(Checkpoint)
      BY <1>17, Queued DEF CrawlerType, Loop, AddHistoricEvents
    <3>2. batch.next # None => Append(crawlerCheckpoints, batch.next) \in Seq(Checkpoint)
      BY Queued DEF CrawlerType, Fetched
    <3> QED BY <1>17, <3>1, <3>2, Turned DEF AddHistoricEvents, Requeue, CrawlerType
  <2>6. BoundsType'
    BY <1>17, Failed DEF AddHistoricEvents, BoundsType, bounds
  <2> QED BY <2>1, <2>2, <2>3, <2>4, <2>5, <2>6, <1>types
<1>18. ASSUME CrawlTrimmed PROVE TypeOK'
  <2>1. ServerType'
    BY <1>18 DEF CrawlTrimmed, ServerType, serverVars
  <2>2. ClientType'
    BY <1>18 DEF CrawlTrimmed, ClientType, clientVars
  <2>3. IndexType'
    BY <1>18 DEF CrawlTrimmed, IndexType, indexVars
  <2>4. HandlerType'
    BY <1>18 DEF CrawlTrimmed, HandlerType, handlerVars
  <2>5. CrawlerType'
    <3>1. currentCheckpoint \in Checkpoint /\ Append(crawlerCheckpoints, currentCheckpoint) \in Seq(Checkpoint)
      BY <1>18, Queued DEF CrawlerType, Loop, CrawlTrimmed
    <3> QED BY <1>18, <3>1, Turned DEF CrawlTrimmed, Requeue, CrawlerType
  <2>6. BoundsType'
    BY <1>18, Failed DEF CrawlTrimmed, BoundsType, bounds
  <2> QED BY <2>1, <2>2, <2>3, <2>4, <2>5, <2>6, <1>types
<1>19. ASSUME Close PROVE TypeOK'
  <2>1. ServerType'
    BY <1>19 DEF Close, ServerType, serverVars
  <2>2. ClientType'
    BY <1>19 DEF Close, ClientType, clientVars
  <2>3. IndexType'
    BY <1>19 DEF Close, IndexType, indexVars
  <2>4. HandlerType'
    BY <1>19 DEF Close, HandlerType, handlerVars
  <2>5. CrawlerType'
    BY <1>19 DEF Close, CrawlerType, crawlerVars
  <2>6. BoundsType'
    BY <1>19 DEF Close, BoundsType, bounds
  <2> QED BY <2>1, <2>2, <2>3, <2>4, <2>5, <2>6, <1>types
<1>20. ASSUME Reload PROVE TypeOK'
  <2>1. ServerType'
    BY <1>20 DEF Reload, ServerType, serverVars
  <2>2. ClientType'
    BY <1>20 DEF Reload, ClientType, clientVars
  <2>3. IndexType'
    BY <1>20 DEF Reload, IndexType, indexVars
  <2>4. HandlerType'
    BY <1>20 DEF Reload, HandlerType, handlerVars
  <2>5. CrawlerType'
    <3>1. NoBatch \in Fetched /\ <<>> \in Seq(Checkpoint)
      BY DEF NoBatch, Fetched
    <3> QED BY <1>20, <3>1 DEF Reload, CrawlerType
  <2>6. BoundsType'
    BY <1>20, Bounded DEF Reload, BoundsType
  <2> QED BY <2>1, <2>2, <2>3, <2>4, <2>5, <2>6, <1>types
<1>22. ASSUME IsEventIndexEmpty PROVE TypeOK'
  <2>1. ServerType'
    BY <1>22 DEF IsEventIndexEmpty, ServerType, serverVars
  <2>2. ClientType'
    BY <1>22 DEF IsEventIndexEmpty, ClientType, clientVars
  <2>3. IndexType'
    BY <1>22 DEF IsEventIndexEmpty, IndexType, indexVars
  <2>4. HandlerType'
    <3>1. \A r \in Room : token[r] \in 0 .. scenario.len
      BY DEF ClientType
    <3>2. \A r \in Room : NewCheckpoint(r, token[r], TRUE, "b") \in Checkpoint /\ NewCheckpoint(r, token[r], FALSE, "f") \in Checkpoint
      BY <3>1, Begun
    <3>3. ASSUME NEW c \in InitialCheckpoints PROVE c \in Checkpoint
      <4>1. PICK r \in {q \in encrypted : token[q] > 0} :
                    c \in {NewCheckpoint(r, token[r], TRUE, "b"), NewCheckpoint(r, token[r], FALSE, "f")}
        BY <3>3 DEF InitialCheckpoints
      <4> QED BY <3>2, <4>1 DEF ServerType
    <3> QED BY <1>22, <3>3 DEF IsEventIndexEmpty, HandlerType
  <2>5. CrawlerType'
    BY <1>22 DEF IsEventIndexEmpty, CrawlerType, crawlerVars
  <2>6. BoundsType'
    BY <1>22, Failed DEF IsEventIndexEmpty, BoundsType, bounds
  <2> QED BY <2>1, <2>2, <2>3, <2>4, <2>5, <2>6, <1>types
<1>23. ASSUME NEW r \in checking, IsRoomIndexed(r) PROVE TypeOK'
  <2>1. ServerType'
    BY <1>23 DEF IsRoomIndexed, ServerType, serverVars
  <2>2. ClientType'
    BY <1>23 DEF IsRoomIndexed, ClientType, clientVars
  <2>3. IndexType'
    BY <1>23 DEF IsRoomIndexed, IndexType, indexVars
  <2>4. HandlerType'
    <3>1. NewCheckpoint(r, token[r], TRUE, "b") \in Checkpoint
      BY <1>23, Begun DEF ClientType, HandlerType
    <3> QED BY <1>23, <3>1 DEF IsRoomIndexed, HandlerType
  <2>5. CrawlerType'
    BY <1>23 DEF IsRoomIndexed, CrawlerType, crawlerVars
  <2>6. BoundsType'
    BY <1>23, Failed DEF IsRoomIndexed, BoundsType
  <2> QED BY <2>1, <2>2, <2>3, <2>4, <2>5, <2>6, <1>types
<1>24. ASSUME FilterEvents PROVE TypeOK'
  <2>1. ServerType'
    BY <1>24 DEF FilterEvents, ServerType, serverVars
  <2>2. ClientType'
    BY <1>24 DEF FilterEvents, ClientType, clientVars
  <2>3. IndexType'
    BY <1>24 DEF FilterEvents, IndexType, indexVars
  <2>4. HandlerType'
    BY <1>24 DEF FilterEvents, HandlerType, handlerVars
  <2>5. CrawlerType'
    <3>1. batch.events \subseteq Event /\ batch.gone \subseteq Event /\ batch.next \in Checkpoint \cup {None}
      BY DEF CrawlerType, Fetched
    <3>2. ASSUME NEW E \in SUBSET batch.events PROVE [batch EXCEPT !.events = E] \in Fetched
      BY <3>1 DEF CrawlerType, Fetched
    <3>3. \A E \in SUBSET batch.events : Valid(E) \in SUBSET batch.events
      BY DEF Valid
    <3>4. \A e : batch.events \ {e} \in SUBSET batch.events
      OBVIOUS
    <3>5. batch' \in Fetched
      BY <1>24, <3>2, <3>3, <3>4 DEF FilterEvents
    <3> QED BY <1>24, <3>5 DEF FilterEvents, CrawlerType
  <2>6. BoundsType'
    BY <1>24, Bounded DEF FilterEvents, BoundsType
  <2> QED BY <2>1, <2>2, <2>3, <2>4, <2>5, <2>6, <1>types
<1>25. ASSUME NEW e \in batch.gone, DeleteRedacted(e) PROVE TypeOK'
  <2>1. ServerType'
    BY <1>25 DEF DeleteRedacted, ServerType, serverVars
  <2>2. ClientType'
    BY <1>25 DEF DeleteRedacted, ClientType, clientVars
  <2>3. IndexType'
    BY <1>25 DEF DeleteRedacted, IndexType
  <2>4. HandlerType'
    BY <1>25 DEF DeleteRedacted, HandlerType, handlerVars
  <2>5. CrawlerType'
    <3>1. currentCheckpoint \in Checkpoint /\ Append(crawlerCheckpoints, currentCheckpoint) \in Seq(Checkpoint)
      BY <1>25, Queued DEF CrawlerType, Loop, DeleteRedacted
    <3>2. [batch EXCEPT !.gone = @ \ {e}] \in Fetched
      BY DEF CrawlerType, Fetched
    <3> QED BY <1>25, <3>1, <3>2, Turned DEF DeleteRedacted, Requeue, CrawlerType
  <2>6. BoundsType'
    BY <1>25, Failed DEF DeleteRedacted, BoundsType
  <2> QED BY <2>1, <2>2, <2>3, <2>4, <2>5, <2>6, <1>types
<1>21. CASE UNCHANGED vars
  BY <1>21, <1>types DEF ServerType, ClientType, IndexType, HandlerType, CrawlerType, BoundsType, vars, serverVars, clientVars, indexVars, handlerVars, crawlerVars, bounds
<1> QED
  BY <1>1, <1>2, <1>3, <1>4, <1>5, <1>6, <1>7, <1>8, <1>9, <1>10, <1>11, <1>12, <1>13, <1>14, <1>15, <1>16, <1>17, <1>18, <1>19, <1>20, <1>21, <1>22, <1>23,
     <1>24, <1>25
  DEF Next, Sync, Handlers, CrawlerFunc

----------------------------------------------------------------------------
(* THE PARTS OF THE INVARIANT, one after the other. *)
(* The server appends a message, or the redaction of one before. *)
LEMMA Appended ==
    ASSUME TypeOK, NEW r \in Room, ServerEvent(r)
    PROVE  \E x \in 0 .. Len(timeline[r]) :
             /\ Len(timeline'[r]) = Len(timeline[r]) + 1 /\ timeline'[r][Len(timeline[r]) + 1] = x
             /\ \A q \in 1 .. Len(timeline[r]) : timeline'[r][q] = timeline[r][q]
             /\ \A s \in Room \ {r} : timeline'[s] = timeline[s]
<1>1. PICK x \in 0 .. Len(timeline[r]) : timeline' = [timeline EXCEPT ![r] = Append(@, x)]
  BY DEF ServerEvent
<1>2. timeline[r] \in Seq(0 .. scenario.len) /\ Len(timeline[r]) \in Nat /\ Len(timeline[r]) < scenario.len
  BY Bounded DEF ServerEvent
<1>3. x \in 0 .. scenario.len /\ timeline' = [timeline EXCEPT ![r] = Append(timeline[r], x)]
  BY <1>1, <1>2, Bounded
<1>4. /\ Len(Append(timeline[r], x)) = Len(timeline[r]) + 1 /\ Append(timeline[r], x)[Len(timeline[r]) + 1] = x
      /\ \A q \in 1 .. Len(timeline[r]) : Append(timeline[r], x)[q] = timeline[r][q]
  BY <1>2, <1>3, AppendProperties
<1>5. timeline'[r] = Append(timeline[r], x) /\ \A s \in Room \ {r} : timeline'[s] = timeline[s]
  BY <1>3 DEF TypeOK
<1> QED BY <1>1, <1>4, <1>5

LEMMA OrderStep ==
    ASSUME TypeOK, Order, [Next]_vars
    PROVE  Order'
<1>0. UNCHANGED <<timeline, clientVars>> => Order'
  BY DEF Order, clientVars
<1>1. ASSUME NEW r \in Room, ServerEvent(r) PROVE Order'
  <2>1. PICK x \in 0 .. Len(timeline[r]) :
             /\ Len(timeline'[r]) = Len(timeline[r]) + 1 /\ timeline'[r][Len(timeline[r]) + 1] = x
             /\ \A q \in 1 .. Len(timeline[r]) : timeline'[r][q] = timeline[r][q]
             /\ \A s \in Room \ {r} : timeline'[s] = timeline[s]
    BY <1>1, Appended
  <2>2. UNCHANGED <<token, seen, saved>> /\ Len(timeline[r]) \in Nat
    BY <1>1, Bounded DEF ServerEvent, clientVars
  <2>3. ASSUME NEW s \in Room, s # r
        PROVE  /\ saved'[s] <= seen'[s] /\ token'[s] <= seen'[s] /\ seen'[s] <= Len(timeline'[s])
               /\ \A q \in 1 .. Len(timeline'[s]) : timeline'[s][q] < q
    BY <2>1, <2>2, <2>3 DEF Order
  <2>4. /\ saved'[r] <= seen'[r] /\ token'[r] <= seen'[r] /\ seen'[r] <= Len(timeline'[r])
        /\ \A q \in 1 .. Len(timeline'[r]) : timeline'[r][q] < q
    <3>1. saved[r] <= seen[r] /\ token[r] <= seen[r] /\ seen[r] <= Len(timeline[r])
      BY DEF Order
    <3>2. \A q \in 1 .. Len(timeline[r]) : timeline[r][q] < q
      BY DEF Order
    <3>3. \A q \in 1 .. (Len(timeline[r]) + 1) : q = Len(timeline[r]) + 1 \/ q \in 1 .. Len(timeline[r])
      BY <2>2
    <3>4. \A q \in 1 .. Len(timeline'[r]) : timeline'[r][q] < q
      BY <2>1, <2>2, <3>2, <3>3
    <3> QED BY <2>1, <2>2, <3>1, <3>4, Bounded
  <2> QED BY <2>3, <2>4 DEF Order
<1>2. ASSUME LoadCheckpoints PROVE Order'
  BY <1>2, <1>0 DEF LoadCheckpoints, serverVars, clientVars, indexVars, handlerVars, crawlerVars, bounds
<1>3. ASSUME CommitLiveEvents PROVE Order'
  BY <1>3, <1>0 DEF CommitLiveEvents, serverVars, clientVars, indexVars, handlerVars, crawlerVars, bounds
<1>4. ASSUME SaveSync PROVE Order'
  BY <1>4, Bounded DEF SaveSync, Order, serverVars
<1>5. ASSUME FirstSync PROVE Order'
  BY <1>5, <1>0 DEF FirstSync, serverVars, clientVars, indexVars, handlerVars, crawlerVars, bounds
<1>6. ASSUME NEW r \in Room, OnRoomTimeline(r) PROVE Order'
  <2>1. timeline' = timeline /\ UNCHANGED <<token, saved>> /\ seen' = [seen EXCEPT ![r] = @ + 1] /\ seen[r] < Len(timeline[r])
    BY <1>6 DEF OnRoomTimeline, serverVars
  <2>2. seen'[r] = seen[r] + 1 /\ \A s \in Room \ {r} : seen'[s] = seen[s]
    BY <2>1 DEF TypeOK
  <2>3. ASSUME NEW s \in Room
        PROVE  saved[s] <= seen'[s] /\ token[s] <= seen'[s] /\ seen'[s] <= Len(timeline[s])
    <3>1. saved[s] <= seen[s] /\ token[s] <= seen[s] /\ seen[s] <= Len(timeline[s])
      BY DEF Order
    <3>2. saved[s] \in Nat /\ token[s] \in Nat /\ seen[s] \in Nat /\ Len(timeline[s]) \in Nat
      BY Bounded
    <3> QED BY <2>1, <2>2, <3>1, <3>2
  <2> QED BY <2>1, <2>3 DEF Order
<1>7. ASSUME NEW r \in Room, OnTimelineReset(r) PROVE Order'
  <2>1. PICK t \in (seen[r] + 1) .. (Len(timeline[r]) - 1) :
                seen' = [seen EXCEPT ![r] = t] /\ token' = [token EXCEPT ![r] = t]
    BY <1>7 DEF OnTimelineReset
  <2>2. seen'[r] = t /\ token'[r] = t /\ \A s \in Room \ {r} : seen'[s] = seen[s] /\ token'[s] = token[s]
    BY <2>1 DEF TypeOK
  <2>3. timeline' = timeline /\ saved' = saved
    BY <1>7 DEF OnTimelineReset, serverVars
  <2>4. ASSUME NEW s \in Room
        PROVE  saved[s] <= seen'[s] /\ token'[s] <= seen'[s] /\ seen'[s] <= Len(timeline[s])
    <3>1. saved[s] <= seen[s] /\ token[s] <= seen[s] /\ seen[s] <= Len(timeline[s])
      BY DEF Order
    <3>2. saved[s] \in Nat /\ token[s] \in Nat /\ seen[s] \in Nat /\ Len(timeline[s]) \in Nat
      BY Bounded
    <3> QED BY <2>2, <3>1, <3>2
  <2> QED BY <2>3, <2>4 DEF Order
<1>8. ASSUME NEW r \in Room, OnRoomStateEvent(r) PROVE Order'
  BY <1>8, <1>0 DEF OnRoomStateEvent, serverVars, clientVars, indexVars, handlerVars, crawlerVars, bounds
<1>9. ASSUME StartCrawler PROVE Order'
  BY <1>9, <1>0 DEF StartCrawler, serverVars, clientVars, indexVars, handlerVars, crawlerVars, bounds
<1>10. ASSUME NEW e \in decrypting, AddLiveEvent(e) PROVE Order'
  BY <1>10, <1>0 DEF AddLiveEvent, serverVars, clientVars, indexVars, handlerVars, crawlerVars, bounds
<1>11. ASSUME NEW c \in adding, AddRoomCheckpoint(c) PROVE Order'
  BY <1>11, <1>0 DEF AddRoomCheckpoint, serverVars, clientVars, indexVars, handlerVars, crawlerVars, bounds
<1>12. ASSUME NEW c \in seeds, AddInitialCheckpoint(c) PROVE Order'
  BY <1>12, <1>0 DEF AddInitialCheckpoint, serverVars, clientVars, indexVars, handlerVars, crawlerVars, bounds
<1>13. ASSUME TakeCheckpoint PROVE Order'
  BY <1>13, <1>0 DEF TakeCheckpoint, serverVars, clientVars, indexVars, handlerVars, crawlerVars, bounds
<1>14. ASSUME MessagesResponse PROVE Order'
  BY <1>14, <1>0 DEF MessagesResponse, serverVars, clientVars, indexVars, handlerVars, crawlerVars, bounds
<1>15. ASSUME MessagesError PROVE Order'
  BY <1>15, <1>0 DEF MessagesError, serverVars, clientVars, indexVars, handlerVars, crawlerVars, bounds
<1>16. ASSUME CheckpointRemoved PROVE Order'
  BY <1>16, <1>0 DEF CheckpointRemoved, serverVars, clientVars, indexVars, handlerVars, crawlerVars, bounds
<1>17. ASSUME AddHistoricEvents PROVE Order'
  BY <1>17, <1>0 DEF AddHistoricEvents, serverVars, clientVars, indexVars, handlerVars, crawlerVars, bounds
<1>18. ASSUME CrawlTrimmed PROVE Order'
  BY <1>18, <1>0 DEF CrawlTrimmed, serverVars, clientVars, indexVars, handlerVars, crawlerVars, bounds
<1>19. ASSUME Close PROVE Order'
  BY <1>19, <1>0 DEF Close, serverVars, clientVars, indexVars, handlerVars, crawlerVars, bounds
<1>20. ASSUME Reload PROVE Order'
  <2>1. timeline' = timeline /\ saved' = saved /\ seen' = saved /\ scenario' = scenario
    BY <1>20 DEF Reload, serverVars
  <2>2. \A r \in Room : token'[r] \in LiveTokens(saved[r])
    BY <1>20 DEF Reload
  <2>3. \A r \in Room : token'[r] <= saved[r]
    BY <2>2, Levels DEF LiveTokens
  <2> QED BY <2>1, <2>3, Bounded DEF Order
<1>22. ASSUME IsEventIndexEmpty PROVE Order'
  BY <1>22, <1>0 DEF IsEventIndexEmpty, serverVars, clientVars, indexVars, handlerVars, crawlerVars, bounds
<1>23. ASSUME NEW r \in checking, IsRoomIndexed(r) PROVE Order'
  BY <1>23, <1>0 DEF IsRoomIndexed, serverVars, clientVars, indexVars, handlerVars, crawlerVars, bounds
<1>24. ASSUME FilterEvents PROVE Order'
  BY <1>24, <1>0 DEF FilterEvents, serverVars, clientVars, indexVars, handlerVars, crawlerVars, bounds
<1>25. ASSUME NEW e \in batch.gone, DeleteRedacted(e) PROVE Order'
  BY <1>25, <1>0 DEF DeleteRedacted, serverVars, clientVars, indexVars, handlerVars, crawlerVars, bounds
<1>21. CASE UNCHANGED vars
  BY <1>21, <1>0 DEF vars, serverVars, clientVars, indexVars, handlerVars, crawlerVars, bounds
<1> QED
  BY <1>1, <1>2, <1>3, <1>4, <1>5, <1>6, <1>7, <1>8, <1>9, <1>10, <1>11, <1>12, <1>13, <1>14, <1>15, <1>16, <1>17, <1>18, <1>19, <1>20, <1>21, <1>22, <1>23,
     <1>24, <1>25
  DEF Next, Sync, Handlers, CrawlerFunc

LEMMA PlacedStep ==
    ASSUME TypeOK, Order, Placed, Loop, Fresh, [Next]_vars
    PROVE  Placed'
<1>s. scenario' = scenario /\ Event' = Event
  BY SameScenario
<1>e. \A e \in indexed \cup live \cup decrypting \cup batch.events \cup batch.gone : e \in Event /\ e[1] \in Room
  BY Bounded DEF TypeOK, Fetched
(* The server only adds to a room, the client only goes on. *)
<1>0. ASSUME NEW new \in SUBSET Event, \A e \in new : e[1] \in encrypted' /\ e[2] <= Len(timeline[e[1]]),
             \A r \in Room : /\ Len(timeline[r]) <= Len(timeline'[r])
                             /\ \A q \in 1 .. Len(timeline[r]) : timeline'[r][q] = timeline[r][q],
             encrypted \subseteq encrypted', encrypted' \subseteq Room,
             batch'.gone \subseteq batch.gone,
             indexed' \cup live' \cup decrypting' \cup batch'.events \subseteq
                 indexed \cup live \cup decrypting \cup batch.events \cup new,
             \A e \in live' \cup decrypting' : e[2] <= seen'[e[1]],
             \A r \in Room : Len(timeline'[r]) \in Nat
      PROVE  Placed'
  <2>1. \A e \in indexed' \cup live' \cup decrypting' \cup batch'.events :
           e[1] \in encrypted' /\ e[2] <= Len(timeline'[e[1]])
    <3>1. ASSUME NEW e \in indexed \cup live \cup decrypting \cup batch.events \cup new
          PROVE  e[1] \in encrypted' /\ e[1] \in Room /\ e[2] \in Nat /\ e[2] <= Len(timeline[e[1]])
      BY <1>0, <1>e, Bounded DEF Placed
    <3>2. ASSUME NEW e \in indexed \cup live \cup decrypting \cup batch.events \cup new
          PROVE  e[1] \in encrypted' /\ e[2] <= Len(timeline'[e[1]])
      <4>1. e[1] \in encrypted' /\ e[1] \in Room /\ e[2] \in Nat /\ e[2] <= Len(timeline[e[1]])
        BY <3>1
      <4>2. Len(timeline[e[1]]) <= Len(timeline'[e[1]]) /\ Len(timeline'[e[1]]) \in Nat /\ Len(timeline[e[1]]) \in Nat
        BY <1>0, <4>1, Bounded
      <4> QED BY <4>1, <4>2
    <3>3. indexed' \cup live' \cup decrypting' \cup batch'.events \subseteq
              indexed \cup live \cup decrypting \cup batch.events \cup new
      BY <1>0
    <3> QED BY <3>2, <3>3
  <2>2. \A e \in batch'.gone : Redacted(e, Len(timeline[e[1]]))'
    <3>1. \A e \in batch.gone : e[1] \in Room /\ Redacted(e, Len(timeline[e[1]]))
      BY <1>e DEF Placed
    <3>2. \A e \in batch.gone : \E q \in 1 .. Len(timeline[e[1]]) : timeline[e[1]][q] = e[2]
      BY <3>1 DEF Redacted
    <3>3. \A e \in batch.gone : \E q \in 1 .. Len(timeline'[e[1]]) : timeline'[e[1]][q] = e[2]
      <4>1. ASSUME NEW e \in batch.gone PROVE \E q \in 1 .. Len(timeline'[e[1]]) : timeline'[e[1]][q] = e[2]
        <5>1. PICK q \in 1 .. Len(timeline[e[1]]) : timeline[e[1]][q] = e[2]
          BY <3>2
        <5>2. e[1] \in Room /\ Len(timeline[e[1]]) \in Nat
          BY <3>1, Bounded
        <5>3. q \in 1 .. Len(timeline'[e[1]]) /\ timeline'[e[1]][q] = e[2]
          BY <1>0, <5>1, <5>2
        <5> QED BY <5>3
      <4> QED BY <4>1
    <3> QED BY <1>0, <3>3 DEF Redacted
  <2> QED BY <1>0, <1>s, <2>1, <2>2 DEF Placed
<1>l. \A r \in Room : Len(timeline[r]) \in Nat /\ seen[r] \in Nat
  BY Bounded
<1>k. \A e \in live \cup decrypting : e[2] <= seen[e[1]]
  BY DEF Placed
<1>n. NoBatch.events = {} /\ NoBatch.gone = {} /\ encrypted \subseteq Room
  BY DEF NoBatch, TypeOK
(* Nothing is added. *)
<1>u. ASSUME UNCHANGED <<timeline, encrypted, seen>>, live' \cup decrypting' \subseteq live \cup decrypting,
             indexed' \subseteq indexed \cup live \cup batch.events, batch'.events \subseteq batch.events, batch'.gone \subseteq batch.gone
      PROVE  Placed'
  <2>1. \A r \in Room : /\ Len(timeline[r]) <= Len(timeline'[r]) /\ Len(timeline'[r]) \in Nat
                        /\ \A q \in 1 .. Len(timeline[r]) : timeline'[r][q] = timeline[r][q]
    BY <1>u, <1>l
  <2>2. batch'.gone \subseteq batch.gone /\ batch'.events \subseteq batch.events
    BY <1>u
  <2>3. encrypted \subseteq encrypted' /\ encrypted' \subseteq Room /\ \A e \in live' \cup decrypting' : e[2] <= seen'[e[1]]
    BY <1>u, <1>n, <1>k
  <2>4. indexed' \cup live' \cup decrypting' \cup batch'.events \subseteq
                 indexed \cup live \cup decrypting \cup batch.events \cup {}
    BY <1>u, <2>2
  <2>5. {} \in SUBSET Event /\ \A e \in {} : e[1] \in encrypted' /\ e[2] <= Len(timeline[e[1]])
    OBVIOUS
  <2> QED BY <1>0, <2>1, <2>2, <2>3, <2>4, <2>5, Zenon
<1>1. ASSUME NEW r \in Room, ServerEvent(r) PROVE Placed'
  <2>1. /\ Len(timeline'[r]) = Len(timeline[r]) + 1
        /\ \A q \in 1 .. Len(timeline[r]) : timeline'[r][q] = timeline[r][q]
        /\ \A s \in Room \ {r} : timeline'[s] = timeline[s]
    BY <1>1, Appended
  <2>6. \A s \in Room : /\ Len(timeline[s]) <= Len(timeline'[s]) /\ Len(timeline'[s]) \in Nat
                        /\ \A q \in 1 .. Len(timeline[s]) : timeline'[s][q] = timeline[s][q]
    <3>1. ASSUME NEW s \in Room, s # r
          PROVE  /\ Len(timeline[s]) <= Len(timeline'[s]) /\ Len(timeline'[s]) \in Nat
                 /\ \A q \in 1 .. Len(timeline[s]) : timeline'[s][q] = timeline[s][q]
      BY <1>l, <2>1, <3>1
    <3> QED BY <1>l, <2>1, <3>1
  <2>7. UNCHANGED <<encrypted, seen, indexed, live, decrypting, batch>>
    BY <1>1 DEF ServerEvent, clientVars, indexVars, handlerVars, crawlerVars
  <2>8. indexed' \cup live' \cup decrypting' \cup batch'.events \subseteq
                 indexed \cup live \cup decrypting \cup batch.events \cup {}
    BY <2>7
  <2>9. \A e \in live' \cup decrypting' : e[2] <= seen'[e[1]]
    BY <1>k, <2>7
  <2> QED BY <1>0, <1>n, <2>6, <2>7, <2>8, <2>9
<1>2. ASSUME LoadCheckpoints PROVE Placed'
  BY <1>2, <1>u DEF LoadCheckpoints, serverVars, clientVars, indexVars, handlerVars, crawlerVars, bounds
<1>3. ASSUME CommitLiveEvents PROVE Placed'
  BY <1>3, <1>u DEF CommitLiveEvents, serverVars, clientVars, indexVars, handlerVars, crawlerVars, bounds
<1>4. ASSUME SaveSync PROVE Placed'
  BY <1>4, <1>u DEF SaveSync, serverVars, clientVars, indexVars, handlerVars, crawlerVars, bounds
<1>5. ASSUME FirstSync PROVE Placed'
  BY <1>5, <1>u DEF FirstSync, serverVars, clientVars, indexVars, handlerVars, crawlerVars, bounds
<1>6. ASSUME NEW r \in Room, OnRoomTimeline(r) PROVE Placed'
  <2>1. UNCHANGED <<timeline, encrypted, batch>> /\ seen' = [seen EXCEPT ![r] = @ + 1] /\ seen[r] < Len(timeline[r])
    BY <1>6 DEF OnRoomTimeline, serverVars, crawlerVars
  <2>2. seen'[r] = seen[r] + 1 /\ \A s \in Room \ {r} : seen'[s] = seen[s]
    BY <2>1 DEF TypeOK
  <2> DEFINE new == IF r \in encrypted THEN {<<r, seen[r] + 1>>} ELSE {}
  <2>3. <<r, seen[r] + 1>> \in Event
    <3>1. seen[r] + 1 \in 1 .. scenario.len
      BY <2>1, Levels
    <3> QED BY <3>1 DEF Event
  <2>4. \A s \in Room : /\ Len(timeline[s]) <= Len(timeline'[s]) /\ Len(timeline'[s]) \in Nat
                        /\ \A q \in 1 .. Len(timeline[s]) : timeline'[s][q] = timeline[s][q]
    BY <1>l, <2>1
  <2>5. /\ indexed' \subseteq indexed /\ live' \subseteq live /\ decrypting' \subseteq decrypting \cup new
    BY <1>6 DEF OnRoomTimeline
  <2>6. \A e \in new : e[1] \in encrypted /\ e[2] = seen[r] + 1 /\ e[2] <= Len(timeline[e[1]]) /\ e[1] = r
    BY <1>l, <2>1
  <2>7. \A e \in live' \cup decrypting' : e[2] <= seen'[e[1]]
    <3>1. \A e \in live \cup decrypting : e[1] \in Room /\ e[2] \in Nat /\ e[2] <= seen'[e[1]]
      <4> SUFFICES ASSUME NEW e \in live \cup decrypting PROVE e[1] \in Room /\ e[2] \in Nat /\ e[2] <= seen'[e[1]]
        OBVIOUS
      <4>1. e[1] \in Room /\ e \in Event
        BY <1>e
      <4>2. e[2] \in Nat /\ e[2] <= seen[e[1]]
        BY <1>k, <4>1, Bounded
      <4>3. seen'[e[1]] = seen[e[1]] \/ seen'[e[1]] = seen[e[1]] + 1
        BY <2>2, <4>1
      <4>4. seen[e[1]] \in Nat
        BY <1>l, <4>1
      <4> QED BY <4>1, <4>2, <4>3, <4>4
    <3>2. \A e \in new : e[2] <= seen'[e[1]]
      BY <1>l, <2>2, <2>6
    <3> QED BY <2>5, <3>1, <3>2
  <2>8. new \subseteq Event
    BY <2>3
  <2> HIDE DEF new
  <2>9. indexed' \cup live' \cup decrypting' \cup batch'.events \subseteq
                 indexed \cup live \cup decrypting \cup batch.events \cup new
    BY <2>1, <2>5
  <2> QED BY <1>0, <1>n, <2>1, <2>4, <2>6, <2>7, <2>8, <2>9
<1>7. ASSUME NEW r \in Room, OnTimelineReset(r) PROVE Placed'
  <2>1. UNCHANGED <<timeline, encrypted, batch, indexed, live, decrypting>>
    BY <1>7 DEF OnTimelineReset, serverVars, indexVars, crawlerVars
  <2>2. PICK t \in (seen[r] + 1) .. (Len(timeline[r]) - 1) : seen' = [seen EXCEPT ![r] = t]
    BY <1>7 DEF OnTimelineReset
  <2>3. seen'[r] = t /\ seen[r] < t /\ t \in Nat /\ \A s \in Room \ {r} : seen'[s] = seen[s]
    BY <1>l, <2>2 DEF TypeOK
  <2>4. \A s \in Room : /\ Len(timeline[s]) <= Len(timeline'[s]) /\ Len(timeline'[s]) \in Nat
                        /\ \A q \in 1 .. Len(timeline[s]) : timeline'[s][q] = timeline[s][q]
    BY <1>l, <2>1
  <2>5. \A e \in live' \cup decrypting' : e[2] <= seen'[e[1]]
    <3>1. \A e \in live \cup decrypting : e[1] \in Room /\ e[2] \in Nat /\ e[2] <= seen[e[1]]
      BY <1>e, <1>k, Bounded
    <3> QED BY <1>l, <2>1, <2>3, <3>1
  <2>6. indexed' \cup live' \cup decrypting' \cup batch'.events \subseteq
                 indexed \cup live \cup decrypting \cup batch.events \cup {}
    BY <2>1
  <2> QED BY <1>0, <1>n, <2>1, <2>4, <2>5, <2>6
<1>8. ASSUME NEW r \in Room, OnRoomStateEvent(r) PROVE Placed'
  <2>1. /\ UNCHANGED <<timeline, seen, batch, indexed, live, decrypting>> /\ encrypted' = encrypted \cup {r}
    BY <1>8 DEF OnRoomStateEvent, clientVars, indexVars, crawlerVars
  <2>4. \A s \in Room : /\ Len(timeline[s]) <= Len(timeline'[s]) /\ Len(timeline'[s]) \in Nat
                        /\ \A q \in 1 .. Len(timeline[s]) : timeline'[s][q] = timeline[s][q]
    BY <1>l, <2>1
  <2>6. \A e \in live' \cup decrypting' : e[2] <= seen'[e[1]]
    BY <1>k, <2>1
  <2>7. indexed' \cup live' \cup decrypting' \cup batch'.events \subseteq
                 indexed \cup live \cup decrypting \cup batch.events \cup {}
    BY <2>1
  <2> QED BY <1>0, <1>n, <2>1, <2>4, <2>6, <2>7
<1>9. ASSUME StartCrawler PROVE Placed'
  BY <1>9, <1>u DEF StartCrawler, serverVars, clientVars, indexVars, handlerVars, crawlerVars, bounds
<1>10. ASSUME NEW e \in decrypting, AddLiveEvent(e) PROVE Placed'
  BY <1>10, <1>u DEF AddLiveEvent, serverVars, clientVars, indexVars, handlerVars, crawlerVars, bounds
<1>11. ASSUME NEW c \in adding, AddRoomCheckpoint(c) PROVE Placed'
  BY <1>11, <1>u DEF AddRoomCheckpoint, serverVars, clientVars, indexVars, handlerVars, crawlerVars, bounds
<1>12. ASSUME NEW c \in seeds, AddInitialCheckpoint(c) PROVE Placed'
  BY <1>12, <1>u DEF AddInitialCheckpoint, serverVars, clientVars, indexVars, handlerVars, crawlerVars, bounds
<1>13. ASSUME TakeCheckpoint PROVE Placed'
  BY <1>13, <1>u DEF TakeCheckpoint, serverVars, clientVars, indexVars, handlerVars, crawlerVars, bounds
<1>14. ASSUME MessagesResponse PROVE Placed'
  <2> DEFINE c == currentCheckpoint
  <2>1. UNCHANGED <<timeline, encrypted, seen, indexed, live, decrypting>>
    BY <1>14 DEF MessagesResponse, serverVars, clientVars, indexVars, handlerVars
  <2>2. CASE batch' = batch
    BY <1>u, <2>1, <2>2
  <2>3. CASE Chunk(c) # {} /\ (batch' = Response(c) \/ batch' = [Response(c) EXCEPT !.next = None])
    <3>1. c \in Checkpoint /\ c.room \in Room /\ c.room \in encrypted /\ c.token <= Len(timeline[c.room]) /\ c.token \in Nat
      BY <1>14, Bounded DEF Fresh, Known, Loop, MessagesResponse, TypeOK
    <3>2. \A p \in Chunk(c) : p \in 1 .. Len(timeline[c.room])
      BY <1>l, <3>1, Bounded DEF Chunk
    <3> HIDE DEF c
    <3>3. batch'.events = Response(c).events /\ batch'.gone = Response(c).gone
      BY <2>3 DEF Response
    <3>4. \A e \in batch'.events : \E p \in Chunk(c) : e = <<c.room, p>>
      BY <3>3 DEF Response
    <3>5. \A e \in batch'.gone : \E p \in Chunk(c) : e = <<c.room, timeline[c.room][p]>>
      BY <3>3 DEF Response
    <3>6. \A e \in batch'.events : e[1] \in encrypted' /\ e[2] <= Len(timeline'[e[1]])
      BY <1>l, <2>1, <3>1, <3>2, <3>4
    <3>7. \A e \in batch'.gone : Redacted(e, Len(timeline[e[1]]))'
      BY <2>1, <3>2, <3>5 DEF Redacted
    <3>8. \A e \in indexed \cup live \cup decrypting : e[1] \in encrypted /\ e[2] <= Len(timeline[e[1]])
      BY DEF Placed
    <3>9. ~scenario.lateEncryption => encrypted = Room
      BY DEF Placed
    <3> QED BY <1>s, <1>k, <2>1, <3>6, <3>7, <3>8, <3>9 DEF Placed
  <2> QED BY <1>14, <2>2, <2>3 DEF MessagesResponse
<1>15. ASSUME MessagesError PROVE Placed'
  BY <1>15, <1>u, <1>n DEF MessagesError, NextTurn, serverVars, clientVars, indexVars, handlerVars, crawlerVars, bounds
<1>16. ASSUME CheckpointRemoved PROVE Placed'
  BY <1>16, <1>u, <1>n DEF CheckpointRemoved, NextTurn, serverVars, clientVars, indexVars, handlerVars, crawlerVars, bounds
<1>17. ASSUME AddHistoricEvents PROVE Placed'
  <2>2. /\ UNCHANGED <<timeline, encrypted, seen, decrypting, live>> /\ indexed' \subseteq indexed \cup batch.events
    BY <1>17 DEF AddHistoricEvents, serverVars, clientVars, handlerVars
  <2>3. batch' = batch \/ batch' = NoBatch
    BY <1>17 DEF AddHistoricEvents, NextTurn
  <2> QED BY <1>u, <1>n, <2>2, <2>3
<1>18. ASSUME CrawlTrimmed PROVE Placed'
  BY <1>18, <1>u, <1>n DEF CrawlTrimmed, NextTurn, serverVars, clientVars, indexVars, handlerVars, crawlerVars, bounds
<1>19. ASSUME Close PROVE Placed'
  BY <1>19, <1>u DEF Close, serverVars, clientVars, indexVars, handlerVars, crawlerVars, bounds
<1>20. ASSUME Reload PROVE Placed'
  <2>1. UNCHANGED <<timeline, encrypted, indexed>> /\ live' = {} /\ decrypting' = {} /\ batch' = NoBatch
    BY <1>20 DEF Reload, serverVars
  <2>4. \A s \in Room : /\ Len(timeline[s]) <= Len(timeline'[s]) /\ Len(timeline'[s]) \in Nat
                        /\ \A q \in 1 .. Len(timeline[s]) : timeline'[s][q] = timeline[s][q]
    BY <1>l, <2>1
  <2>5. indexed' \cup live' \cup decrypting' \cup batch'.events \subseteq
                 indexed \cup live \cup decrypting \cup batch.events \cup {}
    BY <1>n, <2>1
  <2>6. \A e \in live' \cup decrypting' : e[2] <= seen'[e[1]]
    BY <2>1
  <2> QED BY <1>0, <1>n, <2>1, <2>4, <2>5, <2>6
<1>22. ASSUME IsEventIndexEmpty PROVE Placed'
  BY <1>22, <1>u DEF IsEventIndexEmpty, serverVars, clientVars, indexVars, handlerVars, crawlerVars, bounds
<1>23. ASSUME NEW r \in checking, IsRoomIndexed(r) PROVE Placed'
  <2>1. UNCHANGED <<timeline, encrypted, seen, batch, indexed, decrypting>> /\ r \in encrypted /\ r \in Room
    BY <1>23 DEF IsRoomIndexed, serverVars, clientVars, crawlerVars, Fresh, TypeOK
  <2> DEFINE new == {e \in Event : e[1] = r /\ e[2] <= seen[r]}
  <2>2. live' \subseteq live \cup new
    BY <1>23 DEF IsRoomIndexed
  <2>3. \A e \in new : e[1] \in encrypted' /\ e[2] <= seen'[e[1]] /\ e[2] <= Len(timeline[e[1]])
    <3>1. seen[r] <= Len(timeline[r])
      BY <2>1 DEF Order
    <3>2. ASSUME NEW e \in Event, e[1] = r, e[2] <= seen[r]
          PROVE  e[1] \in encrypted' /\ e[2] <= seen'[e[1]] /\ e[2] <= Len(timeline[e[1]])
      <4>1. e[2] \in Nat
        BY Bounded
      <4> QED BY <2>1, <3>1, <3>2, <4>1, Levels
    <3> QED BY <3>2
  <2>4. \A s \in Room : /\ Len(timeline[s]) <= Len(timeline'[s]) /\ Len(timeline'[s]) \in Nat
                        /\ \A q \in 1 .. Len(timeline[s]) : timeline'[s][q] = timeline[s][q]
    BY <1>l, <2>1
  <2>5. new \subseteq Event
    OBVIOUS
  <2> HIDE DEF new
  <2>6. \A e \in live' \cup decrypting' : e[2] <= seen'[e[1]]
    BY <1>k, <2>1, <2>2, <2>3
  <2>7. indexed' \cup live' \cup decrypting' \cup batch'.events \subseteq
                 indexed \cup live \cup decrypting \cup batch.events \cup new
    BY <2>1, <2>2
  <2> QED BY <1>0, <1>n, <2>1, <2>3, <2>4, <2>5, <2>6, <2>7
<1>24. ASSUME FilterEvents PROVE Placed'
  <2>1. \A E : Valid(E) \subseteq E
    BY DEF Valid
  <2>2. batch \in Fetched
    BY DEF TypeOK
  <2>3. batch'.events \subseteq batch.events /\ batch'.gone = batch.gone
    <3>1. \A E : [batch EXCEPT !.events = E].events = E /\ [batch EXCEPT !.events = E].gone = batch.gone
      BY <2>2 DEF Fetched
    <3>2. \/ batch' = [batch EXCEPT !.events = Valid(batch.events)]
          \/ \E e \in batch.events : batch' = [batch EXCEPT !.events = Valid(batch.events \ {e})]
      BY <1>24, <2>2 DEF FilterEvents, Fetched
    <3>3. \A e : Valid(batch.events \ {e}) \subseteq batch.events
      BY <2>1
    <3> QED BY <2>1, <3>1, <3>2, <3>3
  <2> QED BY <1>24, <1>u, <2>3 DEF FilterEvents, serverVars, clientVars, indexVars, handlerVars
<1>25. ASSUME NEW e \in batch.gone, DeleteRedacted(e) PROVE Placed'
  <2>1. batch \in Fetched
    BY DEF TypeOK
  <2>2. batch'.events \subseteq batch.events /\ batch'.gone \subseteq batch.gone
    BY <1>25, <1>n, <2>1 DEF DeleteRedacted, NextTurn, Fetched
  <2> QED BY <1>25, <1>u, <2>2 DEF DeleteRedacted, serverVars, clientVars, handlerVars
<1>21. CASE UNCHANGED vars
  BY <1>21, <1>u DEF vars, serverVars, clientVars, indexVars, handlerVars, crawlerVars, bounds
<1> QED
  BY <1>1, <1>2, <1>3, <1>4, <1>5, <1>6, <1>7, <1>8, <1>9, <1>10, <1>11, <1>12, <1>13, <1>14, <1>15, <1>16, <1>17, <1>18, <1>19, <1>20, <1>21, <1>22, <1>23,
     <1>24, <1>25
  DEF Next, Sync, Handlers, CrawlerFunc

LEMMA LoopStep ==
    ASSUME TypeOK, Loop, [Next]_vars
    PROVE  Loop'
<1>f. IsFiniteSet(stored) /\ \A x : IsFiniteSet(stored \cup {x}) /\ IsFiniteSet(stored \ {x})
  BY FS_AddElement, FS_RemoveElement DEF Loop
<1>n. NoBatch.next = None
  BY DEF NoBatch
<1>t. phase \in {"down", "loaded", "syncing", "closed"} /\ setup \in {"idle", "asking", "seeding", "starting", "done"}
  BY DEF TypeOK
<1>s. scenario' = scenario
  BY SameScenario
<1>1. ASSUME NEW r \in Room, ServerEvent(r) PROVE Loop'
  BY <1>1, <1>f, <1>n, <1>t, <1>s DEF Loop, ServerEvent, serverVars, clientVars, indexVars, handlerVars, crawlerVars, bounds
<1>2. ASSUME LoadCheckpoints PROVE Loop'
  BY <1>2, <1>f, <1>n, <1>t, <1>s DEF Loop, LoadCheckpoints, serverVars, clientVars, indexVars, handlerVars, crawlerVars, bounds
<1>3. ASSUME CommitLiveEvents PROVE Loop'
  BY <1>3, <1>f, <1>n, <1>t, <1>s DEF Loop, CommitLiveEvents, serverVars, clientVars, indexVars, handlerVars, crawlerVars, bounds
<1>4. ASSUME SaveSync PROVE Loop'
  BY <1>4, <1>f, <1>n, <1>t, <1>s DEF Loop, SaveSync, serverVars, clientVars, indexVars, handlerVars, crawlerVars, bounds
<1>5. ASSUME FirstSync PROVE Loop'
  BY <1>5, <1>f, <1>n, <1>t, <1>s DEF Loop, FirstSync, serverVars, clientVars, indexVars, handlerVars, crawlerVars, bounds
<1>6. ASSUME NEW r \in Room, OnRoomTimeline(r) PROVE Loop'
  BY <1>6, <1>f, <1>n, <1>t, <1>s DEF Loop, OnRoomTimeline, Listening, serverVars, clientVars, indexVars, handlerVars, crawlerVars, bounds
<1>7. ASSUME NEW r \in Room, OnTimelineReset(r) PROVE Loop'
  BY <1>7, <1>f, <1>n, <1>t, <1>s DEF Loop, OnTimelineReset, Listening, serverVars, clientVars, indexVars, handlerVars, crawlerVars, bounds
<1>8. ASSUME NEW r \in Room, OnRoomStateEvent(r) PROVE Loop'
  BY <1>8, <1>f, <1>n, <1>t, <1>s DEF Loop, OnRoomStateEvent, Listening, serverVars, clientVars, indexVars, handlerVars, crawlerVars, bounds
<1>9. ASSUME StartCrawler PROVE Loop'
  BY <1>9, <1>f, <1>n, <1>t, <1>s DEF Loop, StartCrawler, serverVars, clientVars, indexVars, handlerVars, crawlerVars, bounds
<1>10. ASSUME NEW e \in decrypting, AddLiveEvent(e) PROVE Loop'
  BY <1>10, <1>f, <1>n, <1>t, <1>s DEF Loop, AddLiveEvent, serverVars, clientVars, indexVars, handlerVars, crawlerVars, bounds
<1>11. ASSUME NEW c \in adding, AddRoomCheckpoint(c) PROVE Loop'
  BY <1>11, <1>f, <1>n, <1>t, <1>s DEF Loop, AddRoomCheckpoint, serverVars, clientVars, indexVars, handlerVars, crawlerVars, bounds
<1>12. ASSUME NEW c \in seeds, AddInitialCheckpoint(c) PROVE Loop'
  BY <1>12, <1>f, <1>n, <1>t, <1>s DEF Loop, AddInitialCheckpoint, serverVars, clientVars, indexVars, handlerVars, crawlerVars, bounds
<1>13. ASSUME TakeCheckpoint PROVE Loop'
  <2>1. crawlerCheckpoints # <<>> => Head(crawlerCheckpoints) # None
    <3>1. crawlerCheckpoints \in Seq(Checkpoint) /\ None \notin Checkpoint
      BY Bounded DEF TypeOK
    <3> QED BY <3>1, Taken
  <2>2. batch.next = None /\ setup = "done" /\ phase # "down"
    BY <1>13, <1>n, <1>t DEF TakeCheckpoint, Loop
  <2>3. UNCHANGED <<indexVars, clientVars, phase, setup, seeds, decrypting, checking, adding, cancelled, batch>>
    BY <1>13 DEF TakeCheckpoint, handlerVars
  <2> QED BY <1>13, <1>s, <2>1, <2>2, <2>3 DEF Loop, TakeCheckpoint, indexVars, clientVars
<1>14. ASSUME MessagesResponse PROVE Loop'
  <2>1. UNCHANGED <<stored, phase, seen, saved, live, setup, seeds, decrypting, checking, adding, currentCheckpoint, cancelled>> /\ setup = "done"
    BY <1>14 DEF MessagesResponse, clientVars, indexVars, handlerVars, Loop
  <2>2. currentCheckpoint # None /\ phase # "down"
    BY <1>14, <1>t, <2>1 DEF MessagesResponse, Loop
  <2>3. batch = NoBatch
    BY <1>14 DEF MessagesResponse, Loop
  <2>5. currentCheckpoint \in Checkpoint
    BY <2>2 DEF TypeOK
  <2>6. LET n == [currentCheckpoint EXCEPT !.token = End(currentCheckpoint)] IN Same(n, currentCheckpoint)
    BY <2>5 DEF Checkpoint, Same
  <2>7. \/ batch' = NoBatch /\ crawler' \in {"off", "remove"}
        \/ crawler' = "decrypt" /\ (batch'.next = None \/ Same(batch'.next, currentCheckpoint))
    <3>1. Response(currentCheckpoint).next = [currentCheckpoint EXCEPT !.token = End(currentCheckpoint)]
      BY DEF Response
    <3>2. [Response(currentCheckpoint) EXCEPT !.next = None].next = None
      BY DEF Response
    <3> QED BY <1>14, <2>3, <2>6, <3>1, <3>2 DEF MessagesResponse
  <2> QED BY <1>n, <1>s, <2>1, <2>2, <2>7 DEF Loop
<1>15. ASSUME MessagesError PROVE Loop'
  BY <1>15, <1>f, <1>n, <1>t, <1>s DEF Loop, MessagesError, NextTurn, serverVars, clientVars, indexVars, handlerVars, crawlerVars, bounds
<1>16. ASSUME CheckpointRemoved PROVE Loop'
  BY <1>16, <1>f, <1>n, <1>t, <1>s DEF Loop, CheckpointRemoved, NextTurn, serverVars, clientVars, indexVars, handlerVars, crawlerVars, bounds
<1>17. ASSUME AddHistoricEvents PROVE Loop'
  <2>1. IsFiniteSet(stored')
    <3>1. stored' = stored \/ stored' = stored \ {currentCheckpoint} \/ stored' = (stored \ {currentCheckpoint}) \cup {batch.next}
      BY <1>17 DEF AddHistoricEvents
    <3>2. IsFiniteSet(stored \ {currentCheckpoint})
      BY <1>f, FS_Subset
    <3>3. IsFiniteSet((stored \ {currentCheckpoint}) \cup {batch.next})
      BY <3>2, FS_AddElement
    <3> QED BY <1>f, <3>1, <3>2, <3>3
  <2>2. UNCHANGED <<phase, seen, saved, setup, seeds, live, decrypting, checking, adding>> /\ setup = "done"
    BY <1>17 DEF AddHistoricEvents, clientVars, handlerVars, Loop
  <2>3. phase # "down"
    BY <1>t, <2>2 DEF Loop
  <2>4. /\ crawler' = "sleep" => currentCheckpoint' = None
        /\ crawler' \in {"off", "sleep", "trim"} /\ cancelled' = cancelled
        /\ crawler' = "trim" => batch' = batch /\ batch.next # None /\ currentCheckpoint' = currentCheckpoint
        /\ crawler' # "trim" => batch' = NoBatch
    BY <1>17 DEF AddHistoricEvents, NextTurn
  <2> QED BY <1>17, <1>n, <1>s, <2>1, <2>2, <2>3, <2>4 DEF Loop, AddHistoricEvents
<1>18. ASSUME CrawlTrimmed PROVE Loop'
  BY <1>18, <1>f, <1>n, <1>t, <1>s DEF Loop, CrawlTrimmed, NextTurn, serverVars, clientVars, indexVars, handlerVars, crawlerVars, bounds
<1>19. ASSUME Close PROVE Loop'
  BY <1>19, <1>f, <1>n, <1>t, <1>s DEF Loop, Close, serverVars, clientVars, indexVars, handlerVars, crawlerVars, bounds
<1>20. ASSUME Reload PROVE Loop'
  BY <1>20, <1>f, <1>n, <1>t, <1>s DEF Loop, Reload, serverVars, clientVars, indexVars, handlerVars, crawlerVars, bounds
<1>22. ASSUME IsEventIndexEmpty PROVE Loop'
  BY <1>22, <1>f, <1>n, <1>t, <1>s DEF Loop, IsEventIndexEmpty, serverVars, clientVars, indexVars, handlerVars, crawlerVars, bounds
<1>23. ASSUME NEW r \in checking, IsRoomIndexed(r) PROVE Loop'
  BY <1>23, <1>f, <1>n, <1>t, <1>s DEF Loop, IsRoomIndexed, serverVars, clientVars, indexVars, handlerVars, crawlerVars, bounds
<1>24. ASSUME FilterEvents PROVE Loop'
  <2>1. batch'.next = batch.next
    BY <1>24 DEF FilterEvents, TypeOK, Fetched
  <2> QED BY <1>24, <1>f, <1>n, <1>t, <1>s, <2>1 DEF Loop, FilterEvents, serverVars, clientVars, indexVars, handlerVars
<1>25. ASSUME NEW e \in batch.gone, DeleteRedacted(e) PROVE Loop'
  <2>1. [batch EXCEPT !.gone = @ \ {e}].next = batch.next
    BY DEF TypeOK, Fetched
  <2>2. \/ crawler' = "delete" /\ UNCHANGED <<currentCheckpoint, cancelled>> /\ batch'.next = batch.next
        \/ /\ batch' = NoBatch /\ crawler' \in {"off", "sleep"} /\ UNCHANGED cancelled
           /\ crawler' = "sleep" => currentCheckpoint' = None
    BY <1>25, <2>1 DEF DeleteRedacted, NextTurn
  <2>3. UNCHANGED <<stored, phase, seen, saved, setup, seeds, decrypting, checking, adding>> /\ setup = "done" /\ live' \subseteq live
    BY <1>25 DEF DeleteRedacted, clientVars, handlerVars, Loop
  <2>4. crawler = "delete" /\ currentCheckpoint # None /\ phase # "down"
    BY <1>25, <1>t, <2>3 DEF DeleteRedacted, Loop
  <2> QED BY <1>n, <1>s, <2>2, <2>3, <2>4 DEF Loop
<1>21. CASE UNCHANGED vars
  BY <1>21, <1>f, <1>n, <1>t, <1>s DEF Loop, vars, serverVars, clientVars, indexVars, handlerVars, crawlerVars, bounds
<1> QED
  BY <1>1, <1>2, <1>3, <1>4, <1>5, <1>6, <1>7, <1>8, <1>9, <1>10, <1>11, <1>12, <1>13, <1>14, <1>15, <1>16, <1>17, <1>18, <1>19, <1>20, <1>21, <1>22, <1>23,
     <1>24, <1>25
  DEF Next, Sync, Handlers, CrawlerFunc

LEMMA FreshStep ==
    ASSUME TypeOK, Order, Placed, Loop, Fresh, [Next]_vars
    PROVE  Fresh'
<1> DEFINE Fit(c) == /\ c.token <= Len(timeline[c.room]) /\ c.room \in encrypted /\ c.page <= reloads
                     /\ c.page = reloads => c.from <= seen[c.room]
           Onward == /\ \A r \in Room : Len(timeline[r]) <= Len(timeline'[r]) /\ seen[r] <= seen'[r]
                     /\ \A r \in Room : Len(timeline'[r]) \in Nat /\ seen'[r] \in Nat
                     /\ encrypted \subseteq encrypted' /\ reloads' = reloads
<1>c. Known \subseteq Checkpoint /\ adding \subseteq Checkpoint /\ seeds \subseteq Checkpoint
  <2>1. Queue \subseteq Checkpoint
    BY DEF TypeOK, Queue, ToSet
  <2> QED BY <2>1 DEF TypeOK, Known, Fetched
<1>r. \A r \in Room : Len(timeline[r]) \in Nat /\ seen[r] \in Nat
  BY Bounded
<1>s. \A c, d : Same(c, d) => Same(d, c)
  BY DEF Same
<1>t. \A c, d, e : Same(c, d) /\ Same(d, e) => Same(c, e)
  BY DEF Same
<1>i. \A c : Same(c, c)
  BY DEF Same
<1>single. scenario' = scenario
  BY SameScenario
<1>kind. \A c : (Single(c)' <=> Single(c)) /\ (OfGap(c)' <=> OfGap(c))
  BY <1>single DEF Single, OfGap
<1>same. \A c, d : Same(c, d) => (Single(c) <=> Single(d)) /\ (OfGap(c) <=> OfGap(d)) /\ c.page = d.page
  BY DEF Same, Single, OfGap
<1>fit. \A c \in Known \cup adding \cup seeds : Fit(c)
  BY DEF Fresh
(* What fits goes on to fit. *)
<1>on. ASSUME Onward
       PROVE  \A c \in Known \cup adding \cup seeds : Fit(c)'
  <2> SUFFICES ASSUME NEW c \in Known \cup adding \cup seeds PROVE Fit(c)'
    OBVIOUS
  <2>1. Fit(c) /\ c.room \in Room /\ c.token \in Nat /\ c.from \in Nat
    BY <1>c, <1>fit, Bounded
  <2>2. /\ Len(timeline[c.room]) \in Nat /\ Len(timeline'[c.room]) \in Nat /\ Len(timeline[c.room]) <= Len(timeline'[c.room])
        /\ seen[c.room] \in Nat /\ seen'[c.room] \in Nat /\ seen[c.room] <= seen'[c.room]
    BY <1>on, <1>r, <2>1
  <2>3. encrypted \subseteq encrypted' /\ reloads' = reloads
    BY <1>on
  <2> QED BY <2>1, <2>2, <2>3
(* Nothing is added, or one checkpoint is stored or advances. *)
<1>move. ASSUME Onward, NEW N, Known' \subseteq Known \cup N,
                adding' \subseteq adding, seeds' \subseteq seeds, checking' \subseteq encrypted',
                \A n \in N : Fit(n)',
                \A n \in N : \/ \E d \in Known : Same(n, d)
                             \/ n \in adding \cup seeds /\ (Single(n) => n \notin adding' \cup seeds'),
                setup' \in {"idle", "asking"} => /\ setup \in {"idle", "asking"}
                                               /\ \A n \in N : (\E d \in Known : Same(n, d)) \/ OfGap(n),
                crawler' = "trim" => ~currentCheckpoint'.full /\ currentCheckpoint' \notin stored' \ {batch'.next}
         PROVE  Fresh'
  <2> USE <1>kind
  <2>1. \A c \in Known' \cup adding' \cup seeds' : Fit(c)'
    <3> HIDE DEF Fit, Onward
    <3>1. \A c \in Known \cup adding \cup seeds : Fit(c)'
      BY <1>move, <1>on
    <3> QED BY <1>move, <3>1
  <2>2. \A c \in adding' \cup seeds' : c.page = reloads' /\ c.from = c.token
    BY <1>move DEF Fresh
  <2>3. ASSUME NEW c \in adding' \cup seeds', NEW d \in Known', Single(c)
        PROVE  ~Same(c, d)
    <3>1. c \in adding \cup seeds /\ \A x \in Known : ~Same(c, x)
      BY <1>move, <2>3 DEF Fresh
    <3>2. CASE d \in Known
      BY <3>1, <3>2
    <3>3. CASE d \in N
      <4>1. CASE \E x \in Known : Same(d, x)
        BY <1>t, <3>1, <4>1
      <4>2. CASE d \in adding \cup seeds /\ (Single(d) => d \notin adding' \cup seeds')
        <5>1. SUFFICES ASSUME Same(c, d) PROVE FALSE
          OBVIOUS
        <5>2. Single(d) /\ c # d
          BY <1>same, <2>3, <4>2, <5>1
        <5>3. c.from = c.token /\ d.from = d.token /\ c \in Checkpoint /\ d \in Checkpoint
          BY <1>c, <3>1, <4>2 DEF Fresh
        <5>4. c = d
          <6>1. /\ c = [room |-> c.room, from |-> c.from, page |-> c.page, token |-> c.token, full |-> c.full, dir |-> c.dir]
                /\ d = [room |-> d.room, from |-> d.from, page |-> d.page, token |-> d.token, full |-> d.full, dir |-> d.dir]
            BY <5>3 DEF Checkpoint
          <6>2. c.room = d.room /\ c.from = d.from /\ c.page = d.page /\ c.token = d.token /\ c.full = d.full /\ c.dir = d.dir
            BY <5>1, <5>3 DEF Same
          <6> QED BY <6>1, <6>2
        <5> QED BY <5>2, <5>4
      <4> QED BY <1>move, <3>3, <4>1, <4>2
    <3> QED BY <1>move, <3>2, <3>3
  <2>4. /\ \A c \in adding' \cap seeds' : ~Single(c)
        /\ \A c \in adding' : OfGap(c)
    BY <1>move DEF Fresh
  <2>5. setup' \in {"idle", "asking"} => \A c \in Known' : c.page < reloads' \/ OfGap(c)
    <3>1. SUFFICES ASSUME setup' \in {"idle", "asking"}, NEW c \in Known' PROVE c.page < reloads' \/ OfGap(c)
      OBVIOUS
    <3>2. \A d \in Known : d.page < reloads' \/ OfGap(d)
      BY <1>move, <3>1 DEF Fresh
    <3>3. CASE c \in Known
      BY <3>2, <3>3
    <3>4. CASE c \in N
      BY <1>move, <1>same, <3>1, <3>2, <3>4
    <3> QED BY <1>move, <3>3, <3>4
  <2>6. (\A c \in adding' \cup seeds' : Single(c) => \A d \in Known' : ~Same(c, d))
    BY <2>3
  <2> HIDE DEF Onward
  <2> QED BY <1>move, <2>1, <2>2, <2>4, <2>5, <2>6 DEF Fresh, Same
(* Crawls begin. *)
<1>new. ASSUME Onward, NEW A, NEW S, adding' = adding \cup A, seeds' = seeds \cup S, Known' = Known,
               checking' \subseteq encrypted',
               \A m \in A \cup S : Fit(m)' /\ m.page = reloads /\ m.from = m.token,
               \A m \in A \cup S : Single(m) => \A d \in Known : ~Same(m, d),
               \A m \in A : Single(m) => m \notin seeds \cup S,
               \A m \in S : Single(m) => m \notin adding,
               \A m \in A : OfGap(m),
               setup' \in {"idle", "asking"} => setup \in {"idle", "asking"},
               crawler' = "trim" => ~currentCheckpoint'.full /\ currentCheckpoint' \notin stored' \ {batch'.next}
        PROVE  Fresh'
  <2> USE <1>kind
  <2>1. \A c \in Known' \cup adding' \cup seeds' : Fit(c)'
    <3> HIDE DEF Fit, Onward
    <3>1. \A c \in Known \cup adding \cup seeds : Fit(c)'
      BY <1>new, <1>on
    <3> QED BY <1>new, <3>1
  <2>2. \A c \in adding' \cup seeds' : c.page = reloads' /\ c.from = c.token
    BY <1>new DEF Fresh
  <2>3. \A c \in adding' \cup seeds' : Single(c) => \A d \in Known' : ~Same(c, d)
    BY <1>new DEF Fresh
  <2>4. \A c \in adding' \cap seeds' : ~Single(c)
    BY <1>new DEF Fresh
  <2>5. \A c \in adding' : OfGap(c)
    BY <1>new DEF Fresh
  <2>6. setup' \in {"idle", "asking"} => \A c \in Known' : c.page < reloads' \/ OfGap(c)
    BY <1>new DEF Fresh
  <2> HIDE DEF Onward
  <2> QED BY <1>new, <2>1, <2>2, <2>3, <2>4, <2>5, <2>6 DEF Fresh, Same
<1>7f. crawler = "trim" => ~currentCheckpoint.full /\ currentCheckpoint \notin stored \ {batch.next}
  BY DEF Fresh
<1>ch. checking \subseteq encrypted
  BY DEF Fresh
<1>less. ASSUME Onward, Known' \subseteq Known, adding' \subseteq adding, seeds' \subseteq seeds,
                checking' \subseteq encrypted',
                setup' \in {"idle", "asking"} => setup \in {"idle", "asking"},
                crawler' = "trim" => ~currentCheckpoint'.full /\ currentCheckpoint' \notin stored' \ {batch'.next}
         PROVE  Fresh'
  <2> DEFINE N == {}
  <2>1. N = {}
    OBVIOUS
  <2> HIDE DEF Fit, Onward, N
  <2>2. Known' \subseteq Known \cup N
    BY <1>less
  <2>3. \A n \in N : Fit(n)'
    BY <2>1
  <2>4. /\ \A n \in N : \/ \E d \in Known : Same(n, d)
                        \/ n \in adding \cup seeds /\ (Single(n) => n \notin adding' \cup seeds')
        /\ \A n \in N : (\E d \in Known : Same(n, d)) \/ OfGap(n)
    BY <2>1
  <2> QED BY <1>move, <1>less, <2>1, <2>2, <2>3, <2>4
(* A step that leaves all checkpoints where they are. *)
<1>u. ASSUME Onward, UNCHANGED <<stored, crawlerCheckpoints, currentCheckpoint, adding, seeds, crawler>>,
             batch'.next = batch.next, checking' \subseteq encrypted',
             setup' \in {"idle", "asking"} => setup \in {"idle", "asking"}
      PROVE  Fresh'
  <2> HIDE DEF Fit, Onward
  <2>1. Known' = Known
    BY <1>u DEF Known, Queue
  <2> QED BY <1>less, <1>u, <1>7f, <2>1
<1>stay. ASSUME UNCHANGED <<timeline, encrypted, seen, reloads>> PROVE Onward
  BY <1>stay, <1>r
<1>1. ASSUME NEW r \in Room, ServerEvent(r) PROVE Fresh'
  <2>1. Onward
    <3>1. /\ Len(timeline'[r]) = Len(timeline[r]) + 1
          /\ \A s \in Room \ {r} : timeline'[s] = timeline[s]
      BY <1>1, Appended
    <3>2. UNCHANGED <<seen, encrypted, reloads>>
      BY <1>1 DEF ServerEvent, clientVars, bounds
    <3> QED BY <1>r, <3>1, <3>2
  <2> HIDE DEF Onward
  <2> QED BY <1>1, <1>u, <1>ch, <2>1 DEF serverVars, ServerEvent, clientVars, indexVars, handlerVars, crawlerVars, bounds
<1>2. ASSUME LoadCheckpoints PROVE Fresh'
  <2>1. Onward
    BY <1>2, <1>stay DEF LoadCheckpoints, serverVars, clientVars, bounds
  <2>2. ToSet(crawlerCheckpoints') \subseteq stored
    BY <1>2, Ordered DEF LoadCheckpoints, Loop
  <2>3. /\ UNCHANGED <<stored, currentCheckpoint, batch, adding, seeds, crawler, setup, checking, encrypted>>
    BY <1>2 DEF LoadCheckpoints, serverVars, indexVars, handlerVars
  <2>4. Known' \subseteq Known
    BY <2>2, <2>3 DEF Known, Queue
  <2> HIDE DEF Onward, Fit
  <2> QED BY <1>less, <1>7f, <1>ch, <2>1, <2>3, <2>4
<1>3. ASSUME CommitLiveEvents PROVE Fresh'
  <2>1. Onward
    BY <1>3, <1>stay DEF CommitLiveEvents, serverVars, clientVars, indexVars, handlerVars, crawlerVars, bounds
  <2> HIDE DEF Onward
  <2> QED BY <1>3, <1>u, <1>ch, <2>1 DEF serverVars, CommitLiveEvents, clientVars, indexVars, handlerVars, crawlerVars, bounds
<1>4. ASSUME SaveSync PROVE Fresh'
  <2>1. Onward
    BY <1>4, <1>stay DEF SaveSync, serverVars, clientVars, indexVars, handlerVars, crawlerVars, bounds
  <2> HIDE DEF Onward
  <2> QED BY <1>4, <1>u, <1>ch, <2>1 DEF serverVars, SaveSync, clientVars, indexVars, handlerVars, crawlerVars, bounds
<1>5. ASSUME FirstSync PROVE Fresh'
  <2>1. Onward
    BY <1>5, <1>stay DEF FirstSync, serverVars, clientVars, bounds
  <2>2. setup = "idle"
    BY <1>5 DEF FirstSync, Loop
  <2> HIDE DEF Onward
  <2> QED BY <1>5, <1>u, <1>ch, <2>1, <2>2 DEF FirstSync, serverVars, indexVars, crawlerVars
<1>6. ASSUME NEW r \in Room, OnRoomTimeline(r) PROVE Fresh'
  <2>1. Onward
    <3>1. UNCHANGED <<timeline, encrypted, reloads>> /\ seen' = [seen EXCEPT ![r] = @ + 1]
      BY <1>6 DEF OnRoomTimeline, serverVars
    <3>2. seen'[r] = seen[r] + 1 /\ \A s \in Room \ {r} : seen'[s] = seen[s]
      BY <3>1 DEF TypeOK
    <3> QED BY <1>r, <3>1, <3>2
  <2> HIDE DEF Onward
  <2> QED BY <1>6, <1>u, <1>ch, <2>1 DEF serverVars, OnRoomTimeline, crawlerVars
<1>7. ASSUME NEW r \in Room, OnTimelineReset(r) PROVE Fresh'
  <2>1. PICK t \in (seen[r] + 1) .. (Len(timeline[r]) - 1) :
             /\ seen' = [seen EXCEPT ![r] = t]
             /\ adding' = IF r \in encrypted THEN adding \cup {NewCheckpoint(r, t, FALSE, "b")} ELSE adding
    BY <1>7 DEF OnTimelineReset
  <2>2. UNCHANGED <<timeline, encrypted, reloads, stored, crawlerCheckpoints, currentCheckpoint, batch, seeds, crawler, setup, checking>>
    BY <1>7 DEF OnTimelineReset, serverVars, indexVars, crawlerVars, bounds
  <2>3. seen'[r] = t /\ seen[r] < t /\ t < Len(timeline[r]) /\ t \in 0 .. scenario.len /\ \A s \in Room \ {r} : seen'[s] = seen[s]
 
    <3>1. t \in Nat /\ seen[r] < t /\ t < Len(timeline[r]) /\ t \in 0 .. scenario.len
      <4>1. seen[r] \in Nat /\ Len(timeline[r]) \in Nat /\ Len(timeline[r]) <= scenario.len /\ scenario.len \in Nat
        BY Bounded
      <4> HIDE DEF Onward, Fit
      <4> QED BY <4>1
    <3>2. seen \in [Room -> 0 .. scenario.len]
      BY DEF TypeOK
    <3> QED BY <2>1, <3>1, <3>2
  <2>4. Onward
    BY <1>r, <2>2, <2>3
  <2>c. PICK c : c = NewCheckpoint(r, t, FALSE, "b")
    OBVIOUS
  <2>5. c \in Checkpoint /\ c.room = r /\ c.from = t /\ c.page = reloads /\ c.token = t /\ c.dir = "b" /\ ~c.full
    <3>1. NewCheckpoint(r, t, FALSE, "b") \in Checkpoint
      BY <2>3, Begun
    <3>2. c.room = r /\ c.from = t /\ c.page = reloads /\ c.token = t /\ c.dir = "b" /\ ~c.full
      BY <2>c DEF NewCheckpoint
    <3>3. c \in Checkpoint
      BY <2>c, <3>1, Zenon
    <3> QED BY <3>2, <3>3
  <2>6. CASE r \notin encrypted
    <3>1. adding' = adding
      BY <2>1, <2>6
    <3> QED BY <1>7, <1>u, <1>ch, <2>2, <2>4, <3>1 DEF OnTimelineReset
  <2>7. CASE r \in encrypted
    <3>1. Fit(c)'
      <4>1. Len(timeline[r]) \in Nat /\ t \in Nat /\ reloads \in Nat /\ reloads <= reloads /\ t <= t /\ t <= Len(timeline[r])
        BY <2>3, Levels
      <4> QED BY <2>2, <2>3, <2>5, <2>7, <4>1
    <3>2. \A d \in Known \cup adding \cup seeds : ~Same(c, d)
      <4>1. \A d \in Known \cup adding \cup seeds : d.page = reloads => d.from <= seen[d.room]
        BY DEF Fresh
      <4>2. \A d \in Known \cup adding \cup seeds : d.from \in Nat
        BY <1>c, Bounded
      <4> QED BY <1>r, <2>3, <2>5, <4>1, <4>2 DEF Same
    <3>3. Known' = Known
      BY <2>2 DEF Known, Queue
    <3>4. adding' = adding \cup {c} /\ seeds' = seeds \cup {}
      BY <2>1, <2>2, <2>7, <2>c
    <3> DEFINE S == {}
               A == {c}
    <3>s. S = {} /\ A = {c} /\ A \cup S = {c}
      OBVIOUS
    <3> HIDE DEF Fit, Onward, S, A
    <3>5. /\ \A m \in A \cup S : Fit(m)' /\ m.page = reloads /\ m.from = m.token
          /\ \A m \in A \cup S : Single(m) => \A d \in Known : ~Same(m, d)
          /\ \A m \in A : Single(m) => m \notin seeds \cup S
          /\ \A m \in S : Single(m) => m \notin adding
          /\ \A m \in A : OfGap(m)
      BY <1>i, <2>5, <3>1, <3>2, <3>s DEF OfGap
    <3>7. adding' = adding \cup A /\ seeds' = seeds \cup S
      BY <3>4, <3>s
    <3>6. /\ setup' \in {"idle", "asking"} => setup \in {"idle", "asking"}
          /\ crawler' = "trim" => ~currentCheckpoint'.full /\ currentCheckpoint' \notin stored' \ {batch'.next}
          /\ checking' \subseteq encrypted'
      BY <1>7f, <1>ch, <2>2
    <3> QED BY <1>new, <2>4, <3>3, <3>5, <3>6, <3>7
  <2> QED BY <2>6, <2>7
<1>8. ASSUME NEW r \in Room, OnRoomStateEvent(r) PROVE Fresh'
  <2>1. /\ UNCHANGED <<timeline, seen, reloads, stored, crawlerCheckpoints, currentCheckpoint, batch, adding, seeds, crawler, setup>>
        /\ encrypted' = encrypted \cup {r} /\ checking' = checking \cup {r}
    BY <1>8 DEF OnRoomStateEvent, clientVars, indexVars, crawlerVars, bounds
  <2>2. Onward
    BY <1>r, <2>1
  <2> HIDE DEF Onward
  <2> QED BY <1>u, <1>ch, <2>1, <2>2
<1>9. ASSUME StartCrawler PROVE Fresh'
  <2>1. Onward
    BY <1>9, <1>stay DEF StartCrawler, serverVars, clientVars, indexVars, handlerVars, crawlerVars, bounds
  <2>2. UNCHANGED <<stored, crawlerCheckpoints, batch, adding, seeds, checking, encrypted>> /\ (crawler' = "trim" => crawler = "trim" /\ UNCHANGED currentCheckpoint)
        /\ currentCheckpoint' \in {currentCheckpoint, None} /\ setup' = "done"
    BY <1>9 DEF StartCrawler, serverVars, indexVars
  <2>3. Known' \subseteq Known
    BY <2>2 DEF Known, Queue
  <2> HIDE DEF Onward, Fit
  <2>8. /\ Known' \subseteq Known /\ adding' \subseteq adding /\ seeds' \subseteq seeds
        /\ setup' \in {"idle", "asking"} => setup \in {"idle", "asking"}
        /\ checking' \subseteq encrypted'
        /\ crawler' = "trim" => ~currentCheckpoint'.full /\ currentCheckpoint' \notin stored' \ {batch'.next}
    BY <1>7f, <1>ch, <2>2, <2>3
  <2> QED BY <1>less, <2>1, <2>8
<1>10. ASSUME NEW e \in decrypting, AddLiveEvent(e) PROVE Fresh'
  <2>1. Onward
    BY <1>10, <1>stay DEF AddLiveEvent, serverVars, clientVars, indexVars, handlerVars, crawlerVars, bounds
  <2> HIDE DEF Onward
  <2> QED BY <1>10, <1>u, <1>ch, <2>1 DEF serverVars, AddLiveEvent, clientVars, indexVars, handlerVars, crawlerVars, bounds
<1>11. ASSUME NEW c \in adding, AddRoomCheckpoint(c) PROVE Fresh'
  <2>1. Onward
    BY <1>11, <1>stay DEF AddRoomCheckpoint, serverVars, clientVars, indexVars, handlerVars, crawlerVars, bounds
  <2>2. /\ UNCHANGED <<currentCheckpoint, batch, crawler, setup, checking, encrypted>> /\ stored' \subseteq stored \cup {c}
        /\ crawlerCheckpoints' \in {crawlerCheckpoints, Append(crawlerCheckpoints, c)}
        /\ adding' \subseteq adding /\ seeds' \subseteq seeds /\ c \in adding \cup seeds
        /\ (Single(c) => c \notin adding' \cup seeds')
    BY <1>11 DEF AddRoomCheckpoint, Fresh, handlerVars, serverVars
  <2>3. Queue' \subseteq Queue \cup {c}
    <3>1. c \in Checkpoint /\ crawlerCheckpoints \in Seq(Checkpoint)
      BY <1>c, <2>2 DEF TypeOK
    <3>2. ToSet(Append(crawlerCheckpoints, c)) = ToSet(crawlerCheckpoints) \cup {c}
      BY <3>1, Queued
    <3> QED BY <2>2, <3>2 DEF Queue
  <2>4. Known' \subseteq Known \cup {c}
    BY <2>2, <2>3 DEF Known
  <2>5. Fit(c)'
    BY <1>on, <2>1, <2>2
  <2>6. OfGap(c)
    BY <1>11 DEF Fresh
  <2>7. crawler' = "trim" => ~currentCheckpoint'.full /\ currentCheckpoint' \notin stored' \ {batch'.next}
    <3>1. crawler = "trim" => currentCheckpoint \in Known /\ Single(currentCheckpoint)
      BY <1>7f DEF Loop, Known, Single
    <3>2. crawler = "trim" => currentCheckpoint # c
      BY <1>i, <2>2, <3>1 DEF Fresh
    <3> QED BY <1>7f, <2>2, <3>2
  <2> HIDE DEF Onward, Fit
  <2>8. /\ Known' \subseteq Known \cup {c} /\ adding' \subseteq adding /\ seeds' \subseteq seeds
        /\ \A m \in {c} : Fit(m)'
        /\ \A m \in {c} : \/ \E d \in Known : Same(m, d)
                          \/ m \in adding \cup seeds /\ (Single(m) => m \notin adding' \cup seeds')
        /\ checking' \subseteq encrypted'
        /\ setup' \in {"idle", "asking"} => /\ setup \in {"idle", "asking"}
                                            /\ \A m \in {c} : (\E d \in Known : Same(m, d)) \/ OfGap(m)
        /\ crawler' = "trim" => ~currentCheckpoint'.full /\ currentCheckpoint' \notin stored' \ {batch'.next}
    BY <1>ch, <2>2, <2>4, <2>5, <2>6, <2>7
  <2> QED BY <1>move, <2>1, <2>8, Zenon
<1>12. ASSUME NEW c \in seeds, AddInitialCheckpoint(c) PROVE Fresh'
  <2>1. Onward
    BY <1>12, <1>stay DEF AddInitialCheckpoint, serverVars, clientVars, indexVars, handlerVars, crawlerVars, bounds
  <2>2. /\ UNCHANGED <<currentCheckpoint, batch, crawler, setup, checking, encrypted>> /\ stored' \subseteq stored \cup {c}
        /\ crawlerCheckpoints' \in {crawlerCheckpoints, Append(crawlerCheckpoints, c)}
        /\ adding' \subseteq adding /\ seeds' \subseteq seeds /\ c \in adding \cup seeds
        /\ (Single(c) => c \notin adding' \cup seeds')
    BY <1>12 DEF AddInitialCheckpoint, Fresh, handlerVars, serverVars
  <2>3. Queue' \subseteq Queue \cup {c}
    <3>1. c \in Checkpoint /\ crawlerCheckpoints \in Seq(Checkpoint)
      BY <1>c, <2>2 DEF TypeOK
    <3>2. ToSet(Append(crawlerCheckpoints, c)) = ToSet(crawlerCheckpoints) \cup {c}
      BY <3>1, Queued
    <3> QED BY <2>2, <3>2 DEF Queue
  <2>4. Known' \subseteq Known \cup {c}
    BY <2>2, <2>3 DEF Known
  <2>5. Fit(c)'
    BY <1>on, <2>1, <2>2
  <2>6. setup = "seeding" /\ crawler = "off"
    BY <1>12 DEF AddInitialCheckpoint, Loop
  <2>7. crawler' # "trim"
    BY <2>2, <2>6
  <2> HIDE DEF Onward, Fit
  <2>8. /\ Known' \subseteq Known \cup {c} /\ adding' \subseteq adding /\ seeds' \subseteq seeds
        /\ \A m \in {c} : Fit(m)'
        /\ \A m \in {c} : \/ \E d \in Known : Same(m, d)
                          \/ m \in adding \cup seeds /\ (Single(m) => m \notin adding' \cup seeds')
        /\ checking' \subseteq encrypted'
        /\ setup' \in {"idle", "asking"} => /\ setup \in {"idle", "asking"}
                                            /\ \A m \in {c} : (\E d \in Known : Same(m, d)) \/ OfGap(m)
        /\ crawler' = "trim" => ~currentCheckpoint'.full /\ currentCheckpoint' \notin stored' \ {batch'.next}
    BY <1>ch, <2>2, <2>4, <2>5, <2>6, <2>7
  <2> QED BY <1>move, <2>1, <2>8, Zenon
<1>13. ASSUME TakeCheckpoint PROVE Fresh'
  <2>1. Onward
    BY <1>13, <1>stay DEF TakeCheckpoint, serverVars, clientVars, indexVars, handlerVars, crawlerVars, bounds
  <2>2. UNCHANGED <<stored, batch, adding, seeds, setup, checking, encrypted>> /\ crawler' # "trim"
    BY <1>13 DEF TakeCheckpoint, indexVars, handlerVars, serverVars
  <2>3. Queue' \cup {currentCheckpoint'} \subseteq Queue \cup {currentCheckpoint}
    <3>1. crawlerCheckpoints # <<>> => ToSet(crawlerCheckpoints) = ToSet(Tail(crawlerCheckpoints)) \cup {Head(crawlerCheckpoints)}
      BY Taken DEF TypeOK
    <3> QED BY <1>13, <3>1 DEF TakeCheckpoint, Queue
  <2>4. Known' \subseteq Known
    BY <2>2, <2>3 DEF Known
  <2> HIDE DEF Onward, Fit
  <2>8. /\ Known' \subseteq Known /\ adding' \subseteq adding /\ seeds' \subseteq seeds
        /\ setup' \in {"idle", "asking"} => setup \in {"idle", "asking"}
        /\ checking' \subseteq encrypted'
        /\ crawler' = "trim" => ~currentCheckpoint'.full /\ currentCheckpoint' \notin stored' \ {batch'.next}
    BY <1>ch, <2>2, <2>4
  <2> QED BY <1>less, <2>1, <2>8
<1>14. ASSUME MessagesResponse PROVE Fresh'
  <2>1. Onward
    BY <1>14, <1>stay DEF MessagesResponse, serverVars, clientVars, indexVars, handlerVars, crawlerVars, bounds
  <2>c. PICK c, n : c = currentCheckpoint /\ n = [c EXCEPT !.token = End(c)]
    OBVIOUS
  <2>0. c \in Checkpoint /\ c \in Known /\ crawlerCheckpoints \in Seq(Checkpoint) /\ c.token <= Len(timeline[c.room]) /\ c.room \in Room
    <3>1. c \in Checkpoint /\ c \in Known /\ crawlerCheckpoints \in Seq(Checkpoint)
      BY <1>14, <2>c DEF MessagesResponse, Loop, TypeOK, Known
    <3> QED BY <1>fit, <3>1, Bounded
  <2>2. /\ UNCHANGED <<stored, adding, seeds, setup, checking, encrypted, currentCheckpoint>> /\ crawler' # "trim"
        /\ crawlerCheckpoints' \in {crawlerCheckpoints, Append(crawlerCheckpoints, c)}
    BY <1>14, <2>c DEF MessagesResponse, Requeue, indexVars, handlerVars, serverVars
  <2>3. Queue' \subseteq Queue \cup {c}
    <3>1. ToSet(Append(crawlerCheckpoints, c)) = ToSet(crawlerCheckpoints) \cup {c}
      BY <2>0, Queued
    <3> QED BY <2>2, <3>1 DEF Queue
  <2>4. batch'.next \in {batch.next, None, n}
    <3>1. Response(c).next = n /\ [Response(c) EXCEPT !.next = None].next = None
      BY <2>c DEF Response
    <3> QED BY <1>14, <2>c, <3>1 DEF MessagesResponse
  <2>5. n.room = c.room /\ n.from = c.from /\ n.page = c.page /\ n.full = c.full /\ n.dir = c.dir /\ n.token = End(c)
    BY <2>0, <2>c DEF Checkpoint
  <2>6. Fit(n)'
    <3>1. n.token <= Len(timeline[n.room])
      BY <2>0, <2>5, Chunked
    <3>2. Fit(c)
      BY <1>fit, <2>0
    <3>3. UNCHANGED <<timeline, encrypted, seen, reloads>>
      BY <1>14 DEF MessagesResponse, serverVars, clientVars, bounds
    <3> QED BY <2>5, <3>1, <3>2, <3>3
  <2>7. Same(n, c)
    BY <2>5 DEF Same
  <2>9. Known' \subseteq Known \cup {n}
    BY <2>0, <2>2, <2>3, <2>4, <2>c DEF Known
  <2> HIDE DEF Onward, Fit
  <2>8. /\ Known' \subseteq Known \cup {n} /\ adding' \subseteq adding /\ seeds' \subseteq seeds
        /\ \A m \in {n} : Fit(m)'
        /\ \A m \in {n} : \/ \E d \in Known : Same(m, d)
                          \/ m \in adding \cup seeds /\ (Single(m) => m \notin adding' \cup seeds')
        /\ checking' \subseteq encrypted'
        /\ setup' \in {"idle", "asking"} => /\ setup \in {"idle", "asking"}
                                            /\ \A m \in {n} : (\E d \in Known : Same(m, d)) \/ OfGap(m)
        /\ crawler' = "trim" => ~currentCheckpoint'.full /\ currentCheckpoint' \notin stored' \ {batch'.next}
    BY <1>ch, <2>0, <2>2, <2>6, <2>7, <2>9
  <2> QED BY <1>move, <2>1, <2>8, Zenon
<1>15. ASSUME MessagesError PROVE Fresh'
  <2>1. Onward
    BY <1>15, <1>stay DEF MessagesError, serverVars, clientVars, indexVars, handlerVars, crawlerVars, bounds
  <2>0. currentCheckpoint \in Checkpoint /\ crawlerCheckpoints \in Seq(Checkpoint)
    BY <1>15 DEF MessagesError, Loop, TypeOK
  <2>2. /\ stored' \subseteq stored /\ UNCHANGED <<adding, seeds, setup, checking, encrypted>> /\ crawler' # "trim"
        /\ crawlerCheckpoints' \in {crawlerCheckpoints, Append(crawlerCheckpoints, currentCheckpoint)}
        /\ currentCheckpoint' \in {currentCheckpoint, None} /\ batch'.next \in {batch.next, None}
    BY <1>15 DEF MessagesError, NextTurn, NoBatch, Requeue, indexVars, handlerVars, serverVars
  <2>3. Queue' \subseteq Queue \cup {currentCheckpoint}
    <3>1. ToSet(Append(crawlerCheckpoints, currentCheckpoint)) = ToSet(crawlerCheckpoints) \cup {currentCheckpoint}
      BY <2>0, Queued
    <3> QED BY <2>2, <3>1 DEF Queue
  <2>4. Known' \subseteq Known
    BY <2>2, <2>3 DEF Known
  <2> HIDE DEF Onward, Fit
  <2>8. /\ Known' \subseteq Known /\ adding' \subseteq adding /\ seeds' \subseteq seeds
        /\ setup' \in {"idle", "asking"} => setup \in {"idle", "asking"}
        /\ checking' \subseteq encrypted'
        /\ crawler' = "trim" => ~currentCheckpoint'.full /\ currentCheckpoint' \notin stored' \ {batch'.next}
    BY <1>ch, <2>2, <2>4
  <2> QED BY <1>less, <2>1, <2>8
<1>16. ASSUME CheckpointRemoved PROVE Fresh'
  <2>1. Onward
    BY <1>16, <1>stay DEF CheckpointRemoved, serverVars, clientVars, indexVars, handlerVars, crawlerVars, bounds
  <2>0. currentCheckpoint \in Checkpoint /\ crawlerCheckpoints \in Seq(Checkpoint)
    BY <1>16 DEF CheckpointRemoved, Loop, TypeOK
  <2>2. /\ stored' \subseteq stored /\ UNCHANGED <<adding, seeds, setup, checking, encrypted>> /\ crawler' # "trim"
        /\ crawlerCheckpoints' \in {crawlerCheckpoints, Append(crawlerCheckpoints, currentCheckpoint)}
        /\ currentCheckpoint' \in {currentCheckpoint, None} /\ batch'.next \in {batch.next, None}
    BY <1>16 DEF CheckpointRemoved, NextTurn, NoBatch, Requeue, indexVars, handlerVars, serverVars
  <2>3. Queue' \subseteq Queue \cup {currentCheckpoint}
    <3>1. ToSet(Append(crawlerCheckpoints, currentCheckpoint)) = ToSet(crawlerCheckpoints) \cup {currentCheckpoint}
      BY <2>0, Queued
    <3> QED BY <2>2, <3>1 DEF Queue
  <2>4. Known' \subseteq Known
    BY <2>2, <2>3 DEF Known
  <2> HIDE DEF Onward, Fit
  <2>8. /\ Known' \subseteq Known /\ adding' \subseteq adding /\ seeds' \subseteq seeds
        /\ setup' \in {"idle", "asking"} => setup \in {"idle", "asking"}
        /\ checking' \subseteq encrypted'
        /\ crawler' = "trim" => ~currentCheckpoint'.full /\ currentCheckpoint' \notin stored' \ {batch'.next}
    BY <1>ch, <2>2, <2>4
  <2> QED BY <1>less, <2>1, <2>8
<1>17. ASSUME AddHistoricEvents PROVE Fresh'
  <2>1. Onward
    BY <1>17, <1>stay DEF AddHistoricEvents, serverVars, clientVars, indexVars, handlerVars, crawlerVars, bounds
  <2>0. currentCheckpoint \in Checkpoint /\ crawlerCheckpoints \in Seq(Checkpoint)
        /\ (batch.next # None => batch.next \in Checkpoint)
    BY <1>17 DEF AddHistoricEvents, Loop, TypeOK, Fetched
  <2>2. /\ stored' \subseteq stored \cup ({batch.next} \ {None}) /\ UNCHANGED <<adding, seeds, setup, checking, encrypted>>
        /\ \/ crawlerCheckpoints' = crawlerCheckpoints
           \/ crawlerCheckpoints' = Append(crawlerCheckpoints, currentCheckpoint)
           \/ batch.next # None /\ crawlerCheckpoints' = Append(crawlerCheckpoints, batch.next)
        /\ currentCheckpoint' \in {currentCheckpoint, None} /\ batch'.next \in {batch.next, None}
    BY <1>17 DEF AddHistoricEvents, NextTurn, NoBatch, Requeue, handlerVars, serverVars
  <2>3. Queue' \subseteq Queue \cup {currentCheckpoint, batch.next}
    <3>1. ToSet(Append(crawlerCheckpoints, currentCheckpoint)) = ToSet(crawlerCheckpoints) \cup {currentCheckpoint}
      BY <2>0, Queued
    <3>2. batch.next # None => ToSet(Append(crawlerCheckpoints, batch.next)) = ToSet(crawlerCheckpoints) \cup {batch.next}
      BY <2>0, Queued
    <3> QED BY <2>2, <3>1, <3>2 DEF Queue
  <2>5. None \notin Queue'
    <3>1. crawlerCheckpoints' \in Seq(Checkpoint)
      BY <2>0, <2>2, Queued
    <3> QED BY <3>1, Bounded DEF Queue, ToSet
  <2>4. Known' \subseteq Known
    BY <2>0, <2>2, <2>3, <2>5 DEF Known
  <2>6. crawler' = "trim" => ~currentCheckpoint'.full /\ currentCheckpoint' \notin stored' \ {batch'.next}
    <3>1. crawler' = "trim" => UNCHANGED <<currentCheckpoint, batch>> /\ ~currentCheckpoint.full /\ stored' = (stored \ {currentCheckpoint}) \cup ({batch.next} \ {None})
      BY <1>17 DEF AddHistoricEvents, NextTurn
    <3> QED BY <3>1
  <2> HIDE DEF Onward, Fit
  <2>8. /\ Known' \subseteq Known /\ adding' \subseteq adding /\ seeds' \subseteq seeds
        /\ setup' \in {"idle", "asking"} => setup \in {"idle", "asking"}
        /\ checking' \subseteq encrypted'
        /\ crawler' = "trim" => ~currentCheckpoint'.full /\ currentCheckpoint' \notin stored' \ {batch'.next}
    BY <1>ch, <2>2, <2>4, <2>6
  <2> QED BY <1>less, <2>1, <2>8
<1>18. ASSUME CrawlTrimmed PROVE Fresh'
  <2>1. Onward
    BY <1>18, <1>stay DEF CrawlTrimmed, serverVars, clientVars, indexVars, handlerVars, crawlerVars, bounds
  <2>0. currentCheckpoint \in Checkpoint /\ crawlerCheckpoints \in Seq(Checkpoint)
    BY <1>18 DEF CrawlTrimmed, Loop, TypeOK
  <2>2. /\ stored' \subseteq stored /\ UNCHANGED <<adding, seeds, setup, checking, encrypted>> /\ crawler' # "trim"
        /\ crawlerCheckpoints' \in {crawlerCheckpoints, Append(crawlerCheckpoints, currentCheckpoint)}
        /\ currentCheckpoint' \in {currentCheckpoint, None} /\ batch'.next \in {batch.next, None}
    BY <1>18 DEF CrawlTrimmed, NextTurn, NoBatch, Requeue, indexVars, handlerVars, serverVars
  <2>3. Queue' \subseteq Queue \cup {currentCheckpoint}
    <3>1. ToSet(Append(crawlerCheckpoints, currentCheckpoint)) = ToSet(crawlerCheckpoints) \cup {currentCheckpoint}
      BY <2>0, Queued
    <3> QED BY <2>2, <3>1 DEF Queue
  <2>4. Known' \subseteq Known
    BY <2>2, <2>3 DEF Known
  <2> HIDE DEF Onward, Fit
  <2>8. /\ Known' \subseteq Known /\ adding' \subseteq adding /\ seeds' \subseteq seeds
        /\ setup' \in {"idle", "asking"} => setup \in {"idle", "asking"}
        /\ checking' \subseteq encrypted'
        /\ crawler' = "trim" => ~currentCheckpoint'.full /\ currentCheckpoint' \notin stored' \ {batch'.next}
    BY <1>ch, <2>2, <2>4
  <2> QED BY <1>less, <2>1, <2>8
<1>19. ASSUME Close PROVE Fresh'
  <2>1. Onward
    BY <1>19, <1>stay DEF Close, serverVars, clientVars, indexVars, handlerVars, crawlerVars, bounds
  <2> HIDE DEF Onward
  <2> QED BY <1>19, <1>u, <1>ch, <2>1 DEF serverVars, Close, clientVars, indexVars, handlerVars, crawlerVars, bounds
<1>20. ASSUME Reload PROVE Fresh'
  <2>1. /\ UNCHANGED <<timeline, encrypted, stored>> /\ reloads' = reloads + 1 /\ seeds' = {} /\ adding' = {}
        /\ crawlerCheckpoints' = <<>> /\ currentCheckpoint' = None /\ batch' = NoBatch /\ crawler' = "off" /\ checking' = {}
    BY <1>20 DEF Reload, serverVars
  <2>2. Queue' = {}
    BY <2>1 DEF Queue, ToSet
  <2>3. Known' = stored
    BY <2>1, <2>2 DEF Known, NoBatch
  <2>4. \A c \in stored : c.token <= Len(timeline[c.room]) /\ c.room \in encrypted /\ c.page < reloads + 1
    <3>1. \A c \in stored : c \in Checkpoint /\ c \in Known
      BY <1>c DEF Known
    <3> QED BY <1>fit, <3>1, Bounded
  <2>5. adding' \cup seeds' = {} /\ adding' \cap seeds' = {} /\ Known' \cup adding' \cup seeds' = stored /\ crawler' # "trim"
    BY <2>1, <2>3
  <2>6. \A c \in stored : Fit(c)' /\ c.page < reloads'
    <3>1. \A c \in stored : c.page \in Nat
      BY <1>c, Bounded DEF Known
    <3> QED BY <2>1, <2>4, <3>1, Bounded
  <2>7. adding' = {} /\ checking' \subseteq encrypted'
    BY <2>1
  <2> QED BY <2>3, <2>5, <2>6, <2>7 DEF Fresh
<1>22. ASSUME IsEventIndexEmpty PROVE Fresh'
  <2>1. Onward
    BY <1>22, <1>stay DEF IsEventIndexEmpty, serverVars, clientVars
  <2>2. /\ UNCHANGED <<stored, crawlerCheckpoints, currentCheckpoint, batch, adding, crawler, checking, encrypted>>
        /\ setup = "asking" /\ seeds = {} /\ setup' \in {"seeding", "starting", "done"}
    BY <1>22 DEF IsEventIndexEmpty, serverVars, indexVars, crawlerVars, Loop
  <2>3. Known' = Known /\ \A c \in Known : c.page < reloads \/ OfGap(c)
    BY <2>2 DEF Known, Queue, Fresh
  <2>4. seeds' = {} \/ seeds' = InitialCheckpoints
    BY <1>22, <2>2 DEF IsEventIndexEmpty
  <2>5. \A m \in InitialCheckpoints : /\ m.room \in encrypted /\ m.from = token[m.room] /\ m.token = m.from /\ m.page = reloads
                                      /\ m.room \in Room
    <3>1. ASSUME NEW m \in InitialCheckpoints
          PROVE  \E q \in encrypted : m \in {NewCheckpoint(q, token[q], TRUE, "b"), NewCheckpoint(q, token[q], FALSE, "f")}
      BY DEF InitialCheckpoints
    <3>2. encrypted \subseteq Room
      BY DEF TypeOK
    <3>3. ASSUME NEW m \in InitialCheckpoints
          PROVE  m.room \in encrypted /\ m.from = token[m.room] /\ m.token = m.from /\ m.page = reloads /\ m.room \in Room
      <4>1. PICK q \in encrypted : m \in {NewCheckpoint(q, token[q], TRUE, "b"), NewCheckpoint(q, token[q], FALSE, "f")}
        BY <3>1
      <4>2. q \in Room /\ m.room = q /\ m.from = token[q] /\ m.token = token[q] /\ m.page = reloads
        BY <3>2, <4>1 DEF NewCheckpoint
      <4> QED BY <4>2
    <3> QED BY <3>3
  <2>6. \A m \in InitialCheckpoints : Fit(m)'
    <3>1. UNCHANGED <<timeline, encrypted, seen, reloads>>
      BY <1>22 DEF IsEventIndexEmpty, serverVars, clientVars
    <3>2. \A s \in Room : token[s] <= seen[s] /\ seen[s] <= Len(timeline[s])
      BY DEF Order
    <3>3. \A m \in InitialCheckpoints : Fit(m)
      BY <2>5, <3>2, Levels
    <3> QED BY <3>1, <3>3
  <2>7. \A m \in InitialCheckpoints : m.from = m.token /\ (m.dir = "b" => m.full) /\ m.page \in Nat
    <3>1. ASSUME NEW m \in InitialCheckpoints
          PROVE  m.from = m.token /\ (m.dir = "b" => m.full) /\ m.page \in Nat
      <4>1. PICK q \in encrypted : m \in {NewCheckpoint(q, token[q], TRUE, "b"), NewCheckpoint(q, token[q], FALSE, "f")}
        BY DEF InitialCheckpoints
      <4>2. reloads \in Nat
        BY Bounded
      <4> QED BY <4>1, <4>2 DEF NewCheckpoint
    <3> QED BY <3>1
  <2>8. ASSUME NEW m \in InitialCheckpoints, Single(m), NEW d \in Known \cup adding
        PROVE  ~Same(m, d)
    <3>1. d.page \in Nat /\ reloads \in Nat /\ m.page = reloads
      BY <1>c, <2>5, Bounded
    <3>2. CASE d.page < reloads
      BY <3>1, <3>2 DEF Same
    <3>3. CASE OfGap(d)
      BY <2>7, <2>8, <3>3 DEF Same, OfGap, Single
    <3> QED BY <2>3, <3>2, <3>3 DEF Fresh
  <2> DEFINE A == {}
  <2>9. A = {}
    OBVIOUS
  <2> HIDE DEF Onward, Fit, A
  <2>10. adding' = adding \cup A /\ seeds' = seeds \cup seeds' /\ A \cup seeds' \subseteq InitialCheckpoints
    BY <2>2, <2>4, <2>9
  <2>11. /\ setup' \in {"idle", "asking"} => setup \in {"idle", "asking"}
         /\ crawler' = "trim" => ~currentCheckpoint'.full /\ currentCheckpoint' \notin stored' \ {batch'.next}
         /\ checking' \subseteq encrypted'
    BY <1>7f, <1>ch, <2>2
  <2>12. \A m \in A \cup seeds' : Fit(m)' /\ m.page = reloads /\ m.from = m.token
    BY <2>5, <2>6, <2>10
  <2>13. \A m \in A \cup seeds' : Single(m) => \A d \in Known : ~Same(m, d)
    BY <2>8, <2>10
  <2>14. \A m \in seeds' : Single(m) => m \notin adding
    BY <1>i, <2>8, <2>10
  <2>15. (\A m \in A : OfGap(m)) /\ (\A m \in A : Single(m) => m \notin seeds \cup seeds')
    BY <2>9
  <2> QED BY <1>new, <2>1, <2>3, <2>10, <2>11, <2>12, <2>13, <2>14, <2>15
<1>23. ASSUME NEW r \in checking, IsRoomIndexed(r) PROVE Fresh'
  <2>1. /\ UNCHANGED <<timeline, encrypted, seen, token, reloads, stored, crawlerCheckpoints, currentCheckpoint, batch, seeds, crawler, setup>>
        /\ checking' \subseteq checking /\ r \in encrypted /\ r \in Room
    BY <1>23, <1>ch DEF IsRoomIndexed, serverVars, clientVars, crawlerVars, TypeOK
  <2>2. Onward
    BY <1>r, <2>1
  <2>c. PICK c : c = NewCheckpoint(r, token[r], TRUE, "b")
    OBVIOUS
  <2>3. adding' = adding \/ adding' = adding \cup {c}
    BY <1>23, <2>c DEF IsRoomIndexed
  <2>4. token[r] \in 0 .. scenario.len
    BY <2>1 DEF TypeOK
  <2>5. c \in Checkpoint /\ c.room = r /\ c.from = token[r] /\ c.page = reloads /\ c.token = token[r] /\ c.dir = "b" /\ c.full
    <3>1. NewCheckpoint(r, token[r], TRUE, "b") \in Checkpoint
      BY <2>1, <2>4, Begun
    <3>2. c.room = r /\ c.from = token[r] /\ c.page = reloads /\ c.token = token[r] /\ c.dir = "b" /\ c.full
      BY <2>c DEF NewCheckpoint
    <3>3. c \in Checkpoint
      BY <2>c, <3>1, Zenon
    <3> QED BY <3>2, <3>3
  <2>l. scenario.lateEncryption
    BY DEF Loop
  <2>6. CASE adding' = adding
    <3> HIDE DEF Onward
    <3> QED BY <1>u, <1>ch, <2>1, <2>2, <2>6
  <2>7. CASE adding' = adding \cup {c}
    <3>1. Fit(c)'
      BY <1>r, <2>1, <2>5, Bounded DEF Order
    <3>2. ~Single(c) /\ OfGap(c)
      BY <2>5, <2>l DEF Single, OfGap
    <3>3. Known' = Known
      BY <2>1 DEF Known, Queue
    <3>4. seeds' = seeds \cup {}
      BY <2>1
    <3> DEFINE S == {}
               A == {c}
    <3>s. S = {} /\ A = {c} /\ A \cup S = {c}
      OBVIOUS
    <3> HIDE DEF Fit, Onward, S, A
    <3>5. /\ \A m \in A \cup S : Fit(m)' /\ m.page = reloads /\ m.from = m.token
          /\ \A m \in A \cup S : Single(m) => \A d \in Known : ~Same(m, d)
          /\ \A m \in A : Single(m) => m \notin seeds \cup S
          /\ \A m \in S : Single(m) => m \notin adding
          /\ \A m \in A : OfGap(m)
      BY  <2>5, <3>1, <3>2, <3>s DEF OfGap
    <3>7. adding' = adding \cup A /\ seeds' = seeds \cup S
      BY <2>7, <3>4, <3>s
    <3>6. /\ setup' \in {"idle", "asking"} => setup \in {"idle", "asking"}
          /\ crawler' = "trim" => ~currentCheckpoint'.full /\ currentCheckpoint' \notin stored' \ {batch'.next}
          /\ checking' \subseteq encrypted'
      BY <1>7f, <1>ch, <2>1
    <3> QED BY <1>new, <2>2, <3>3, <3>5, <3>6, <3>7
  <2> QED BY <2>3, <2>6, <2>7
<1>24. ASSUME FilterEvents PROVE Fresh'
  <2>1. Onward
    BY <1>24, <1>stay DEF FilterEvents, serverVars, clientVars
  <2>2. batch'.next = batch.next
    BY <1>24 DEF FilterEvents, TypeOK, Fetched
  <2>3. /\ UNCHANGED <<stored, adding, seeds, setup, checking, encrypted, crawlerCheckpoints, currentCheckpoint>> /\ crawler' # "trim"
    BY <1>24 DEF FilterEvents, serverVars, indexVars, handlerVars
  <2>4. Known' = Known
    BY <2>2, <2>3 DEF Known, Queue
  <2> HIDE DEF Onward, Fit
  <2> QED BY <1>less, <1>ch, <2>1, <2>3, <2>4
<1>25. ASSUME NEW e \in batch.gone, DeleteRedacted(e) PROVE Fresh'
  <2>1. Onward
    BY <1>25, <1>stay DEF DeleteRedacted, serverVars, clientVars
  <2>0. currentCheckpoint \in Checkpoint /\ crawlerCheckpoints \in Seq(Checkpoint)
    BY <1>25 DEF DeleteRedacted, Loop, TypeOK
  <2>n. [batch EXCEPT !.gone = @ \ {e}].next = batch.next
    BY DEF TypeOK, Fetched
  <2>2. /\ UNCHANGED <<stored, adding, seeds, setup, checking, encrypted>> /\ crawler' # "trim"
        /\ crawlerCheckpoints' \in {crawlerCheckpoints, Append(crawlerCheckpoints, currentCheckpoint)}
        /\ currentCheckpoint' \in {currentCheckpoint, None} /\ batch'.next \in {batch.next, None}
    <3>1. UNCHANGED <<stored, adding, seeds, setup, checking, encrypted>>
      BY <1>25 DEF DeleteRedacted, serverVars, handlerVars
    <3>2. \/ /\ batch' = [batch EXCEPT !.gone = @ \ {e}]
             /\ UNCHANGED <<crawlerCheckpoints, currentCheckpoint, crawler>>
          \/ Requeue(currentCheckpoint) /\ NextTurn
      BY <1>25 DEF DeleteRedacted
    <3>3. crawler = "delete"
      BY <1>25 DEF DeleteRedacted
    <3>4. CASE /\ batch' = [batch EXCEPT !.gone = @ \ {e}]
               /\ UNCHANGED <<crawlerCheckpoints, currentCheckpoint, crawler>>
      <4>1. batch'.next = batch.next
        BY <2>n, <3>4
      <4> QED BY <3>1, <3>3, <3>4, <4>1
    <3>5. CASE Requeue(currentCheckpoint) /\ NextTurn
      <4>1. batch'.next = None /\ crawler' \in {"off", "sleep"}
        BY <3>5 DEF NextTurn, NoBatch
      <4> QED BY <3>1, <3>5, <4>1 DEF NextTurn, Requeue
    <3> QED BY <3>2, <3>4, <3>5
  <2>3. Queue' \subseteq Queue \cup {currentCheckpoint}
    <3>1. ToSet(Append(crawlerCheckpoints, currentCheckpoint)) = ToSet(crawlerCheckpoints) \cup {currentCheckpoint}
      BY <2>0, Queued
    <3> QED BY <2>2, <3>1 DEF Queue
  <2>4. Known' \subseteq Known
    BY <2>2, <2>3 DEF Known
  <2> HIDE DEF Onward, Fit
  <2> QED BY <1>less, <1>ch, <2>1, <2>2, <2>4
<1>21. CASE UNCHANGED vars
  <2>1. Onward
    BY <1>21, <1>stay DEF vars, serverVars, clientVars, indexVars, handlerVars, crawlerVars, bounds
  <2> HIDE DEF Onward
  <2> QED BY <1>21, <1>u, <1>ch, <2>1 DEF serverVars, vars, clientVars, indexVars, handlerVars, crawlerVars, bounds
<1> QED
  BY <1>1, <1>2, <1>3, <1>4, <1>5, <1>6, <1>7, <1>8, <1>9, <1>10, <1>11, <1>12, <1>13, <1>14, <1>15, <1>16, <1>17, <1>18, <1>19, <1>20, <1>21, <1>22, <1>23,
     <1>24, <1>25
  DEF Next, Sync, Handlers, CrawlerFunc

----------------------------------------------------------------------------
(* What holds without any assumption on the scenario. *)
Basis == TypeOK /\ Order /\ Placed /\ Loop /\ Fresh

LEMMA InitBasis == Init => Basis
<1> SUFFICES ASSUME Init PROVE Basis
  OBVIOUS
<1>1. /\ scenario \in Scenarios /\ scenario.len \in Nat /\ scenario.initLen \in Nat /\ scenario.initLen <= scenario.len
      /\ scenario.faults \in Nat /\ scenario.reloads \in Nat
  BY EventIndexAssumption DEF Init, Scenario
<1>2. /\ timeline \in [Room -> Seq(0 .. scenario.len)]
      /\ \A r \in Room : /\ Len(timeline[r]) \in Nat /\ Len(timeline[r]) <= scenario.len
                         /\ \A q \in 1 .. Len(timeline[r]) : timeline[r][q] = 0
  <2>1. ASSUME NEW s \in BoundedSeq({0}, scenario.initLen)
        PROVE  /\ s \in Seq(0 .. scenario.len) /\ Len(s) \in Nat /\ Len(s) <= scenario.len
               /\ \A q \in 1 .. Len(s) : s[q] = 0
    <3>1. PICK m \in 0 .. scenario.initLen : s \in [1 .. m -> {0}]
      BY DEF BoundedSeq, SeqOf
    <3>2. m \in Nat /\ m <= scenario.len /\ 0 \in 0 .. scenario.len
      BY <1>1
    <3>3. s \in Seq({0}) /\ Len(s) = m
      BY <3>1, <3>2
    <3>4. s \in Seq(0 .. scenario.len)
      <4>1. {0} \subseteq 0 .. scenario.len
        BY <1>1
      <4> QED BY <3>3, <4>1, SeqMonotonic
    <3> QED BY <3>1, <3>2, <3>3, <3>4
  <2>2. timeline \in [Room -> {s \in BoundedSeq({0}, scenario.initLen) : s # <<>>}]
    BY DEF Init
  <2> QED BY <2>1, <2>2
<1>3. /\ seen \in [Room -> 0 .. scenario.len] /\ saved = seen /\ token \in [Room -> 0 .. scenario.len]
      /\ \A r \in Room : seen[r] = Len(timeline[r]) /\ token[r] \in LiveTokens(seen[r])
  <2>1. seen = [r \in Room |-> Len(timeline[r])]
    BY DEF Init
  <2> QED BY <1>1, <1>2, <2>1 DEF Init
<1>4. TypeOK
  <2>1. NoBatch \in Fetched /\ <<>> \in Seq(Checkpoint) /\ 0 \in 0 .. scenario.faults /\ 0 \in 0 .. scenario.reloads
    BY <1>1 DEF NoBatch, Fetched
  <2> QED BY <1>1, <1>2, <1>3, <2>1 DEF TypeOK, Init
<1>5. Order
  <2>1. \A r \in Room : token[r] <= seen[r]
    BY <1>2, <1>3 DEF LiveTokens
  <2> QED BY <1>2, <1>3, <2>1 DEF Order
<1>6. Placed
  BY DEF Placed, Init, NoBatch
<1>7. Loop
  BY FS_EmptySet DEF Loop, Init, NoBatch
<1>8. Fresh
  <2>1. Known = {}
    BY DEF Known, Queue, ToSet, Init, NoBatch
  <2> QED BY <2>1 DEF Fresh, Init
<1> QED BY <1>4, <1>5, <1>6, <1>7, <1>8 DEF Basis

(* Types, the order of events and positions, the state of the crawler and  *)
(* the crawls in its hands: whatever the scenario.                         *)
THEOREM BasisHolds == Spec => []Basis
<1>1. Basis /\ [Next]_vars => Basis'
  BY TypeStep, OrderStep, PlacedStep, LoopStep, FreshStep DEF Basis
<1> QED BY <1>1, InitBasis, PTL DEF Spec

(* Type correctness: every variable of the client, of the index, of the    *)
(* listeners and of the crawler keeps its type.                            *)
THEOREM TypeCorrect == Spec => []TypeOK
BY BasisHolds, PTL DEF Basis

(* The crawler drops a stored checkpoint only when it removes it from the  *)
(* index, or the page goes: a failed call, a cancelled crawl and a crawl   *)
(* that has caught up put back what they must.                             *)
LEMMA HeldStep ==
    ASSUME TypeOK, Loop, Fresh, [Next]_vars
    PROVE  \A c \in stored \cap stored' : c \in Held /\ c \notin Held' => crawler = "remove" \/ phase' = "down"
<1> DEFINE Goal == \A c \in stored \cap stored' : c \in Held /\ c \notin Held' => crawler = "remove" \/ phase' = "down"
<1>0. UNCHANGED <<crawlerCheckpoints, currentCheckpoint>> => Goal
  BY DEF Held
<1>t. crawlerCheckpoints \in Seq(Checkpoint) /\ stored \subseteq Checkpoint /\ None \notin Checkpoint
  BY Bounded DEF TypeOK
<1>n. None \notin stored
  BY <1>t
(* A checkpoint that is put back is still held. *)
<1>back. ASSUME NEW d \in Checkpoint, crawlerCheckpoints' = Append(crawlerCheckpoints, d)
         PROVE  ToSet(crawlerCheckpoints') = ToSet(crawlerCheckpoints) \cup {d}
  BY <1>back, <1>t, Queued
<1>1. ASSUME NEW r \in Room, ServerEvent(r) PROVE Goal
  BY <1>1, <1>0 DEF ServerEvent, serverVars, clientVars, indexVars, handlerVars, crawlerVars, bounds
<1>2. ASSUME LoadCheckpoints PROVE Goal
  <2>1. crawlerCheckpoints = <<>> /\ UNCHANGED currentCheckpoint
    BY <1>2 DEF LoadCheckpoints, Loop
  <2> QED BY <2>1 DEF Held, ToSet
<1>3. ASSUME CommitLiveEvents PROVE Goal
  BY <1>3, <1>0 DEF CommitLiveEvents, serverVars, clientVars, indexVars, handlerVars, crawlerVars, bounds
<1>4. ASSUME SaveSync PROVE Goal
  BY <1>4, <1>0 DEF SaveSync, serverVars, clientVars, indexVars, handlerVars, crawlerVars, bounds
<1>5. ASSUME FirstSync PROVE Goal
  BY <1>5, <1>0 DEF FirstSync, serverVars, clientVars, indexVars, handlerVars, crawlerVars, bounds
<1>6. ASSUME NEW r \in Room, OnRoomTimeline(r) PROVE Goal
  BY <1>6, <1>0 DEF OnRoomTimeline, serverVars, clientVars, indexVars, handlerVars, crawlerVars, bounds
<1>7. ASSUME NEW r \in Room, OnTimelineReset(r) PROVE Goal
  BY <1>7, <1>0 DEF OnTimelineReset, serverVars, clientVars, indexVars, handlerVars, crawlerVars, bounds
<1>8. ASSUME NEW r \in Room, OnRoomStateEvent(r) PROVE Goal
  BY <1>8, <1>0 DEF OnRoomStateEvent, serverVars, clientVars, indexVars, handlerVars, crawlerVars, bounds
<1>9. ASSUME StartCrawler PROVE Goal
  <2>1. UNCHANGED crawlerCheckpoints /\ currentCheckpoint = None
    BY <1>9 DEF StartCrawler, Loop
  <2> QED BY <1>n, <2>1 DEF Held
<1>10. ASSUME NEW e \in decrypting, AddLiveEvent(e) PROVE Goal
  BY <1>10, <1>0 DEF AddLiveEvent, serverVars, clientVars, indexVars, handlerVars, crawlerVars, bounds
<1>11. ASSUME NEW c \in adding, AddRoomCheckpoint(c) PROVE Goal
  <2>1. c \in Checkpoint /\ crawlerCheckpoints' \in {crawlerCheckpoints, Append(crawlerCheckpoints, c)} /\ UNCHANGED currentCheckpoint
    BY <1>11 DEF AddRoomCheckpoint, TypeOK
  <2> QED BY <1>back, <2>1 DEF Held
<1>12. ASSUME NEW c \in seeds, AddInitialCheckpoint(c) PROVE Goal
  <2>1. c \in Checkpoint /\ crawlerCheckpoints' \in {crawlerCheckpoints, Append(crawlerCheckpoints, c)} /\ UNCHANGED currentCheckpoint
    BY <1>12 DEF AddInitialCheckpoint, TypeOK
  <2> QED BY <1>back, <2>1 DEF Held
<1>13. ASSUME TakeCheckpoint PROVE Goal
  <2>1. currentCheckpoint = None
    BY <1>13 DEF TakeCheckpoint, Loop
  <2>2. crawlerCheckpoints # <<>> => ToSet(crawlerCheckpoints) = ToSet(Tail(crawlerCheckpoints)) \cup {Head(crawlerCheckpoints)}
    BY <1>t, Taken
  <2> QED BY <1>13, <1>n, <2>1, <2>2 DEF Held, TakeCheckpoint
<1>14. ASSUME MessagesResponse PROVE Goal
  <2>1. UNCHANGED currentCheckpoint /\ crawlerCheckpoints' \in {crawlerCheckpoints, Append(crawlerCheckpoints, currentCheckpoint)}
    BY <1>14 DEF MessagesResponse, Requeue
  <2>2. currentCheckpoint \in Checkpoint
    BY <1>14 DEF MessagesResponse, Loop, TypeOK
  <2> QED BY <1>back, <2>1, <2>2 DEF Held
<1>15. ASSUME MessagesError PROVE Goal
  <2>1. currentCheckpoint \in Checkpoint
    BY <1>15 DEF MessagesError, Loop, TypeOK
  <2>2. crawlerCheckpoints' = Append(crawlerCheckpoints, currentCheckpoint) \/ UNCHANGED <<crawlerCheckpoints, currentCheckpoint>>
    BY <1>15 DEF MessagesError, Requeue
  <2> QED BY <1>0, <1>back, <2>1, <2>2 DEF Held
<1>16. ASSUME CheckpointRemoved PROVE Goal
  BY <1>16 DEF CheckpointRemoved
<1>17. ASSUME AddHistoricEvents PROVE Goal
  <2>1. currentCheckpoint \in Checkpoint /\ batch.next \in Checkpoint \cup {None}
    BY <1>17 DEF AddHistoricEvents, Loop, TypeOK, Fetched
  <2>2. CASE UNCHANGED <<crawlerCheckpoints, currentCheckpoint>>
    BY <1>0, <2>2
  <2>3. CASE Requeue(currentCheckpoint)
    BY <1>back, <2>1, <2>3 DEF Requeue, Held
  <2>4. CASE /\ stored' = (stored \ {currentCheckpoint}) \cup ({batch.next} \ {None})
             /\ crawlerCheckpoints' = crawlerCheckpoints \/ (batch.next # None /\ Requeue(batch.next))
             /\ batch.next # None => Requeue(batch.next)
    <3>1. \A c \in stored \cap stored' : c # currentCheckpoint \/ (batch.next # None /\ c = batch.next)
      BY <2>4
    <3>2. ToSet(crawlerCheckpoints) \subseteq ToSet(crawlerCheckpoints')
      BY <1>back, <2>1, <2>4 DEF Requeue
    <3>3. batch.next # None => batch.next \in ToSet(crawlerCheckpoints')
      BY <1>back, <2>1, <2>4 DEF Requeue
    <3> QED BY <3>1, <3>2, <3>3 DEF Held
  <2> QED BY <1>17, <2>2, <2>3, <2>4 DEF AddHistoricEvents
<1>18. ASSUME CrawlTrimmed PROVE Goal
  <2>1. currentCheckpoint \in Checkpoint
    BY <1>18 DEF CrawlTrimmed, Loop, TypeOK
  <2>2. CASE Requeue(currentCheckpoint)
    BY <1>back, <2>1, <2>2 DEF Requeue, Held
  <2>3. CASE stored' = stored \ {batch.next} /\ crawlerCheckpoints' = crawlerCheckpoints
    <3>1. currentCheckpoint \notin stored'
      BY <1>18, <2>3 DEF CrawlTrimmed, Fresh
    <3> QED BY <2>3, <3>1 DEF Held
  <2> QED BY <1>18, <2>2, <2>3 DEF CrawlTrimmed
<1>19. ASSUME Close PROVE Goal
  BY <1>19, <1>0 DEF Close, serverVars, clientVars, indexVars, handlerVars, crawlerVars, bounds
<1>20. ASSUME Reload PROVE Goal
  BY <1>20 DEF Reload
<1>22. ASSUME IsEventIndexEmpty PROVE Goal
  BY <1>22, <1>0 DEF IsEventIndexEmpty, serverVars, clientVars, indexVars, handlerVars, crawlerVars, bounds
<1>23. ASSUME NEW r \in checking, IsRoomIndexed(r) PROVE Goal
  BY <1>23, <1>0 DEF IsRoomIndexed, serverVars, clientVars, indexVars, handlerVars, crawlerVars, bounds
<1>24. ASSUME FilterEvents PROVE Goal
  BY <1>24, <1>0 DEF FilterEvents, serverVars, clientVars, indexVars, handlerVars, crawlerVars, bounds
<1>25. ASSUME NEW e \in batch.gone, DeleteRedacted(e) PROVE Goal
  <2>1. currentCheckpoint \in Checkpoint
    BY <1>25 DEF DeleteRedacted, Loop, TypeOK
  <2>2. Requeue(currentCheckpoint) \/ UNCHANGED <<crawlerCheckpoints, currentCheckpoint>>
    BY <1>25 DEF DeleteRedacted
  <2>3. Requeue(currentCheckpoint) => Goal
    BY <1>back, <2>1 DEF Requeue, Held
  <2> QED BY <1>0, <2>2, <2>3
<1>21. CASE UNCHANGED vars
  BY <1>21, <1>0 DEF vars, serverVars, clientVars, indexVars, handlerVars, crawlerVars, bounds
<1> QED
  BY <1>1, <1>2, <1>3, <1>4, <1>5, <1>6, <1>7, <1>8, <1>9, <1>10, <1>11, <1>12, <1>13, <1>14, <1>15, <1>16, <1>17, <1>18, <1>19, <1>20, <1>21, <1>22, <1>23,
     <1>24, <1>25
  DEF Next, Sync, Handlers, CrawlerFunc

(* A stored checkpoint leaves the crawler's hands only when it is removed  *)
(* from the index or the page goes; after every failure, cancellation and  *)
(* early end it is put back.                                               *)
THEOREM Forgetting == Spec => NotForgotten
<1>1. Basis /\ [Next]_vars =>
          [\A c \in stored \cap stored' : c \in Held /\ c \notin Held' => crawler = "remove" \/ phase' = "down"]_vars
  BY HeldStep DEF Basis
<1> QED BY <1>1, BasisHolds, PTL DEF Spec, NotForgotten

(* A message that the client has loaded does not outlive its redaction in  *)
(* the index, whether it waited for its decryption, for a commit or in the *)
(* crawler's hands, as long as no call has failed and the page has not     *)
(* been reloaded.                                                          *)

(* What has passed the crawler's filter will be added: it is as good as    *)
(* indexed.                                                                *)
Filtered == IF crawler = "delete" THEN batch.events ELSE {}
Searched == (indexed \cup live \cup Filtered) \ overtaken
NoneRedacted == faults = 0 /\ reloads = 0 => \A e \in Searched : Loaded(e) => ~LiveRedaction(e)

LEMMA RedactedStep ==
    ASSUME TypeOK, Order, Placed, NoneRedacted, [Next]_vars
    PROVE  NoneRedacted'
<1>b. /\ \A e \in indexed \cup live \cup decrypting \cup batch.events : e \in Event
      /\ \A e \in Event : e[1] \in Room /\ e[2] \in Nat /\ 1 <= e[2]
      /\ \A r \in Room : Len(timeline[r]) \in Nat /\ seen[r] \in Nat /\ token[r] \in Nat
      /\ faults \in Nat /\ reloads \in Nat /\ Event' = Event /\ scenario' = scenario
  BY Bounded, SameScenario DEF TypeOK, Fetched
(* A redaction that came over the live timeline is known. *)
<1>k. \A e \in Event : Loaded(e) /\ LiveRedaction(e) => KnownRedacted(e)
  <2> SUFFICES ASSUME NEW e \in Event, Loaded(e), LiveRedaction(e) PROVE KnownRedacted(e)
    OBVIOUS
  <2>1. PICK q \in (token[e[1]] + 1) .. seen[e[1]] : timeline[e[1]][q] = e[2]
    BY DEF LiveRedaction
  <2>2. q \in 1 .. seen[e[1]]
    BY <1>b, <2>1
  <2> QED BY <2>1, <2>2 DEF KnownRedacted, Redacted
<1>f. Fault => (faults' = 0 => faults = 0)
  BY <1>b DEF Fault
(* What is taken in is not known to be redacted. *)
<1>u. ASSUME UNCHANGED <<timeline, token, seen>>, faults' = 0 => faults = 0, reloads' = 0 => reloads = 0,
             overtaken' = overtaken,
             \A e \in indexed' \cup live' : e \in indexed \cup live \cup Filtered \/ (e \in Event /\ ~KnownRedacted(e)),
             crawler' # "delete" \/ (crawler = "delete" /\ batch'.events = batch.events)
      PROVE  NoneRedacted'
  <2> SUFFICES ASSUME faults' = 0, reloads' = 0, NEW e \in Searched', Loaded(e)' PROVE ~LiveRedaction(e)'
    BY DEF NoneRedacted
  <2>1. Loaded(e) /\ (LiveRedaction(e)' => LiveRedaction(e))
    BY <1>u DEF Loaded, LiveRedaction
  <2>2. e \in Searched => ~LiveRedaction(e)
    BY <1>u, <2>1 DEF NoneRedacted
  <2>3. e \in Searched \/ (e \in Event /\ ~KnownRedacted(e))
    BY <1>u DEF Searched, Filtered
  <2> QED BY <1>k, <2>1, <2>2, <2>3
<1>1. ASSUME NEW r \in Room, ServerEvent(r) PROVE NoneRedacted'
  <2>1. UNCHANGED <<token, seen, faults, reloads>> /\ Searched' = Searched
    BY <1>1 DEF ServerEvent, clientVars, indexVars, crawlerVars, bounds, Searched, Filtered
  <2>2. /\ \A q \in 1 .. Len(timeline[r]) : timeline'[r][q] = timeline[r][q]
        /\ \A s \in Room \ {r} : timeline'[s] = timeline[s]
    BY <1>1, Appended
  <2> SUFFICES ASSUME faults = 0, reloads = 0, NEW e \in Searched, Loaded(e)' PROVE ~LiveRedaction(e)'
    BY <2>1 DEF NoneRedacted
  <2>3. e[1] \in Room /\ Loaded(e)
    BY <1>b, <2>1 DEF Loaded, Searched, Filtered
  <2>4. ~LiveRedaction(e)
    BY <2>3 DEF NoneRedacted
  <2>5. \A q \in (token[e[1]] + 1) .. seen[e[1]] : timeline'[e[1]][q] = timeline[e[1]][q]
    <3>1. CASE e[1] # r
      BY <2>2, <2>3, <3>1
    <3>2. CASE e[1] = r
      <4>1. \A q \in (token[r] + 1) .. seen[r] : q \in 1 .. Len(timeline[r])
        BY <1>b DEF Order
      <4> QED BY <2>2, <3>2, <4>1
    <3> QED BY <3>1, <3>2
  <2> QED BY <2>1, <2>4, <2>5 DEF LiveRedaction
<1>2. ASSUME LoadCheckpoints PROVE NoneRedacted'
  BY <1>2, <1>u, <1>f DEF LoadCheckpoints, serverVars, clientVars, indexVars, handlerVars, crawlerVars, bounds
<1>3. ASSUME CommitLiveEvents PROVE NoneRedacted'
  BY <1>3, <1>u, <1>f DEF CommitLiveEvents, serverVars, clientVars, indexVars, handlerVars, crawlerVars, bounds
<1>4. ASSUME SaveSync PROVE NoneRedacted'
  BY <1>4, <1>u, <1>f DEF SaveSync, serverVars, clientVars, indexVars, handlerVars, crawlerVars, bounds
<1>5. ASSUME FirstSync PROVE NoneRedacted'
  BY <1>5, <1>u, <1>f DEF FirstSync, serverVars, clientVars, indexVars, handlerVars, crawlerVars, bounds
<1>6. ASSUME NEW r \in Room, OnRoomTimeline(r) PROVE NoneRedacted'
  <2>1. /\ UNCHANGED <<timeline, token, encrypted, reloads>> /\ phase # "closed"
        /\ seen' = [seen EXCEPT ![r] = @ + 1] /\ seen[r] < Len(timeline[r])
    BY <1>6 DEF OnRoomTimeline, Listening, serverVars
  <2>2. seen'[r] = seen[r] + 1 /\ \A s \in Room \ {r} : seen'[s] = seen[s]
    BY <2>1 DEF TypeOK
  <2> DEFINE p == seen[r] + 1
             target == <<r, timeline[r][p]>>
  <2>3. indexed' \subseteq indexed /\ live' \subseteq live /\ Filtered' = Filtered /\ overtaken \subseteq overtaken'
    BY <1>6 DEF OnRoomTimeline, Filtered, crawlerVars
  <2>4. faults' = 0 => faults = 0 /\ (r \notin encrypted \/ timeline[r][p] = 0 \/ target \notin Searched')
    <3>1. r \in encrypted /\ timeline[r][p] # 0 =>
             \/ target \notin indexed' /\ target \notin live' /\ (target \in Filtered => target \in overtaken') /\ UNCHANGED faults
             \/ Fault /\ phase # "closed"
      BY <1>6, <2>1 DEF OnRoomTimeline, IsMessage, Filtered
    <3>2. Fault /\ phase # "closed" => faults' # 0
      BY <1>b DEF Fault
    <3>3. faults' = 0 => faults = 0
      BY <1>6, <1>f DEF OnRoomTimeline
    <3> HIDE DEF target, p
    <3> QED BY <2>3, <3>1, <3>2, <3>3 DEF Searched
  <2> SUFFICES ASSUME faults' = 0, reloads = 0, NEW e \in Searched', Loaded(e)', LiveRedaction(e)' PROVE FALSE
    BY <2>1 DEF NoneRedacted
  <2>5. e \in Event /\ e[1] \in Room /\ e[1] \in encrypted /\ e[2] \in Nat /\ 1 <= e[2] /\ e = <<e[1], e[2]>> /\ e \in Searched
    <3>1. e \in Searched /\ e \in indexed \cup live \cup batch.events
      BY <2>3 DEF Searched, Filtered
    <3> QED BY <1>b, <3>1, Bounded DEF Placed
  <2>6. PICK q \in (token[e[1]] + 1) .. seen'[e[1]] : timeline[e[1]][q] = e[2]
    BY <2>1 DEF LiveRedaction
  <2>7. CASE q <= seen[e[1]]
    <3>1. q \in (token[e[1]] + 1) .. seen[e[1]] /\ q \in 1 .. Len(timeline[e[1]])
      BY <1>b, <2>2, <2>5, <2>6, <2>7 DEF Order
    <3>2. LiveRedaction(e)
      BY <2>6, <3>1 DEF LiveRedaction
    <3>3. e[2] < q
      BY <2>5, <2>6, <3>1 DEF Order
    <3>4. token[e[1]] < e[2]
      BY <2>1 DEF Loaded
    <3>5. Loaded(e)
      BY <1>b, <2>5, <2>6, <2>7, <3>3, <3>4 DEF Loaded
    <3> QED BY <2>4, <2>5, <3>2, <3>5 DEF NoneRedacted
  <2>8. CASE seen[e[1]] < q
    <3>1. e[1] = r /\ q = p
      BY <1>b, <2>2, <2>5, <2>6, <2>8
    <3>2. e = target
      BY <2>5, <2>6, <3>1
    <3>3. timeline[r][p] # 0 /\ r \in encrypted
      BY <2>5, <2>6, <3>1
    <3> HIDE DEF target, p
    <3> QED BY <2>4, <3>2, <3>3
  <2>9. q \in Nat /\ seen[e[1]] \in Nat
    BY <1>b, <2>1, <2>2, <2>5, <2>6
  <2> QED BY <2>7, <2>8, <2>9
<1>7. ASSUME NEW r \in Room, OnTimelineReset(r) PROVE NoneRedacted'
  <2>1. UNCHANGED <<timeline, faults, reloads>> /\ Searched' = Searched
    BY <1>7 DEF OnTimelineReset, serverVars, indexVars, crawlerVars, bounds, Searched, Filtered
  <2>2. PICK t \in (seen[r] + 1) .. (Len(timeline[r]) - 1) :
             seen' = [seen EXCEPT ![r] = t] /\ token' = [token EXCEPT ![r] = t]
    BY <1>7 DEF OnTimelineReset
  <2>3. t \in Nat /\ seen'[r] = t /\ token'[r] = t /\ \A s \in Room \ {r} : seen'[s] = seen[s] /\ token'[s] = token[s]
    BY <1>b, <2>2 DEF TypeOK
  <2> SUFFICES ASSUME faults = 0, reloads = 0, NEW e \in Searched, Loaded(e)' PROVE ~LiveRedaction(e)'
    BY <2>1 DEF NoneRedacted
  <2>0. e[1] \in Room /\ e[2] \in Nat
    BY <1>b DEF Searched, Filtered
  <2>4. e[1] # r
    BY <2>0, <2>3 DEF Loaded
  <2>5. token'[e[1]] = token[e[1]] /\ seen'[e[1]] = seen[e[1]]
    BY <2>0, <2>3, <2>4
  <2> QED BY <2>1, <2>5 DEF Loaded, LiveRedaction, NoneRedacted
<1>8. ASSUME NEW r \in Room, OnRoomStateEvent(r) PROVE NoneRedacted'
  BY <1>8, <1>u DEF OnRoomStateEvent, clientVars, indexVars, crawlerVars, bounds
<1>9. ASSUME StartCrawler PROVE NoneRedacted'
  BY <1>9, <1>u, <1>f DEF StartCrawler, serverVars, clientVars, indexVars, handlerVars, crawlerVars, bounds
<1>10. ASSUME NEW e \in decrypting, AddLiveEvent(e) PROVE NoneRedacted'
  <2>1. /\ UNCHANGED <<timeline, token, seen, indexed, reloads, overtaken, crawler, batch>> /\ (faults' = 0 => faults = 0)
        /\ live' = live \/ (~KnownRedacted(e) /\ live' = live \cup {e})
    BY <1>10, <1>f DEF AddLiveEvent, clientVars, serverVars, crawlerVars
  <2>2. e \in Event
    BY <1>b
  <2> QED BY <1>u, <2>1, <2>2
<1>11. ASSUME NEW c \in adding, AddRoomCheckpoint(c) PROVE NoneRedacted'
  BY <1>11, <1>u, <1>f DEF AddRoomCheckpoint, serverVars, clientVars, indexVars, handlerVars, crawlerVars, bounds
<1>12. ASSUME NEW c \in seeds, AddInitialCheckpoint(c) PROVE NoneRedacted'
  BY <1>12, <1>u, <1>f DEF AddInitialCheckpoint, serverVars, clientVars, indexVars, handlerVars, crawlerVars, bounds
<1>13. ASSUME TakeCheckpoint PROVE NoneRedacted'
  BY <1>13, <1>u, <1>f DEF TakeCheckpoint, serverVars, clientVars, indexVars, handlerVars, crawlerVars, bounds
<1>14. ASSUME MessagesResponse PROVE NoneRedacted'
  BY <1>14, <1>u, <1>f DEF MessagesResponse, serverVars, clientVars, indexVars, handlerVars, crawlerVars, bounds
<1>15. ASSUME MessagesError PROVE NoneRedacted'
  BY <1>15, <1>u, <1>f DEF MessagesError, NextTurn, serverVars, clientVars, indexVars, handlerVars, crawlerVars, bounds
<1>16. ASSUME CheckpointRemoved PROVE NoneRedacted'
  BY <1>16, <1>u, <1>f DEF CheckpointRemoved, NextTurn, serverVars, clientVars, indexVars, handlerVars, crawlerVars, bounds
<1>17. ASSUME AddHistoricEvents PROVE NoneRedacted'
  <2>1. /\ UNCHANGED <<timeline, token, seen, reloads, live, overtaken>> /\ (faults' = 0 => faults = 0)
        /\ indexed' \subseteq indexed \cup Filtered
    BY <1>17, <1>f DEF AddHistoricEvents, clientVars, serverVars, Filtered
  <2>2. crawler' # "delete"
    BY <1>17 DEF AddHistoricEvents, NextTurn
  <2> QED BY <1>u, <2>1, <2>2
<1>18. ASSUME CrawlTrimmed PROVE NoneRedacted'
  BY <1>18, <1>u, <1>f DEF CrawlTrimmed, NextTurn, serverVars, clientVars, indexVars, handlerVars, crawlerVars, bounds
<1>19. ASSUME Close PROVE NoneRedacted'
  BY <1>19, <1>u, <1>f DEF Close, serverVars, clientVars, indexVars, handlerVars, crawlerVars, bounds
<1>20. ASSUME Reload PROVE NoneRedacted'
  <2>1. reloads' # 0
    BY <1>20, <1>b DEF Reload
  <2> QED BY <2>1 DEF NoneRedacted
<1>22. ASSUME IsEventIndexEmpty PROVE NoneRedacted'
  BY <1>22, <1>u, <1>f DEF IsEventIndexEmpty, serverVars, clientVars, indexVars, crawlerVars
<1>23. ASSUME NEW r \in checking, IsRoomIndexed(r) PROVE NoneRedacted'
  <2>1. /\ UNCHANGED <<timeline, token, seen, indexed, reloads, overtaken, crawler, batch>> /\ (faults' = 0 => faults = 0)
        /\ \A e \in live' : e \in live \/ (e \in Event /\ ~KnownRedacted(e))
    BY <1>23, <1>f DEF IsRoomIndexed, serverVars, clientVars, crawlerVars
  <2> QED BY <1>u, <2>1
<1>24. ASSUME FilterEvents PROVE NoneRedacted'
  <2>1. /\ UNCHANGED <<timeline, token, seen, indexed, live, reloads, overtaken>>
        /\ faults' = 0 => faults = 0
    BY <1>24, <1>b DEF FilterEvents, serverVars, clientVars, indexVars
  <2>2. \A e \in batch'.events : e \in Event /\ ~KnownRedacted(e)
    <3>1. batch \in [events : SUBSET Event, gone : SUBSET Event, next : Checkpoint \cup {None}]
      BY DEF TypeOK, Fetched
    <3>2. batch'.events \subseteq Valid(batch.events)
      BY <1>24, <3>1 DEF FilterEvents, Valid
    <3> QED BY <1>b, <3>2 DEF Valid
  <2> SUFFICES ASSUME faults' = 0, reloads' = 0, NEW e \in Searched', Loaded(e)' PROVE ~LiveRedaction(e)'
    BY DEF NoneRedacted
  <2>3. Loaded(e) /\ (LiveRedaction(e)' => LiveRedaction(e))
    BY <2>1 DEF Loaded, LiveRedaction
  <2>4. CASE e \in batch'.events
    BY <1>k, <2>2, <2>3, <2>4
  <2>5. CASE e \in (indexed \cup live) \ overtaken
    BY <2>1, <2>3, <2>5 DEF NoneRedacted, Searched
  <2> QED BY <2>1, <2>4, <2>5 DEF Searched, Filtered
<1>25. ASSUME NEW e \in batch.gone, DeleteRedacted(e) PROVE NoneRedacted'
  <2>1. /\ UNCHANGED <<timeline, token, seen, reloads, overtaken>> /\ (faults' = 0 => faults = 0)
        /\ indexed' \subseteq indexed /\ live' \subseteq live
    BY <1>25, <1>f DEF DeleteRedacted, clientVars, serverVars
  <2>2. [batch EXCEPT !.gone = @ \ {e}].events = batch.events
    BY DEF TypeOK, Fetched
  <2>3. crawler' # "delete" \/ (crawler = "delete" /\ batch'.events = batch.events)
    BY <1>25, <2>2 DEF DeleteRedacted, NextTurn
  <2> QED BY <1>u, <2>1, <2>3
<1>21. CASE UNCHANGED vars
  BY <1>21, <1>u, <1>f DEF vars, serverVars, clientVars, indexVars, handlerVars, crawlerVars, bounds
<1> QED
  BY <1>1, <1>2, <1>3, <1>4, <1>5, <1>6, <1>7, <1>8, <1>9, <1>10, <1>11, <1>12, <1>13, <1>14, <1>15, <1>16, <1>17, <1>18, <1>19, <1>20, <1>21, <1>22, <1>23,
     <1>24, <1>25
  DEF Next, Sync, Handlers, CrawlerFunc

(* Until a call fails or the page is reloaded, redactions of what the      *)
(* client has loaded reach the index, in every order of handlers, commits  *)
(* and steps of the crawler; the only ones that do not are those that come *)
(* after the crawler has filtered its batch and before it has added it.    *)
THEOREM RedactionReachesIndex == Spec => []LoadedRedacted
<1>1. Init => NoneRedacted
  BY DEF Init, NoneRedacted, Searched, Filtered
<1>2. Basis /\ NoneRedacted /\ [Next]_vars => NoneRedacted'
  BY RedactedStep DEF Basis
<1>3. NoneRedacted => LoadedRedacted
  BY DEF NoneRedacted, Searched, LoadedRedacted
<1> QED BY <1>1, <1>2, <1>3, BasisHolds, PTL DEF Spec

(* Faults are counted, so what is undisturbed was so before. *)
LEMMA FaultsCounted ==
    ASSUME TypeOK, [Next]_vars
    PROVE  (faults' = faults \/ Fault) /\ (faults' = 0 => faults = 0)
<1>1. CASE FilterEvents
  BY <1>1, Bounded DEF FilterEvents, Fault
<1>2. CASE ~FilterEvents
  <2>1. faults' = faults \/ Fault
    BY <1>2 DEF Next, Sync, Handlers, CrawlerFunc, vars, bounds, ServerEvent, LoadCheckpoints, CommitLiveEvents, SaveSync,
     FirstSync, IsEventIndexEmpty, OnRoomTimeline, OnTimelineReset, OnRoomStateEvent, IsRoomIndexed, StartCrawler, AddLiveEvent, AddRoomCheckpoint,
     AddInitialCheckpoint, TakeCheckpoint, MessagesResponse, MessagesError, CheckpointRemoved, DeleteRedacted,
     AddHistoricEvents, CrawlTrimmed, Close, Reload
  <2> QED BY <2>1, Bounded DEF Fault
<1> QED BY <1>1, <1>2

LEMMA StillUndisturbed ==
    ASSUME TypeOK, [Next]_vars, Undisturbed'
    PROVE  Undisturbed /\ (Fault => phase = "closed")
<1>1. faults' = faults \/ Fault
  BY FaultsCounted
<1>2. scenario' = scenario /\ faults \in Nat
  BY SameScenario, Bounded
<1> QED BY <1>1, <1>2 DEF Fault, Undisturbed

LEMMA KeptStep ==
    ASSUME TypeOK, Order, Placed, Loop, Fresh, Kept, [Next]_vars
    PROVE  Kept'
<1>typed. /\ stored \subseteq Checkpoint /\ seeds \subseteq Checkpoint /\ adding \subseteq Checkpoint
          /\ crawlerCheckpoints \in Seq(Checkpoint) /\ None \notin Checkpoint
          /\ batch.next \in Checkpoint \cup {None} /\ currentCheckpoint \in Checkpoint \cup {None}
  BY Bounded DEF TypeOK, Fetched
<1> SUFFICES ASSUME Undisturbed' PROVE (Apart /\ Tidy /\ (setup \in {"asking", "seeding"} => phase = "syncing") /\ \A q \in Room : 1 <= token[q])'
  BY DEF Kept
<1>kept. Undisturbed /\ Apart /\ Tidy /\ (setup \in {"asking", "seeding"} => phase = "syncing") /\ (\A q \in Room : 1 <= token[q]) /\ (Fault => phase = "closed")
  BY StillUndisturbed DEF Kept
<1>i. \A c : Same(c, c)
  BY DEF Same
<1>s. \A c, d, e : Same(c, d) /\ Same(d, e) => Same(c, e)
  BY DEF Same
<1>fewer. stored' \cup seeds' \subseteq stored \cup seeds => Apart'
  BY <1>kept DEF Apart, Same
<1>single. \A c : Single(c)
  BY <1>kept DEF Single, Undisturbed
<1>u. UNCHANGED <<stored, crawlerCheckpoints, currentCheckpoint, crawler>> /\ batch'.next = batch.next /\ (phase' # "closed" => phase # "closed") => Tidy'
  BY <1>kept DEF Tidy, Queue
(* The first sync is handled before anything closes. *)
<1>seed. setup' \in {"asking", "seeding"} => phase' = "syncing"
  <2>1. (setup' \in {"asking", "seeding"} => setup \in {"asking", "seeding"} \/ phase' = "syncing") /\ (phase' = phase \/ phase # "syncing" \/ setup \notin {"asking", "seeding"} \/ setup' \notin {"asking", "seeding"})
    BY <1>kept DEF Next, Sync, Handlers, CrawlerFunc, vars, bounds, handlerVars, Undisturbed, ServerEvent, LoadCheckpoints, CommitLiveEvents, SaveSync,
     FirstSync, IsEventIndexEmpty, OnRoomTimeline, OnTimelineReset, OnRoomStateEvent, IsRoomIndexed, StartCrawler, AddLiveEvent, AddRoomCheckpoint,
     AddInitialCheckpoint, TakeCheckpoint, MessagesResponse, MessagesError, CheckpointRemoved, FilterEvents, DeleteRedacted,
     AddHistoricEvents, CrawlTrimmed, Close, Reload
  <2>2. setup \in {"asking", "seeding"} => phase = "syncing"
    BY <1>kept
  <2> QED BY <2>1, <2>2, Zenon
<1>1. ASSUME NEW r \in Room, ServerEvent(r) PROVE (Apart /\ Tidy /\ (setup \in {"asking", "seeding"} => phase = "syncing") /\ \A q \in Room : 1 <= token[q])'
  <2>1. /\ UNCHANGED <<stored, seeds, crawlerCheckpoints, currentCheckpoint, batch, crawler, token>>
        /\ phase' # "closed" => phase # "closed"
    BY <1>1 DEF ServerEvent, serverVars, clientVars, indexVars, handlerVars, crawlerVars, bounds
  <2> QED BY <1>seed, <1>fewer, <1>u, <1>kept, <2>1
<1>2. ASSUME LoadCheckpoints PROVE (Apart /\ Tidy /\ (setup \in {"asking", "seeding"} => phase = "syncing") /\ \A q \in Room : 1 <= token[q])'
  <2>1. /\ crawlerCheckpoints' \in SetToSeqs(stored) /\ phase = "down" /\ crawler' = "off"
        /\ UNCHANGED <<stored, seeds, crawler, token>>
    BY <1>2 DEF LoadCheckpoints, indexVars, handlerVars, clientVars, Loop
  <2>2. ToSet(crawlerCheckpoints') \subseteq stored /\ Once(crawlerCheckpoints')
    BY <2>1, Ordered DEF Loop
  <2>3. Tidy'
    BY <2>1, <2>2 DEF Tidy, Queue
  <2> QED BY <1>seed, <1>fewer, <1>kept, <2>1, <2>3
<1>3. ASSUME CommitLiveEvents PROVE (Apart /\ Tidy /\ (setup \in {"asking", "seeding"} => phase = "syncing") /\ \A q \in Room : 1 <= token[q])'
  <2>1. /\ UNCHANGED <<stored, seeds, crawlerCheckpoints, currentCheckpoint, batch, crawler, token>>
        /\ phase' # "closed" => phase # "closed"
    BY <1>3 DEF CommitLiveEvents, serverVars, clientVars, indexVars, handlerVars, crawlerVars, bounds
  <2> QED BY <1>seed, <1>fewer, <1>u, <1>kept, <2>1
<1>4. ASSUME SaveSync PROVE (Apart /\ Tidy /\ (setup \in {"asking", "seeding"} => phase = "syncing") /\ \A q \in Room : 1 <= token[q])'
  <2>1. /\ UNCHANGED <<stored, seeds, crawlerCheckpoints, currentCheckpoint, batch, crawler, token>>
        /\ phase' # "closed" => phase # "closed"
    BY <1>4 DEF SaveSync, serverVars, clientVars, indexVars, handlerVars, crawlerVars, bounds
  <2> QED BY <1>seed, <1>fewer, <1>u, <1>kept, <2>1
<1>5. ASSUME FirstSync PROVE (Apart /\ Tidy /\ (setup \in {"asking", "seeding"} => phase = "syncing") /\ \A q \in Room : 1 <= token[q])'
  <2>1. /\ UNCHANGED <<stored, seeds, crawlerCheckpoints, currentCheckpoint, batch, crawler, token>>
        /\ phase # "closed"
    BY <1>5 DEF FirstSync, clientVars, indexVars, crawlerVars
  <2> QED BY <1>seed, <1>fewer, <1>u, <1>kept, <2>1
<1>6. ASSUME NEW r \in Room, OnRoomTimeline(r) PROVE (Apart /\ Tidy /\ (setup \in {"asking", "seeding"} => phase = "syncing") /\ \A q \in Room : 1 <= token[q])'
  <2>1. /\ UNCHANGED <<stored, seeds, crawlerCheckpoints, currentCheckpoint, batch, crawler, token>>
        /\ phase' # "closed" => phase # "closed"
    BY <1>6 DEF OnRoomTimeline, serverVars, clientVars, indexVars, handlerVars, crawlerVars, bounds
  <2> QED BY <1>seed, <1>fewer, <1>u, <1>kept, <2>1
<1>7. ASSUME NEW r \in Room, OnTimelineReset(r) PROVE (Apart /\ Tidy /\ (setup \in {"asking", "seeding"} => phase = "syncing") /\ \A q \in Room : 1 <= token[q])'
  <2>1. UNCHANGED <<stored, seeds, crawlerCheckpoints, currentCheckpoint, batch, crawler, phase>>
    BY <1>7 DEF OnTimelineReset, indexVars, crawlerVars
  <2>2. PICK t \in (seen[r] + 1) .. (Len(timeline[r]) - 1) : token' = [token EXCEPT ![r] = t]
    BY <1>7 DEF OnTimelineReset
  <2>3. 1 <= t
    BY Bounded
  <2>4. \A q \in Room : 1 <= token'[q]
    BY <1>kept, <2>2, <2>3 DEF TypeOK
  <2> QED BY <1>seed, <1>fewer, <1>u, <2>1, <2>4
<1>8. ASSUME NEW r \in Room, OnRoomStateEvent(r) PROVE (Apart /\ Tidy /\ (setup \in {"asking", "seeding"} => phase = "syncing") /\ \A q \in Room : 1 <= token[q])'
  <2>1. /\ UNCHANGED <<stored, seeds, crawlerCheckpoints, currentCheckpoint, batch, crawler, token>>
        /\ phase' # "closed" => phase # "closed"
    BY <1>8 DEF OnRoomStateEvent, serverVars, clientVars, indexVars, handlerVars, crawlerVars, bounds
  <2> QED BY <1>seed, <1>fewer, <1>u, <1>kept, <2>1
<1>9. ASSUME StartCrawler PROVE (Apart /\ Tidy /\ (setup \in {"asking", "seeding"} => phase = "syncing") /\ \A q \in Room : 1 <= token[q])'
  <2>1. /\ UNCHANGED <<stored, seeds, crawlerCheckpoints, batch, phase, token>>
        /\ crawler' = "sleep" \/ UNCHANGED <<crawler, currentCheckpoint>>
    BY <1>9 DEF StartCrawler, indexVars, clientVars
  <2>2. Tidy'
    BY <1>kept, <2>1 DEF Tidy, Queue
  <2> QED BY <1>seed, <1>fewer, <1>kept, <2>1, <2>2
<1>10. ASSUME NEW e \in decrypting, AddLiveEvent(e) PROVE (Apart /\ Tidy /\ (setup \in {"asking", "seeding"} => phase = "syncing") /\ \A q \in Room : 1 <= token[q])'
  <2>1. /\ UNCHANGED <<stored, seeds, crawlerCheckpoints, currentCheckpoint, batch, crawler, token>>
        /\ phase' # "closed" => phase # "closed"
    BY <1>10 DEF AddLiveEvent, serverVars, clientVars, indexVars, handlerVars, crawlerVars, bounds
  <2> QED BY <1>seed, <1>fewer, <1>u, <1>kept, <2>1
<1>11. ASSUME NEW c \in adding, AddRoomCheckpoint(c) PROVE (Apart /\ Tidy /\ (setup \in {"asking", "seeding"} => phase = "syncing") /\ \A q \in Room : 1 <= token[q])'
  <2>1. /\ c \in Checkpoint /\ c \in adding \cup seeds /\ \A d \in Known : ~Same(c, d)
    BY <1>typed, <1>single DEF Fresh
  <2>2. UNCHANGED <<currentCheckpoint, batch, crawler, phase, token>>
    BY <1>11 DEF AddRoomCheckpoint, clientVars
  <2>3. \/ stored' = stored \cup {c} /\ crawlerCheckpoints' = Append(crawlerCheckpoints, c) /\ seeds' \subseteq seeds
        \/ UNCHANGED stored /\ phase = "closed" /\ seeds' \subseteq seeds
    BY <1>11, <1>kept DEF AddRoomCheckpoint
  <2>4. Apart'
    <3>1. c.dir = "b" /\ \A d \in stored \cup seeds : ~Same(c, d) /\ ~Same(d, c)
      <4>1. c \in adding /\ c \notin seeds /\ c.dir = "b"
        BY <1>single DEF Fresh, OfGap
      <4>2. ASSUME NEW d \in seeds PROVE ~Same(c, d)
        <5>1. c.from = c.token /\ d.from = d.token /\ d \in Checkpoint /\ c # d
          BY <1>typed, <4>1 DEF Fresh
        <5>2. /\ c = [room |-> c.room, from |-> c.from, page |-> c.page, token |-> c.token, full |-> c.full, dir |-> c.dir]
              /\ d = [room |-> d.room, from |-> d.from, page |-> d.page, token |-> d.token, full |-> d.full, dir |-> d.dir]
          BY <2>1, <5>1 DEF Checkpoint
        <5> QED BY <5>1, <5>2 DEF Same
      <4>3. \A d \in stored : ~Same(c, d)
        BY <2>1 DEF Known
      <4>4. \A d \in stored \cup seeds : Same(d, c) => Same(c, d)
        BY DEF Same
      <4> QED BY <4>1, <4>2, <4>3, <4>4
    <3>2. stored' \cup seeds' \subseteq stored \cup seeds \cup {c}
      BY <2>3
    <3> QED BY <1>kept, <3>1, <3>2 DEF Apart, Same
  <2>5. c \notin Queue /\ c # currentCheckpoint /\ c # batch.next
    BY <1>i, <1>typed, <2>1 DEF Known
  <2>6. ToSet(Append(crawlerCheckpoints, c)) = Queue \cup {c} /\ (Once(crawlerCheckpoints) => Once(Append(crawlerCheckpoints, c)))
    BY <1>typed, <2>1, <2>5, Queued DEF Queue
  <2>7. Tidy'
    <3>1. CASE phase = "closed"
      BY <2>2, <3>1 DEF Tidy
    <3>2. CASE phase # "closed"
      <4>1. stored' = stored \cup {c} /\ crawlerCheckpoints' = Append(crawlerCheckpoints, c)
        BY <2>3, <3>2
      <4>2. Queue' = Queue \cup {c} /\ (Once(crawlerCheckpoints) => Once(crawlerCheckpoints'))
        BY <2>6, <4>1 DEF Queue
      <4> QED BY <1>kept, <2>2, <2>5, <3>2, <4>1, <4>2 DEF Tidy
    <3> QED BY <3>1, <3>2
  <2> QED BY <1>seed, <1>kept, <2>2, <2>4, <2>7
<1>12. ASSUME NEW c \in seeds, AddInitialCheckpoint(c) PROVE (Apart /\ Tidy /\ (setup \in {"asking", "seeding"} => phase = "syncing") /\ \A q \in Room : 1 <= token[q])'
  <2>1. /\ c \in Checkpoint /\ c \in adding \cup seeds /\ \A d \in Known : ~Same(c, d)
    BY <1>typed, <1>single DEF Fresh
  <2>2. UNCHANGED <<currentCheckpoint, batch, crawler, phase, token>>
    BY <1>12 DEF AddInitialCheckpoint, clientVars
  <2>3. \/ stored' = stored \cup {c} /\ crawlerCheckpoints' = Append(crawlerCheckpoints, c) /\ seeds' \subseteq seeds
        \/ UNCHANGED stored /\ phase = "closed" /\ seeds' \subseteq seeds
    BY <1>12, <1>kept DEF AddInitialCheckpoint
  <2>4. Apart'
    BY <1>fewer, <2>3
  <2>5. c \notin Queue /\ c # currentCheckpoint /\ c # batch.next
    BY <1>i, <1>typed, <2>1 DEF Known
  <2>6. ToSet(Append(crawlerCheckpoints, c)) = Queue \cup {c} /\ (Once(crawlerCheckpoints) => Once(Append(crawlerCheckpoints, c)))
    BY <1>typed, <2>1, <2>5, Queued DEF Queue
  <2>7. Tidy'
    <3>1. CASE phase = "closed"
      BY <2>2, <3>1 DEF Tidy
    <3>2. CASE phase # "closed"
      <4>1. stored' = stored \cup {c} /\ crawlerCheckpoints' = Append(crawlerCheckpoints, c)
        BY <2>3, <3>2
      <4>2. Queue' = Queue \cup {c} /\ (Once(crawlerCheckpoints) => Once(crawlerCheckpoints'))
        BY <2>6, <4>1 DEF Queue
      <4> QED BY <1>kept, <2>2, <2>5, <3>2, <4>1, <4>2 DEF Tidy
    <3> QED BY <3>1, <3>2
  <2> QED BY <1>seed, <1>kept, <2>2, <2>4, <2>7
<1>13. ASSUME TakeCheckpoint PROVE (Apart /\ Tidy /\ (setup \in {"asking", "seeding"} => phase = "syncing") /\ \A q \in Room : 1 <= token[q])'
  <2>1. UNCHANGED <<stored, seeds, batch, phase, token>> /\ crawler = "sleep"
    BY <1>13 DEF TakeCheckpoint, indexVars, handlerVars, clientVars
  <2>2. Tidy'
    <3>1. CASE crawlerCheckpoints # <<>> /\ ~cancelled
      <4>1. /\ currentCheckpoint' = Head(crawlerCheckpoints) /\ crawlerCheckpoints' = Tail(crawlerCheckpoints)
            /\ crawler' = "fetch"
        BY <1>13, <3>1 DEF TakeCheckpoint
      <4>2. /\ Queue = ToSet(Tail(crawlerCheckpoints)) \cup {Head(crawlerCheckpoints)}
            /\ Once(crawlerCheckpoints) => /\ Once(Tail(crawlerCheckpoints))
                                           /\ Head(crawlerCheckpoints) \notin ToSet(Tail(crawlerCheckpoints))
        BY <1>typed, <3>1, Taken DEF Queue
      <4> QED BY <1>kept, <2>1, <4>1, <4>2 DEF Tidy, Queue
    <3>2. CASE ~(crawlerCheckpoints # <<>> /\ ~cancelled)
      <4>1. UNCHANGED crawlerCheckpoints /\ crawler' \in {"off", "sleep"}
        BY <1>13, <3>2 DEF TakeCheckpoint
      <4> QED BY <1>kept, <2>1, <4>1 DEF Tidy, Queue
    <3> QED BY <3>1, <3>2
  <2> QED BY <1>seed, <1>fewer, <1>kept, <2>1, <2>2
<1>14. ASSUME MessagesResponse PROVE (Apart /\ Tidy /\ (setup \in {"asking", "seeding"} => phase = "syncing") /\ \A q \in Room : 1 <= token[q])'
  <2>1. /\ UNCHANGED <<stored, seeds, currentCheckpoint, phase, token>> /\ crawler = "fetch"
        /\ cancelled \/ (crawler' \in {"remove", "decrypt"} /\ UNCHANGED crawlerCheckpoints)
    BY <1>14 DEF MessagesResponse, indexVars, handlerVars, clientVars
  <2>2. Tidy'
    BY <1>kept, <2>1 DEF Tidy, Queue, Loop
  <2> QED BY <1>seed, <1>fewer, <1>kept, <2>1, <2>2
<1>15. ASSUME MessagesError PROVE (Apart /\ Tidy /\ (setup \in {"asking", "seeding"} => phase = "syncing") /\ \A q \in Room : 1 <= token[q])'
  <2>1. UNCHANGED <<stored, seeds, phase, token>> /\ (phase = "closed" \/ scenario.forbidden)
    BY <1>15, <1>kept DEF MessagesError, indexVars, handlerVars, clientVars
  <2>2. Tidy'
    BY <1>kept, <2>1 DEF Tidy, Undisturbed
  <2> QED BY <1>seed, <1>fewer, <1>kept, <2>1, <2>2
<1>16. ASSUME CheckpointRemoved PROVE (Apart /\ Tidy /\ (setup \in {"asking", "seeding"} => phase = "syncing") /\ \A q \in Room : 1 <= token[q])'
  <2>1. /\ UNCHANGED <<seeds, crawlerCheckpoints, phase, token>> /\ crawler = "remove" /\ crawler' \in {"off", "sleep"}
        /\ stored' \subseteq stored /\ (phase = "closed" \/ stored' = stored \ {currentCheckpoint})
    BY <1>16, <1>kept DEF CheckpointRemoved, NextTurn, handlerVars, clientVars
  <2>2. Tidy'
    BY <1>kept, <2>1 DEF Tidy, Queue
  <2> QED BY <1>seed, <1>fewer, <1>kept, <2>1, <2>2
<1>17. ASSUME AddHistoricEvents PROVE (Apart /\ Tidy /\ (setup \in {"asking", "seeding"} => phase = "syncing") /\ \A q \in Room : 1 <= token[q])'
  <2>1. UNCHANGED <<seeds, phase, token>> /\ crawler = "delete"
    BY <1>17 DEF AddHistoricEvents, handlerVars, clientVars
  <2>2. CASE phase = "closed"
    <3>1. UNCHANGED stored
      BY <1>17, <2>2 DEF AddHistoricEvents
    <3> QED BY <1>seed, <1>fewer, <1>kept, <2>1, <2>2, <3>1 DEF Tidy
  <2>3. CASE phase # "closed"
    <3>1. /\ stored' = (stored \ {currentCheckpoint}) \cup ({batch.next} \ {None})
          /\ \/ crawler' \in {"off", "sleep"} /\ UNCHANGED crawlerCheckpoints
             \/ crawler' = "trim" /\ UNCHANGED <<crawlerCheckpoints, batch>> /\ batch.next # None
             \/ crawler' \in {"off", "sleep"} /\ batch.next # None /\ crawlerCheckpoints' = Append(crawlerCheckpoints, batch.next)
      BY <1>17, <1>kept, <2>3 DEF AddHistoricEvents, NextTurn, Requeue
    <3>2. currentCheckpoint \in stored \ Queue /\ Queue \subseteq stored /\ Once(crawlerCheckpoints)
      BY <1>kept, <2>1, <2>3 DEF Tidy
    <3>3. batch.next # None => Same(batch.next, currentCheckpoint) /\ batch.next \in Checkpoint
      BY <1>typed DEF Loop
    <3>4. batch.next # None => \A d \in stored \cup seeds :
             Same(batch.next, d) \/ Same(d, batch.next) \/ (d.room = batch.next.room /\ d.dir = "f" /\ batch.next.dir = "f")
             => d = currentCheckpoint
      BY <1>kept, <3>2, <3>3 DEF Apart, Same
    <3>5. batch.next # None => batch.next \notin Queue
      BY <1>i, <3>2, <3>4
    <3>6. Apart'
      <4>n. currentCheckpoint \notin seeds
        <5>1. currentCheckpoint \in Known
          BY <3>2 DEF Known
        <5> QED BY <1>i, <1>single, <5>1 DEF Fresh
      <4>1. stored' \cup seeds' \subseteq ((stored \cup seeds) \ {currentCheckpoint}) \cup ({batch.next} \ {None})
        BY <2>1, <3>1, <4>n
      <4> SUFFICES ASSUME NEW c \in stored' \cup seeds', NEW d \in stored' \cup seeds',
                          Same(c, d) \/ (c.room = d.room /\ c.dir = "f" /\ d.dir = "f")
                   PROVE  c = d
        BY DEF Apart, Same
      <4>5. batch.next \in stored' \cup seeds' => batch.next # None
        BY <1>typed, <4>1
      <4>6. \A x \in stored' \cup seeds' : x = batch.next \/ x \in (stored \cup seeds) \ {currentCheckpoint}
        BY <4>1
      <4>2. CASE c = batch.next /\ d # batch.next
        BY <3>4, <4>5, <4>6, <4>2
      <4>3. CASE d = batch.next /\ c # batch.next
        BY <3>4, <4>5, <4>6, <4>3
      <4>4. CASE c # batch.next /\ d # batch.next
        BY <1>kept, <4>1, <4>4 DEF Apart
      <4> QED BY <4>2, <4>3, <4>4
    <3>7. Tidy'
      <4>1. CASE crawler' \in {"off", "sleep"} /\ UNCHANGED crawlerCheckpoints
        BY <3>1, <3>2, <4>1 DEF Tidy, Queue
      <4>2. CASE crawler' = "trim" /\ UNCHANGED <<crawlerCheckpoints, batch>> /\ batch.next # None
        BY <3>1, <3>2, <3>5, <4>2 DEF Tidy, Queue
      <4>3. CASE crawler' \in {"off", "sleep"} /\ batch.next # None /\ crawlerCheckpoints' = Append(crawlerCheckpoints, batch.next)
        <5>1. ToSet(crawlerCheckpoints') = Queue \cup {batch.next} /\ Once(crawlerCheckpoints')
          BY <1>typed, <3>2, <3>3, <3>5, <4>3, Queued DEF Queue
        <5> QED BY <3>1, <3>2, <4>3, <5>1 DEF Tidy, Queue
      <4> QED BY <3>1, <4>1, <4>2, <4>3
    <3> QED BY <1>seed, <1>kept, <2>1, <3>6, <3>7
  <2> QED BY <2>2, <2>3
<1>18. ASSUME CrawlTrimmed PROVE (Apart /\ Tidy /\ (setup \in {"asking", "seeding"} => phase = "syncing") /\ \A q \in Room : 1 <= token[q])'
  <2>1. /\ UNCHANGED <<seeds, phase, token>> /\ crawler = "trim" /\ crawler' \in {"off", "sleep"} /\ stored' \subseteq stored
        /\ phase = "closed" \/ (stored' = stored \ {batch.next} /\ UNCHANGED crawlerCheckpoints)
    BY <1>18, <1>kept DEF CrawlTrimmed, NextTurn, handlerVars, clientVars
  <2>2. Tidy'
    BY <1>kept, <2>1 DEF Tidy, Queue
  <2> QED BY <1>seed, <1>fewer, <1>kept, <2>1, <2>2
<1>19. ASSUME Close PROVE (Apart /\ Tidy /\ (setup \in {"asking", "seeding"} => phase = "syncing") /\ \A q \in Room : 1 <= token[q])'
  <2>1. UNCHANGED <<stored, seeds, token>> /\ phase' = "closed"
    BY <1>19 DEF Close, indexVars, handlerVars, clientVars
  <2> QED BY <1>seed, <1>fewer, <1>kept, <2>1 DEF Tidy
<1>20. ASSUME Reload PROVE (Apart /\ Tidy /\ (setup \in {"asking", "seeding"} => phase = "syncing") /\ \A q \in Room : 1 <= token[q])'
  <2>1. /\ seeds' = {} /\ crawlerCheckpoints' = <<>> /\ crawler' = "off" /\ UNCHANGED <<stored, scenario>>
        /\ \A r \in Room : token'[r] \in LiveTokens(saved[r])
    BY <1>20 DEF Reload
  <2>2. Queue' = {} /\ Once(crawlerCheckpoints')
    BY <2>1 DEF Queue, ToSet, Once
  <2>3. Tidy'
    BY <2>1, <2>2 DEF Tidy
  <2>4. \A r \in Room : 1 <= token'[r]
    BY <1>kept, <2>1, Bounded DEF Undisturbed, LiveTokens
  <2> QED BY <1>seed, <1>fewer, <2>1, <2>3, <2>4
<1>22. ASSUME IsEventIndexEmpty PROVE (Apart /\ Tidy /\ (setup \in {"asking", "seeding"} => phase = "syncing") /\ \A q \in Room : 1 <= token[q])'
  <2>1. /\ UNCHANGED <<stored, crawlerCheckpoints, currentCheckpoint, batch, crawler, token>>
        /\ phase' = phase /\ seeds = {}
        /\ seeds' = {} \/ (seeds' = InitialCheckpoints /\ stored = {})
    BY <1>22 DEF IsEventIndexEmpty, indexVars, crawlerVars, clientVars, Loop
  <2>2. ASSUME seeds' = InitialCheckpoints, stored = {} PROVE Apart'
    <3>1. \A c \in InitialCheckpoints : \E r \in Room :
             c \in {NewCheckpoint(r, token[r], TRUE, "b"), NewCheckpoint(r, token[r], FALSE, "f")}
      BY DEF InitialCheckpoints, TypeOK
    <3> SUFFICES ASSUME NEW c \in InitialCheckpoints, NEW d \in InitialCheckpoints, c.room = d.room, c.dir = d.dir
                 PROVE  c = d
      BY <2>1, <2>2 DEF Apart, Same
    <3>2. PICK r \in Room : c \in {NewCheckpoint(r, token[r], TRUE, "b"), NewCheckpoint(r, token[r], FALSE, "f")}
      BY <3>1
    <3>3. PICK q \in Room : d \in {NewCheckpoint(q, token[q], TRUE, "b"), NewCheckpoint(q, token[q], FALSE, "f")}
      BY <3>1
    <3>4. r = q
      BY <3>2, <3>3 DEF NewCheckpoint
    <3>5. /\ NewCheckpoint(r, token[r], TRUE, "b").dir = "b" /\ NewCheckpoint(r, token[r], FALSE, "f").dir = "f"
      BY DEF NewCheckpoint
    <3> QED BY <3>2, <3>3, <3>4, <3>5
  <2>3. Apart'
    <3>1. CASE seeds' = {}
      BY <1>fewer, <2>1, <3>1
    <3> QED BY <2>1, <2>2, <3>1
  <2> QED BY <1>seed, <1>u, <1>kept, <2>1, <2>3
<1>23. ASSUME NEW r \in checking, IsRoomIndexed(r) PROVE (Apart /\ Tidy /\ (setup \in {"asking", "seeding"} => phase = "syncing") /\ \A q \in Room : 1 <= token[q])'
  BY <1>kept DEF Loop, Undisturbed
<1>24. ASSUME FilterEvents PROVE (Apart /\ Tidy /\ (setup \in {"asking", "seeding"} => phase = "syncing") /\ \A q \in Room : 1 <= token[q])'
  <2>1. /\ UNCHANGED <<stored, seeds, crawlerCheckpoints, currentCheckpoint, phase, token>>
        /\ crawler = "decrypt" /\ crawler' = "delete"
    BY <1>24 DEF FilterEvents, indexVars, handlerVars, clientVars
  <2>2. Tidy'
    BY <1>kept, <2>1 DEF Tidy, Queue
  <2> QED BY <1>seed, <1>fewer, <1>kept, <2>1, <2>2
<1>25. ASSUME NEW e \in batch.gone, DeleteRedacted(e) PROVE (Apart /\ Tidy /\ (setup \in {"asking", "seeding"} => phase = "syncing") /\ \A q \in Room : 1 <= token[q])'
  <2>1. UNCHANGED <<stored, seeds, phase, token>> /\ crawler = "delete"
    BY <1>25 DEF DeleteRedacted, handlerVars, clientVars
  <2>2. [batch EXCEPT !.gone = @ \ {e}].next = batch.next
    BY DEF TypeOK, Fetched
  <2>3. phase = "closed" \/ (UNCHANGED <<crawlerCheckpoints, currentCheckpoint, crawler>> /\ batch'.next = batch.next)
    BY <1>25, <1>kept, <2>2 DEF DeleteRedacted
  <2>4. Tidy'
    <3>1. CASE phase = "closed"
      BY <2>1, <3>1 DEF Tidy
    <3> QED BY <1>u, <2>1, <2>3, <3>1
  <2> QED BY <1>seed, <1>fewer, <1>kept, <2>1, <2>4
<1>21. CASE UNCHANGED vars
  <2>1. /\ UNCHANGED <<stored, seeds, crawlerCheckpoints, currentCheckpoint, batch, crawler, token>>
        /\ phase' # "closed" => phase # "closed"
    BY <1>21 DEF vars, serverVars, clientVars, indexVars, handlerVars, crawlerVars, bounds
  <2> QED BY <1>seed, <1>fewer, <1>u, <1>kept, <2>1
<1> QED
  BY <1>1, <1>2, <1>3, <1>4, <1>5, <1>6, <1>7, <1>8, <1>9, <1>10, <1>11, <1>12, <1>13, <1>14, <1>15, <1>16, <1>17, <1>18, <1>19, <1>20, <1>21, <1>22, <1>23,
     <1>24, <1>25
  DEF Next, Sync, Handlers, CrawlerFunc

(* What a /messages response holds. *)
LEMMA Answered ==
    ASSUME TypeOK, NEW c \in Checkpoint
    PROVE  /\ \A e \in Response(c).events : e[1] = c.room /\ e[2] \in Chunk(c) /\ e \in Room \X Nat
           /\ \A x \in Wanted(c.room) : x \in Chunk(c) => <<c.room, x>> \in Response(c).events
           /\ Response(c).next = [c EXCEPT !.token = End(c)]
<1>1. c.room \in Room /\ c.token \in Nat /\ Len(timeline[c.room]) \in Nat
  BY Bounded
<1>2. Chunk(c) \subseteq Nat
  BY <1>1, Bounded DEF Chunk
<1>3. Response(c).events = {e \in {<<c.room, p>> : p \in Chunk(c)} : IsMessage(e) /\ ~Redacted(e, Len(timeline[c.room]))}
  BY DEF Response
<1>4. Response(c).next = [c EXCEPT !.token = End(c)]
  BY DEF Response
<1>5. ASSUME NEW e \in Response(c).events
      PROVE  e[1] = c.room /\ e[2] \in Chunk(c) /\ e \in Room \X Nat
  BY <1>1, <1>2, <1>3
<1>6. ASSUME NEW x \in Wanted(c.room), x \in Chunk(c)
      PROVE  <<c.room, x>> \in Response(c).events
  BY <1>3, <1>6 DEF Wanted
<1> QED BY <1>4, <1>5, <1>6

(* A new event is wanted, unless it is a redaction; then one is no more. *)
LEMMA WantedNext ==
    ASSUME TypeOK, NEW r \in Room, ServerEvent(r)
    PROVE  /\ Wanted(r)' \subseteq Wanted(r) \cup {Len(timeline[r]) + 1}
           /\ \A s \in Room \ {r} : Wanted(s)' = Wanted(s)
<1>1. /\ Len(timeline'[r]) = Len(timeline[r]) + 1 /\ Len(timeline[r]) \in Nat
      /\ \A q \in 1 .. Len(timeline[r]) : timeline'[r][q] = timeline[r][q]
      /\ \A s \in Room \ {r} : timeline'[s] = timeline[s]
  BY Appended, Bounded
<1>2. \A p \in 1 .. Len(timeline[r]) : p \in Wanted(r)' => p \in Wanted(r)
  BY <1>1, SMTT(30) DEF Wanted, IsMessage, Redacted
<1>3. \A p \in Wanted(r)' : p \in 1 .. Len(timeline[r]) \/ p = Len(timeline[r]) + 1
  BY <1>1 DEF Wanted
<1>4. \A s \in Room \ {r} : Wanted(s)' = Wanted(s)
  BY <1>1 DEF Wanted, IsMessage, Redacted
<1> QED BY <1>2, <1>3, <1>4

LEMMA GatheredStep ==
    ASSUME TypeOK, Order, Placed, Loop, Fresh, Gathered, [Next]_vars
    PROVE  Gathered'
<1>typed. currentCheckpoint \in Checkpoint \cup {None} /\ batch.next \in Checkpoint \cup {None} /\ None \notin Checkpoint
  BY Bounded DEF TypeOK, Fetched
<1>off. crawler' \notin {"decrypt", "delete"} => Gathered'
  BY DEF Gathered
<1>zero. faults' = 0 => faults = 0
  BY FaultsCounted
<1>u. UNCHANGED <<timeline, crawler, currentCheckpoint>> /\ batch'.events = batch.events /\ batch'.next = batch.next
      => Gathered'
  BY <1>zero DEF Gathered, Wanted, IsMessage, Redacted
<1>1. ASSUME NEW r \in Room, ServerEvent(r) PROVE Gathered'
  <2>1. UNCHANGED <<crawler, currentCheckpoint, batch>>
    BY <1>1 DEF ServerEvent, crawlerVars
  <2> SUFFICES ASSUME crawler \in {"decrypt", "delete"}, faults = 0 PROVE Gathered'
    BY <1>off, <1>zero, <2>1 DEF Gathered
  <2>2. PICK c : c = currentCheckpoint
    OBVIOUS
  <2>3. c \in Checkpoint /\ c \in Known /\ (batch.next # None => batch.next \in Known /\ batch.next.room = c.room)
    BY <1>typed, <2>2 DEF Loop, Known, Same
  <2>4. c.room \in Room /\ c.token \in Nat /\ c.token <= Len(timeline[c.room]) /\ Len(timeline[c.room]) \in Nat
    BY <2>3, Bounded DEF Fresh
  <2>5. batch.next # None => batch.next.token \in Nat /\ batch.next.token <= Len(timeline[c.room])
    BY <1>typed, <2>3, Bounded DEF Fresh
  <2>6. \A x \in Wanted(c.room)' : x <= Len(timeline[c.room]) => x \in Wanted(c.room)
    <3>1. \A x \in Wanted(r)' : x \in Wanted(r) \/ x = Len(timeline[r]) + 1
      BY <1>1, WantedNext
    <3>2. c.room # r => Wanted(c.room)' = Wanted(c.room)
      BY <1>1, <2>4, WantedNext
    <3> QED BY <2>4, <3>1, <3>2
  <2>7. \A x \in Wanted(c.room)' : x \in Int
    <3>1. Len(timeline'[c.room]) \in Nat
      <4>1. Len(timeline'[r]) = Len(timeline[r]) + 1 /\ \A s \in Room \ {r} : timeline'[s] = timeline[s]
        BY <1>1, Appended
      <4> QED BY <2>4, <4>1, Bounded
    <3> QED BY <2>2, <3>1 DEF Wanted
  <2>8. PICK n : n = IF batch.next = None THEN 0 ELSE batch.next.token
    OBVIOUS
  <2>9. /\ \A e \in batch.events : e[1] = c.room
        /\ c.dir = "b" => /\ n <= c.token
                          /\ \A e \in batch.events : n < e[2] /\ e[2] <= c.token
                          /\ \A x \in Wanted(c.room) : n < x /\ x <= c.token => <<c.room, x>> \in batch.events
        /\ c.dir = "f" /\ batch.next # None =>
                          /\ c.token <= n
                          /\ \A e \in batch.events : c.token < e[2] /\ e[2] <= n
                          /\ \A x \in Wanted(c.room) : c.token < x /\ x <= n => <<c.room, x>> \in batch.events
    BY <2>2, <2>8 DEF Gathered
  <2>10. c.dir = "b" => \A x \in Wanted(c.room)' : n < x /\ x <= c.token => <<c.room, x>> \in batch.events
    <3> SUFFICES ASSUME c.dir = "b", NEW x \in Wanted(c.room)', n < x, x <= c.token PROVE <<c.room, x>> \in batch.events
      OBVIOUS
    <3>1. x <= Len(timeline[c.room])
      BY <2>4, <2>7
    <3> QED BY <2>6, <2>9, <3>1
  <2>11. c.dir = "f" /\ batch.next # None => \A x \in Wanted(c.room)' : c.token < x /\ x <= n => <<c.room, x>> \in batch.events
    <3> SUFFICES ASSUME c.dir = "f", batch.next # None, NEW x \in Wanted(c.room)', c.token < x, x <= n PROVE <<c.room, x>> \in batch.events
      OBVIOUS
    <3>1. x <= Len(timeline[c.room])
      BY <2>4, <2>5, <2>7, <2>8
    <3> QED BY <2>6, <2>9, <3>1
  <2> QED BY <2>1, <2>2, <2>8, <2>9, <2>10, <2>11 DEF Gathered
<1>2. ASSUME LoadCheckpoints PROVE Gathered'
  BY <1>2, <1>u DEF LoadCheckpoints, serverVars, clientVars, indexVars, handlerVars, crawlerVars, bounds
<1>3. ASSUME CommitLiveEvents PROVE Gathered'
  BY <1>3, <1>u DEF CommitLiveEvents, serverVars, clientVars, indexVars, handlerVars, crawlerVars, bounds
<1>4. ASSUME SaveSync PROVE Gathered'
  BY <1>4, <1>u DEF SaveSync, serverVars, clientVars, indexVars, handlerVars, crawlerVars, bounds
<1>5. ASSUME FirstSync PROVE Gathered'
  BY <1>5, <1>u DEF FirstSync, serverVars, clientVars, indexVars, handlerVars, crawlerVars, bounds
<1>6. ASSUME NEW r \in Room, OnRoomTimeline(r) PROVE Gathered'
  BY <1>6, <1>u DEF OnRoomTimeline, serverVars, clientVars, indexVars, handlerVars, crawlerVars, bounds
<1>7. ASSUME NEW r \in Room, OnTimelineReset(r) PROVE Gathered'
  BY <1>7, <1>u DEF OnTimelineReset, serverVars, clientVars, indexVars, handlerVars, crawlerVars, bounds
<1>8. ASSUME NEW r \in Room, OnRoomStateEvent(r) PROVE Gathered'
  BY <1>8, <1>u DEF OnRoomStateEvent, serverVars, clientVars, indexVars, handlerVars, crawlerVars, bounds
<1>9. ASSUME StartCrawler PROVE Gathered'
  <2>1. UNCHANGED <<timeline, batch>> /\ (crawler' = "sleep" \/ UNCHANGED <<crawler, currentCheckpoint>>)
    BY <1>9 DEF StartCrawler, serverVars
  <2> QED BY <1>off, <1>u, <2>1
<1>10. ASSUME NEW e \in decrypting, AddLiveEvent(e) PROVE Gathered'
  BY <1>10, <1>u DEF AddLiveEvent, serverVars, clientVars, indexVars, handlerVars, crawlerVars, bounds
<1>11. ASSUME NEW c \in adding, AddRoomCheckpoint(c) PROVE Gathered'
  BY <1>11, <1>u DEF AddRoomCheckpoint, serverVars, clientVars, indexVars, handlerVars, crawlerVars, bounds
<1>12. ASSUME NEW c \in seeds, AddInitialCheckpoint(c) PROVE Gathered'
  BY <1>12, <1>u DEF AddInitialCheckpoint, serverVars, clientVars, indexVars, handlerVars, crawlerVars, bounds
<1>13. ASSUME TakeCheckpoint PROVE Gathered'
  BY <1>13, <1>off DEF TakeCheckpoint, NextTurn
<1>14. ASSUME MessagesResponse PROVE Gathered'
  <2> SUFFICES ASSUME crawler' = "decrypt" PROVE Gathered'
    BY <1>14, <1>off DEF MessagesResponse
  <2>1. PICK c : c = currentCheckpoint
    OBVIOUS
  <2>2. /\ timeline' = timeline /\ currentCheckpoint' = c /\ crawler = "fetch"
        /\ batch' = Response(c) \/ (AtEnd(c) /\ batch' = [Response(c) EXCEPT !.next = None])
    BY <1>14, <2>1 DEF MessagesResponse, serverVars
  <2>3. c \in Checkpoint /\ c.token <= Len(timeline[c.room])
    <3>1. c \in Checkpoint /\ c \in Known
      BY <1>typed, <2>1, <2>2 DEF Loop, Known
    <3> QED BY <3>1 DEF Fresh
  <2>4. /\ End(c) \in Nat /\ c.token \in Nat
        /\ c.dir = "b" => /\ End(c) <= c.token /\ Chunk(c) = (End(c) + 1) .. c.token
                          /\ AtEnd(c) => End(c) = 0
        /\ c.dir = "f" => c.token <= End(c) /\ Chunk(c) = (c.token + 1) .. End(c)
    BY <2>3, Chunked, Bounded
  <2>5. /\ batch'.events = Response(c).events
        /\ batch'.next = [c EXCEPT !.token = End(c)] \/ (AtEnd(c) /\ batch'.next = None)
    BY <2>2, <2>3, Answered DEF Response
  <2>6. /\ \A e \in batch'.events : e[1] = c.room /\ e[2] \in Chunk(c)
        /\ \A x \in Wanted(c.room) : x \in Chunk(c) => <<c.room, x>> \in batch'.events
    BY <2>3, <2>5, Answered
  <2>7. Wanted(c.room)' = Wanted(c.room) /\ \A x \in Wanted(c.room) : x \in Nat
    BY <2>2, <2>3, Bounded DEF Wanted, IsMessage, Redacted
  <2>8. PICK n : n = IF batch'.next = None THEN 0 ELSE batch'.next.token
    OBVIOUS
  <2>9. (batch'.next # None => n = End(c)) /\ (batch'.next = None => AtEnd(c) /\ n = 0) /\ n \in Nat
    <3> DEFINE d == [c EXCEPT !.token = End(c)]
    <3>1. End(c) \in 0 .. scenario.len
      BY <2>3, Chunked, Bounded
    <3>2. d \in Checkpoint /\ d.token = End(c)
      BY <2>3, <3>1 DEF Checkpoint
    <3>3. d # None
      BY <1>typed, <3>2
    <3>4. batch'.next = d \/ (AtEnd(c) /\ batch'.next = None)
      BY <2>5
    <3> HIDE DEF d
    <3> QED BY <2>4, <2>8, <3>2, <3>3, <3>4
  <2>10. c.dir = "b" => /\ n <= c.token
                        /\ \A e \in batch'.events : n < e[2] /\ e[2] <= c.token
                        /\ \A x \in Wanted(c.room) : n < x /\ x <= c.token => <<c.room, x>> \in batch'.events
    <3> SUFFICES ASSUME c.dir = "b" 
                 PROVE  /\ n <= c.token
                        /\ \A e \in batch'.events : n < e[2] /\ e[2] <= c.token
                        /\ \A x \in Wanted(c.room) : n < x /\ x <= c.token => <<c.room, x>> \in batch'.events
      OBVIOUS
    <3>1. n = End(c) /\ Chunk(c) = (n + 1) .. c.token /\ n <= c.token
      BY <2>4, <2>9
    <3>2. \A x \in Nat : x \in Chunk(c) <=> n < x /\ x <= c.token
      BY <2>4, <2>9, <3>1
    <3>3. \A x \in Chunk(c) : x \in Nat
      BY <2>4, <2>9, <3>1
    <3> QED BY <2>6, <2>7, <3>1, <3>2, <3>3
  <2>11. c.dir = "f" /\ batch'.next # None =>
                        /\ c.token <= n
                        /\ \A e \in batch'.events : c.token < e[2] /\ e[2] <= n
                        /\ \A x \in Wanted(c.room) : c.token < x /\ x <= n => <<c.room, x>> \in batch'.events
    <3> SUFFICES ASSUME c.dir = "f", batch'.next # None 
                 PROVE  /\ c.token <= n
                        /\ \A e \in batch'.events : c.token < e[2] /\ e[2] <= n
                        /\ \A x \in Wanted(c.room) : c.token < x /\ x <= n => <<c.room, x>> \in batch'.events
      OBVIOUS
    <3>1. n = End(c) /\ Chunk(c) = (c.token + 1) .. n /\ c.token <= n
      BY <2>4, <2>9
    <3>2. \A x \in Nat : x \in Chunk(c) <=> c.token < x /\ x <= n
      BY <2>4, <2>9, <3>1
    <3>3. \A x \in Chunk(c) : x \in Nat
      BY <2>4, <2>9, <3>1
    <3> QED BY <2>6, <2>7, <3>1, <3>2, <3>3
  <2> QED BY <2>2, <2>6, <2>7, <2>8, <2>10, <2>11 DEF Gathered
<1>15. ASSUME MessagesError PROVE Gathered'
  BY <1>15, <1>off DEF MessagesError, NextTurn
<1>16. ASSUME CheckpointRemoved PROVE Gathered'
  BY <1>16, <1>off DEF CheckpointRemoved, NextTurn
<1>17. ASSUME AddHistoricEvents PROVE Gathered'
  BY <1>17, <1>off DEF AddHistoricEvents, NextTurn
<1>18. ASSUME CrawlTrimmed PROVE Gathered'
  BY <1>18, <1>off DEF CrawlTrimmed, NextTurn
<1>19. ASSUME Close PROVE Gathered'
  BY <1>19, <1>u DEF Close, serverVars, clientVars, indexVars, handlerVars, crawlerVars, bounds
<1>20. ASSUME Reload PROVE Gathered'
  BY <1>20, <1>off DEF Reload, NextTurn
<1>22. ASSUME IsEventIndexEmpty PROVE Gathered'
  BY <1>22, <1>u DEF IsEventIndexEmpty, serverVars, crawlerVars
<1>23. ASSUME NEW r \in checking, IsRoomIndexed(r) PROVE Gathered'
  BY <1>23, <1>u DEF IsRoomIndexed, serverVars, crawlerVars
(* What the filter drops has been redacted; an event that cannot be        *)
(* decrypted counts as a fault.                                            *)
<1>24. ASSUME FilterEvents PROVE Gathered'
  <2>1. UNCHANGED <<timeline, currentCheckpoint>> /\ crawler = "decrypt"
    BY <1>24 DEF FilterEvents, serverVars
  <2> SUFFICES ASSUME faults' = 0 PROVE Gathered'
    BY DEF Gathered
  <2>2. faults = 0 /\ faults \in Nat
    BY <1>zero, Bounded
  <2>3. batch' = [batch EXCEPT !.events = Valid(batch.events)]
    BY <1>24, <2>2 DEF FilterEvents
  <2>4. batch'.events = Valid(batch.events) /\ batch'.next = batch.next
    BY <2>3 DEF TypeOK, Fetched
  <2>5. \A r \in Room : \A x \in Wanted(r) : ~KnownRedacted(<<r, x>>)
    <3> SUFFICES ASSUME NEW r \in Room, NEW x \in Wanted(r), KnownRedacted(<<r, x>>) PROVE FALSE
      OBVIOUS
    <3>1. PICK q \in 1 .. seen[r] : timeline[r][q] = x
      BY DEF KnownRedacted, Redacted
    <3>2. q \in 1 .. Len(timeline[r])
      BY <3>1, Bounded DEF Order
    <3> QED BY <3>1, <3>2 DEF Wanted, Redacted
  <2>6. currentCheckpoint.room \in Room
    BY <1>typed, <2>1, Bounded DEF Loop
  <2>7. \A x \in Wanted(currentCheckpoint.room) :
           <<currentCheckpoint.room, x>> \in batch.events => <<currentCheckpoint.room, x>> \in batch'.events
    BY <2>4, <2>5, <2>6 DEF Valid
  <2>8. batch'.events \subseteq batch.events
    BY <2>4 DEF Valid
  <2>9. Wanted(currentCheckpoint.room)' = Wanted(currentCheckpoint.room)
    BY <2>1 DEF Wanted, IsMessage, Redacted
  <2> QED BY <2>1, <2>2, <2>4, <2>7, <2>8, <2>9 DEF Gathered
<1>25. ASSUME NEW e \in batch.gone, DeleteRedacted(e) PROVE Gathered'
  <2>1. /\ [batch EXCEPT !.gone = @ \ {e}].events = batch.events
        /\ [batch EXCEPT !.gone = @ \ {e}].next = batch.next
    BY DEF TypeOK, Fetched
  <2>2. crawler' \in {"off", "sleep"} \/ (UNCHANGED <<currentCheckpoint, crawler>> /\ batch' = [batch EXCEPT !.gone = @ \ {e}])
    BY <1>25 DEF DeleteRedacted, NextTurn
  <2>3. UNCHANGED timeline
    BY <1>25 DEF DeleteRedacted, serverVars
  <2> QED BY <1>off, <1>u, <2>1, <2>2, <2>3
<1>21. CASE UNCHANGED vars
  BY <1>21, <1>u DEF vars, serverVars, clientVars, indexVars, handlerVars, crawlerVars, bounds
<1> QED
  BY <1>1, <1>2, <1>3, <1>4, <1>5, <1>6, <1>7, <1>8, <1>9, <1>10, <1>11, <1>12, <1>13, <1>14, <1>15, <1>16, <1>17, <1>18, <1>19, <1>20, <1>21, <1>22, <1>23,
     <1>24, <1>25
  DEF Next, Sync, Handlers, CrawlerFunc

----------------------------------------------------------------------------
(* NOTHING IS LOST.  The parts of events and checkpoints that a room has. *)
LEMMA Measured ==
    ASSUME TypeOK, NEW r \in Room, NEW S \in SUBSET Checkpoint, NEW X \in SUBSET Event
    PROVE  /\ Positions(r, X) \in SUBSET (Nat \ {0}) /\ Wanted(r) \in SUBSET (Nat \ {0})
           /\ Tokens(r, S, "b") \in SUBSET Nat /\ Tokens(r, S, "f") \in SUBSET Nat
           /\ seen[r] \in Nat /\ saved[r] \in Nat
<1>1. Positions(r, X) \in SUBSET (Nat \ {0})
  BY Bounded DEF Positions
<1>2. Wanted(r) \in SUBSET (Nat \ {0})
  BY Bounded DEF Wanted
<1>3. Tokens(r, S, "b") \in SUBSET Nat /\ Tokens(r, S, "f") \in SUBSET Nat
  BY Bounded DEF Tokens
<1> QED BY <1>1, <1>2, <1>3, Bounded

LEMMA Shares ==
    ASSUME NEW r
    PROVE  /\ \A X, Y : Positions(r, X \cup Y) = Positions(r, X) \cup Positions(r, Y)
           /\ \A X, Y : X \subseteq Y => Positions(r, X) \subseteq Positions(r, Y)
           /\ \A S, T, d : Tokens(r, S \cup T, d) = Tokens(r, S, d) \cup Tokens(r, T, d)
           /\ \A S, T, d : S \subseteq T => Tokens(r, S, d) \subseteq Tokens(r, T, d)
<1>1. \A X, Y : X \subseteq Y => Positions(r, X) \subseteq Positions(r, Y)
  BY DEF Positions
<1>2. \A X, Y : Positions(r, X \cup Y) \subseteq Positions(r, X) \cup Positions(r, Y)
  BY DEF Positions
<1>3. \A S, T, d : S \subseteq T => Tokens(r, S, d) \subseteq Tokens(r, T, d)
  BY DEF Tokens
<1>4. \A S, T, d : Tokens(r, S \cup T, d) \subseteq Tokens(r, S, d) \cup Tokens(r, T, d)
  BY DEF Tokens
<1>5. \A X, Y : Positions(r, X) \cup Positions(r, Y) \subseteq Positions(r, X \cup Y)
  BY <1>1
<1>6. \A S, T, d : Tokens(r, S, d) \cup Tokens(r, T, d) \subseteq Tokens(r, S \cup T, d)
  BY <1>3
<1> QED BY <1>1, <1>2, <1>3, <1>4, <1>5, <1>6

(* A room stays covered when events go that need not be kept, when a       *)
(* checkpoint that was on its way is stored, and when the index is closed. *)
LEMMA StaysCovered ==
    ASSUME TypeOK, TypeOK', scenario' = scenario, NEW r \in Room,
           NEW S \in SUBSET Checkpoint, NEW X \in SUBSET Event, NEW S2 \in SUBSET Checkpoint, NEW X2 \in SUBSET X,
           CoveredIn(r, S, X), Wanted(r)' = Wanted(r), seen'[r] = seen[r], saved'[r] = saved[r],
           \A e \in live' \cup decrypting' : e[1] = r => e \in live \cup decrypting,
           \A e \in X \ X2 : e[1] = r => e[2] \notin Wanted(r),
           phase' # "closed" => \A e \in (live \cup decrypting) \ (live' \cup decrypting') :
                                    e[1] = r => e[2] \notin Wanted(r),
           S \subseteq S2, \A c \in S2 \cup adding' : c.room = r => c \in S \cup adding, \A c \in S2 \ S : c.dir = "b",
           phase' # "closed" => phase # "closed" /\ S \cup adding \subseteq S2 \cup adding'
    PROVE  CoveredIn(r, S2, X2)'
<1>1. Event' = Event /\ Checkpoint' = Checkpoint
  BY DEF Event, Checkpoint
<1> DEFINE L == live \cup decrypting
           L2 == live' \cup decrypting'
           A == adding
           A2 == adding'
<1>2. L \in SUBSET Event /\ L2 \in SUBSET Event /\ A \in SUBSET Checkpoint /\ A2 \in SUBSET Checkpoint 
  BY <1>1 DEF TypeOK
<1>4. CoveredIn(r, S2, X2)' = Sound(Wanted(r), Positions(r, X2), Positions(r, L2), Tokens(r, S2, "b"), Tokens(r, A2, "b"),
                                    Tokens(r, S2, "f"), seen[r], saved[r], phase' # "closed")
  BY DEF CoveredIn
<1>5. Sound(Wanted(r), Positions(r, X), Positions(r, L), Tokens(r, S, "b"), Tokens(r, A, "b"),
            Tokens(r, S, "f"), seen[r], saved[r], phase # "closed")
  BY DEF CoveredIn
<1>6. Tokens(r, S2, "f") = Tokens(r, S, "f")
  <2>1. \A c \in S2 : c.dir = "f" => c \in S
    OBVIOUS
  <2> QED BY <2>1 DEF Tokens
<1>7. ASSUME NEW p \in Positions(r, X) \ Positions(r, X2) PROVE p \notin Wanted(r)
  <2>1. PICK e \in X : e[1] = r /\ e[2] = p
    BY DEF Positions
  <2>2. e \notin X2
    BY <1>7, <2>1 DEF Positions
  <2> QED BY <2>1, <2>2
<1>8. ASSUME phase' # "closed", NEW p \in Positions(r, L) \ Positions(r, L2) PROVE p \notin Wanted(r)
  <2>1. PICK e \in L : e[1] = r /\ e[2] = p
    BY DEF Positions
  <2>2. e \notin L2
    BY <1>8, <2>1 DEF Positions
  <2> QED BY <1>8, <2>1, <2>2
<1>10. Tokens(r, S, "b") \subseteq Tokens(r, S2, "b")
  BY Shares
<1>11. Tokens(r, A2, "b") \cup Tokens(r, S2, "b") \subseteq Tokens(r, A, "b") \cup Tokens(r, S, "b")
  <2>1. Tokens(r, S2 \cup A2, "b") \subseteq Tokens(r, S \cup A, "b")
    BY DEF Tokens
  <2>2. Tokens(r, S2 \cup A2, "b") = Tokens(r, S2, "b") \cup Tokens(r, A2, "b")
    BY Shares
  <2>3. Tokens(r, S \cup A, "b") = Tokens(r, S, "b") \cup Tokens(r, A, "b")
    BY Shares
  <2> QED BY <2>1, <2>2, <2>3
<1>12. phase' # "closed" => Tokens(r, A, "b") \cup Tokens(r, S, "b") \subseteq Tokens(r, A2, "b") \cup Tokens(r, S2, "b")
  <2> SUFFICES ASSUME phase' # "closed" PROVE Tokens(r, A, "b") \cup Tokens(r, S, "b") \subseteq Tokens(r, A2, "b") \cup Tokens(r, S2, "b")
    OBVIOUS
  <2>1. Tokens(r, S \cup A, "b") \subseteq Tokens(r, S2 \cup A2, "b")
    BY Shares
  <2>2. Tokens(r, S2 \cup A2, "b") = Tokens(r, S2, "b") \cup Tokens(r, A2, "b")
    BY Shares
  <2>3. Tokens(r, S \cup A, "b") = Tokens(r, S, "b") \cup Tokens(r, A, "b")
    BY Shares
  <2> QED BY <2>1, <2>2, <2>3
<1>13. Positions(r, X2) \subseteq Positions(r, X) /\ Positions(r, L2) \subseteq Positions(r, L)
  BY <1>2, Shares DEF Positions
<1>14. /\ Positions(r, X) \in SUBSET Nat /\ Positions(r, L) \in SUBSET Nat
       /\ Tokens(r, S, "b") \in SUBSET Nat /\ Tokens(r, A, "b") \in SUBSET Nat
       /\ Tokens(r, S2, "b") \in SUBSET Nat /\ Tokens(r, A2, "b") \in SUBSET Nat
       /\ Tokens(r, S, "f") \in SUBSET Nat /\ seen[r] \in Nat /\ saved[r] \in Nat /\ Wanted(r) \in SUBSET Nat
  <2> HIDE DEF L, L2, A, A2
  <2> QED BY <1>2, Measured
<1> DEFINE open == phase # "closed"
           open2 == phase' # "closed"
<1>15. PICK X_, X2_, P_, P2_, B_, B2_, A_, A2_, F_ :
          /\ X_ = Positions(r, X) /\ X2_ = Positions(r, X2) /\ P_ = Positions(r, L) /\ P2_ = Positions(r, L2)
          /\ B_ = Tokens(r, S, "b") /\ B2_ = Tokens(r, S2, "b") /\ A_ = Tokens(r, A, "b") /\ A2_ = Tokens(r, A2, "b")
          /\ F_ = Tokens(r, S, "f")
  OBVIOUS
<1> HIDE DEF L, L2, A, A2
<1>16. Sound(Wanted(r), X2_, P2_, B2_, A2_, F_, seen[r], saved[r], open2)
  <2>1. (X_ \ X2_) \cap Wanted(r) = {} /\ (open2 => (P_ \ P2_) \cap Wanted(r) = {})
    BY <1>7, <1>8, <1>15
  <2>2. Sound(Wanted(r), X_, P_, B_, A_, F_, seen[r], saved[r], open)
    BY <1>5, <1>15
  <2>3. open2 => open /\ A_ \cup B_ \subseteq A2_ \cup B2_
    BY <1>12, <1>15
  <2>4. B_ \subseteq B2_ /\ A2_ \cup B2_ \subseteq A_ \cup B_ /\ X2_ \in SUBSET X_ /\ P2_ \in SUBSET P_
    BY <1>10, <1>11, <1>13, <1>15
  <2> HIDE DEF open, open2
  <2> QED BY <1>14, <1>15, <2>1, <2>2, <2>3, <2>4, Weaker
<1> QED BY <1>4, <1>6, <1>15, <1>16

LEMMA CoverageStep ==
    ASSUME Basis, Basis', Kept, Gathered, Coverage, [Next]_vars
    PROVE  Coverage'
<1>types. TypeOK /\ TypeOK' /\ Order /\ Order' /\ Placed /\ Loop /\ Fresh
  BY DEF Basis
<1>same. scenario' = scenario /\ Checkpoint' = Checkpoint /\ Event' = Event /\ Fetched' = Fetched
  BY <1>types, SameScenario
<1> SUFFICES ASSUME Undisturbed', Started', NEW S, NEW X, View(S, X)', NEW q \in Room
             PROVE  CoveredIn(q, S, X)'
  BY DEF Coverage, Covered
<1>und. Undisturbed /\ Apart /\ Tidy /\ (\A r \in Room : 1 <= token[r]) /\ (Fault => phase = "closed")
  BY <1>types, StillUndisturbed DEF Kept
<1>enc. encrypted = Room
  BY <1>types, <1>und DEF Placed, Undisturbed
<1>nat. /\ \A r \in Room : seen[r] \in Nat /\ saved[r] \in Nat /\ token[r] \in Nat /\ Len(timeline[r]) \in Nat
        /\ \A c \in Checkpoint : c.token \in Nat /\ c.room \in Room /\ c.dir \in {"b", "f"}
        /\ \A e \in Event : e[1] \in Room /\ e[2] \in Nat /\ 1 <= e[2]
  BY <1>types, Bounded
<1>typed. /\ stored \subseteq Checkpoint /\ seeds \subseteq Checkpoint /\ adding \subseteq Checkpoint
          /\ indexed \subseteq Event /\ live \subseteq Event /\ decrypting \subseteq Event /\ batch.events \subseteq Event
          /\ None \notin Checkpoint /\ Queue \subseteq Checkpoint
          /\ batch.next \in Checkpoint \cup {None} /\ currentCheckpoint \in Checkpoint \cup {None}
  <2>1. Queue \subseteq Checkpoint
    BY <1>types DEF TypeOK, Queue, ToSet
  <2>2. /\ stored \subseteq Checkpoint /\ seeds \subseteq Checkpoint /\ adding \subseteq Checkpoint
        /\ indexed \subseteq Event /\ live \subseteq Event /\ decrypting \subseteq Event
        /\ currentCheckpoint \in Checkpoint \cup {None} /\ batch \in Fetched
    BY <1>types DEF TypeOK
  <2>3. None \notin Checkpoint
    BY <1>types, Bounded
  <2> QED BY <2>1, <2>2, <2>3 DEF Fetched
<1>view. \A T, Y : View(T, Y) => /\ T \in SUBSET Checkpoint /\ Y \in SUBSET Event
                                 /\ T \subseteq Known \cup seeds /\ Y \subseteq indexed \cup batch.events
  <2>1. \A T, Y : View(T, Y) => T \subseteq Durable \cup ({batch.next} \ {None}) /\ Y \subseteq indexed \cup batch.events
    BY DEF View
  <2> QED BY <1>typed, <2>1 DEF Durable, Known
<1>new. S \in SUBSET Checkpoint /\ X \in SUBSET Event
  <2>1. stored' \subseteq Checkpoint /\ seeds' \subseteq Checkpoint /\ indexed' \subseteq Event
        /\ batch'.events \subseteq Event /\ batch'.next \in Checkpoint \cup {None}
    BY <1>types, <1>same DEF TypeOK, Fetched
  <2>2. S \subseteq Durable' \cup ({batch'.next} \ {None}) /\ X \subseteq indexed' \cup batch'.events
    BY DEF View
  <2> QED BY <2>1, <2>2 DEF Durable
<1>old. ASSUME Started, NEW T, NEW Y, View(T, Y) PROVE CoveredIn(q, T, Y)
  BY <1>und, <1>old DEF Coverage, Covered
<1>base. View(Durable, indexed)
  BY DEF View
(* The index is begun by the first sync, which asks whether it is empty. *)
<1>begun. Started \/ (setup = "asking" /\ setup' \notin {"idle", "asking"})
  <2> SUFFICES ASSUME ~Started PROVE setup = "asking" /\ setup' \notin {"idle", "asking"}
    OBVIOUS
  <2>1. /\ setup \in {"idle", "asking"} /\ indexed = {} /\ stored = {} /\ live = {} /\ adding = {} /\ seeds = {}
        /\ crawler = "off" /\ batch = NoBatch
    BY <1>types, <1>und DEF Started, Loop, Undisturbed
  <2>2. indexed' = {} /\ stored' = {}
    BY <2>1 DEF Next, Sync, Handlers, CrawlerFunc, vars, indexVars, handlerVars, ServerEvent, LoadCheckpoints, CommitLiveEvents,
     SaveSync, FirstSync, IsEventIndexEmpty, OnRoomTimeline, OnTimelineReset, OnRoomStateEvent, IsRoomIndexed, StartCrawler,
     AddLiveEvent, AddRoomCheckpoint, AddInitialCheckpoint, TakeCheckpoint, MessagesResponse, MessagesError, CheckpointRemoved,
     FilterEvents, DeleteRedacted, AddHistoricEvents, CrawlTrimmed, Close, Reload
  <2>3. setup = "asking" \/ setup' \in {"idle", "asking"}
    BY <2>1 DEF Next, Sync, Handlers, CrawlerFunc, vars, indexVars, handlerVars, ServerEvent, LoadCheckpoints, CommitLiveEvents,
     SaveSync, FirstSync, IsEventIndexEmpty, OnRoomTimeline, OnTimelineReset, OnRoomStateEvent, IsRoomIndexed, StartCrawler,
     AddLiveEvent, AddRoomCheckpoint, AddInitialCheckpoint, TakeCheckpoint, MessagesResponse, MessagesError, CheckpointRemoved,
     FilterEvents, DeleteRedacted, AddHistoricEvents, CrawlTrimmed, Close, Reload
  <2> QED BY <2>1, <2>2, <2>3 DEF Started
<1>st. setup' = setup => Started
  BY <1>begun
<1>unseeded. \A c \in Known : c \notin seeds
  BY <1>types, <1>und DEF Fresh, Single, Same, Undisturbed
(* Redacted events need not be kept. *)
<1>red. \A e \in Event : KnownRedacted(e) \/ Redacted(e, Len(timeline[e[1]])) => e[2] \notin Wanted(e[1])
  <2> SUFFICES ASSUME NEW e \in Event, KnownRedacted(e) \/ Redacted(e, Len(timeline[e[1]])), e[2] \in Wanted(e[1]) PROVE FALSE
    OBVIOUS
  <2>1. PICK p \in 1 .. Len(timeline[e[1]]) : timeline[e[1]][p] = e[2]
    BY <1>types, <1>nat DEF KnownRedacted, Redacted, Order
  <2> QED BY <2>1 DEF Wanted, Redacted
<1>same_w. timeline' = timeline => \A r : Wanted(r)' = Wanted(r)
  BY DEF Wanted, IsMessage, Redacted
(* A view that loses nothing that must be kept. *)
<1>keep. ASSUME NEW T \in SUBSET Checkpoint, NEW Y \in SUBSET Event, CoveredIn(q, T, Y),
                X \subseteq Y, UNCHANGED <<timeline, seen, saved>>,
                live' \cup decrypting' \subseteq live \cup decrypting,
                \A e \in Y \ X : e[2] \notin Wanted(e[1]),
                phase' # "closed" => \A e \in (live \cup decrypting) \ (live' \cup decrypting') : e[2] \notin Wanted(e[1]),
                T \subseteq S, S \cup adding' \subseteq T \cup adding, \A c \in S \ T : c.dir = "b",
                phase' # "closed" => phase # "closed" /\ T \cup adding \subseteq S \cup adding'
         PROVE  CoveredIn(q, S, X)'
  <2>1. Wanted(q)' = Wanted(q) /\ seen'[q] = seen[q] /\ saved'[q] = saved[q]
    BY <1>keep, <1>same_w
  <2>2. /\ \A e \in live' \cup decrypting' : e[1] = q => e \in live \cup decrypting
        /\ \A e \in Y \ X : e[1] = q => e[2] \notin Wanted(q)
        /\ phase' # "closed" => \A e \in (live \cup decrypting) \ (live' \cup decrypting') : e[1] = q => e[2] \notin Wanted(q)
        /\ \A c \in S \cup adding' : c.room = q => c \in T \cup adding
    BY <1>keep
  <2> QED BY <1>types, <1>same, <1>new, <1>keep, <2>1, <2>2, StaysCovered
(* A step after which the crawler has no view but what is stored. *)
<1>plain. ASSUME Started, UNCHANGED <<timeline, seen, saved, live, decrypting, adding, indexed>>,
                 phase' = "closed" <=> phase = "closed",
                 View(S, indexed), X = indexed
          PROVE  CoveredIn(q, S, X)'
  <2>1. CoveredIn(q, S, X) /\ X \in SUBSET Event
    BY <1>plain, <1>old, <1>new
  <2>2. /\ X \subseteq X /\ S \subseteq S /\ S \cup adding' \subseteq S \cup adding /\ S \cup adding \subseteq S \cup adding'
        /\ live' \cup decrypting' \subseteq live \cup decrypting
        /\ \A e \in X \ X : e[2] \notin Wanted(e[1])
        /\ \A e \in (live \cup decrypting) \ (live' \cup decrypting') : e[2] \notin Wanted(e[1])
        /\ \A c \in S \ S : c.dir = "b"
    BY <1>plain
  <2> QED BY <1>keep, <1>plain, <1>new, <2>1, <2>2
<1>u. ASSUME Started, UNCHANGED <<timeline, seen, saved, live, decrypting, adding>>,
             phase' = "closed" <=> phase = "closed", View(S, X)
      PROVE  CoveredIn(q, S, X)'
  <2>1. CoveredIn(q, S, X) /\ X \in SUBSET Event
    BY <1>u, <1>old, <1>new
  <2>2. /\ X \subseteq X /\ S \subseteq S /\ S \cup adding' \subseteq S \cup adding /\ S \cup adding \subseteq S \cup adding'
        /\ live' \cup decrypting' \subseteq live \cup decrypting
        /\ \A e \in X \ X : e[2] \notin Wanted(e[1])
        /\ \A e \in (live \cup decrypting) \ (live' \cup decrypting') : e[2] \notin Wanted(e[1])
        /\ \A c \in S \ S : c.dir = "b"
    BY <1>u
  <2> QED BY <1>keep, <1>u, <1>new, <2>1, <2>2
<1>seen. UNCHANGED <<stored, seeds, currentCheckpoint, batch, crawler, phase, indexed>> => View(S, X)
  BY DEF View, Durable
<1>1. ASSUME NEW r \in Room, ServerEvent(r) PROVE CoveredIn(q, S, X)'
  <2>1. UNCHANGED <<seen, saved, live, decrypting, adding, stored, seeds, currentCheckpoint, batch, crawler, phase, indexed>>
    BY <1>1 DEF ServerEvent, clientVars, indexVars, handlerVars, crawlerVars
  <2>2. Started
    BY <1>1, <1>st DEF ServerEvent, handlerVars
  <2>3. View(S, X) /\ CoveredIn(q, S, X)
    BY <1>old, <1>seen, <2>1, <2>2
  <2>4. /\ Wanted(r)' \subseteq Wanted(r) \cup {Len(timeline[r]) + 1}
        /\ \A s \in Room \ {r} : Wanted(s)' = Wanted(s)
    BY <1>1, <1>types, WantedNext
  <2>5. CASE q # r
    BY <2>1, <2>3, <2>4, <2>5 DEF CoveredIn
  <2>6. CASE q = r
    <3>1. PICK W, W2, x, P, B, A, F, n : /\ W = Wanted(q) /\ W2 = Wanted(q)' /\ x = Positions(q, X)
             /\ P = Positions(q, live \cup decrypting) /\ B = Tokens(q, S, "b") /\ A = Tokens(q, adding, "b")
             /\ F = Tokens(q, S, "f") /\ n = Len(timeline[q]) + 1
      OBVIOUS
    <3>2. /\ W \in SUBSET Nat /\ x \in SUBSET Nat /\ P \in SUBSET Nat /\ B \in SUBSET Nat /\ A \in SUBSET Nat
          /\ F \in SUBSET Nat /\ seen[q] \in Nat /\ saved[q] \in Nat /\ n \in Nat
      <4>1. live \cup decrypting \in SUBSET Event /\ adding \in SUBSET Checkpoint
        BY <1>typed
      <4> QED BY <1>types, <1>new, <1>nat, <3>1, <4>1, Measured, SMTT(30)
    <3>3. W2 \in SUBSET (W \cup {n})
      BY <2>4, <2>6, <3>1
    <3>4. \A y \in x : y < n
      <4>1. \A e \in X : e \in Event /\ e[2] <= Len(timeline[e[1]])
        BY <1>new, <1>types, <1>view, <2>3 DEF Placed
      <4> QED BY <1>nat, <3>1, <4>1 DEF Positions
    <3>5. \A y \in F : y < n
      <4>1. \A c \in S : c \in Checkpoint /\ c.token <= Len(timeline[c.room])
        BY <1>new, <1>types, <1>view, <2>3 DEF Fresh
      <4> QED BY <1>nat, <3>1, <4>1 DEF Tokens
    <3>6. \A y \in P : y <= seen[q]
      BY <1>types, <3>1 DEF Positions, Placed
    <3>7. seen[q] < n /\ saved[q] <= seen[q]
      BY <1>types, <1>nat, <3>1 DEF Order
    <3>8. Sound(W, x, P, B, A, F, seen[q], saved[q], phase # "closed")
      BY <2>3, <3>1 DEF CoveredIn
    <3>9. Sound(W2, x, P, B, A, F, seen[q], saved[q], phase # "closed")
      BY <3>2, <3>3, <3>4, <3>5, <3>6, <3>7, <3>8, Sent
    <3> QED BY <2>1, <3>1, <3>9 DEF CoveredIn
  <2> QED BY <2>5, <2>6
<1>2. ASSUME LoadCheckpoints PROVE CoveredIn(q, S, X)'
  <2>1. UNCHANGED <<timeline, seen, saved, live, decrypting, adding, stored, seeds, currentCheckpoint, batch, crawler, indexed>>
    BY <1>2 DEF LoadCheckpoints, serverVars, clientVars, indexVars, handlerVars
  <2>2. Started /\ crawler = "off" /\ phase # "closed" /\ phase' # "closed"
    BY <1>2, <1>types, <1>st DEF LoadCheckpoints, handlerVars, Loop
  <2>3. View(S, X)
    BY <2>1, <2>2 DEF View, Durable
  <2> QED BY <1>u, <2>1, <2>2, <2>3
<1>3. ASSUME CommitLiveEvents PROVE CoveredIn(q, S, X)'
  <2>1. /\ UNCHANGED <<timeline, seen, saved, decrypting, adding, stored, seeds, currentCheckpoint, batch, crawler, phase>>
        /\ indexed' = indexed \cup live /\ live' = {} /\ phase = "syncing" /\ decrypting = {} /\ adding = {}
    BY <1>3, <1>und DEF CommitLiveEvents, serverVars, clientVars, handlerVars, crawlerVars, Undisturbed
  <2>2. Started
    BY <1>3, <1>st DEF CommitLiveEvents, handlerVars
  <2>3. PICK Y : /\ View(S, Y)
                 /\ (Y = indexed /\ X = indexed') \/ (Y = indexed \cup batch.events /\ X = indexed' \cup batch.events)
    <3>1. \/ X = indexed' /\ View(S, indexed)
          \/ X = indexed' \cup batch.events /\ View(S, indexed \cup batch.events)
      BY <2>1 DEF View, Durable
    <3> QED BY <3>1
  <2>4. X = Y \cup live
    BY <2>1, <2>3
  <2>5. CoveredIn(q, S, Y) /\ Y \in SUBSET Event
    BY <1>old, <1>view, <2>2, <2>3
  <2>6. PICK W, x, P, B, A, F : /\ W = Wanted(q) /\ x = Positions(q, Y)
             /\ P = Positions(q, live \cup decrypting) /\ B = Tokens(q, S, "b") /\ A = Tokens(q, adding, "b")
             /\ F = Tokens(q, S, "f")
    OBVIOUS
  <2>7. /\ W \in SUBSET Nat /\ x \in SUBSET Nat /\ P \in SUBSET Nat /\ B \in SUBSET Nat /\ A \in SUBSET Nat
        /\ F \in SUBSET Nat /\ seen[q] \in Nat /\ saved[q] \in Nat
    <3>1. live \cup decrypting \in SUBSET Event /\ adding \in SUBSET Checkpoint
      BY <1>typed
    <3> QED BY <1>types, <1>new, <2>5, <2>6, <3>1, Measured
  <2>8. A = {} /\ P = Positions(q, live) /\ Positions(q, X) = x \cup P
    <3>1. live \cup decrypting = live
      BY <2>1
    <3>2. Positions(q, Y \cup live) = Positions(q, Y) \cup Positions(q, live)
      BY Shares
    <3>3. A = {}
      BY <2>1, <2>6 DEF Tokens
    <3> QED BY <2>4, <2>6, <3>1, <3>2, <3>3
  <2>9. Positions(q, live' \cup decrypting') = {} /\ Tokens(q, adding', "b") = {}
    BY <2>1 DEF Positions, Tokens
  <2>10. Sound(W, x, P, B, A, F, seen[q], saved[q], phase # "closed")
    BY <2>5, <2>6 DEF CoveredIn
  <2>11. Sound(W, x \cup P, {}, B, {}, F, seen[q], saved[q], phase # "closed")
    BY <2>1, <2>7, <2>8, <2>10, Committed
  <2>12. Wanted(q)' = W
    BY <1>same_w, <2>1, <2>6
  <2> QED BY <2>1, <2>6, <2>8, <2>9, <2>11, <2>12 DEF CoveredIn
<1>4. ASSUME SaveSync PROVE CoveredIn(q, S, X)'
  <2>1. /\ UNCHANGED <<timeline, seen, live, decrypting, adding, stored, seeds, currentCheckpoint, batch, crawler, phase, indexed>>
        /\ saved' = seen /\ phase = "syncing" /\ decrypting = {} /\ adding = {} /\ live = {}
    BY <1>4 DEF SaveSync, serverVars, indexVars, handlerVars, crawlerVars
  <2>2. Started
    BY <1>4, <1>st DEF SaveSync, handlerVars
  <2>3. View(S, X) /\ CoveredIn(q, S, X)
    BY <1>old, <1>seen, <2>1, <2>2
  <2>6. PICK W, x, P, B, A, F : /\ W = Wanted(q) /\ x = Positions(q, X)
             /\ P = Positions(q, live \cup decrypting) /\ B = Tokens(q, S, "b") /\ A = Tokens(q, adding, "b")
             /\ F = Tokens(q, S, "f")
    OBVIOUS
  <2>7. /\ W \in SUBSET Nat /\ x \in SUBSET Nat /\ P \in SUBSET Nat /\ B \in SUBSET Nat /\ A \in SUBSET Nat
        /\ F \in SUBSET Nat /\ seen[q] \in Nat /\ saved[q] \in Nat
    <3>1. live \cup decrypting \in SUBSET Event /\ adding \in SUBSET Checkpoint
      BY <1>typed
    <3> QED BY <1>types, <1>new, <2>6, <3>1, Measured
  <2>8. A = {} /\ P = {}
    BY <2>1, <2>6 DEF Positions, Tokens
  <2>10. Sound(W, x, P, B, A, F, seen[q], saved[q], phase # "closed")
    BY <2>3, <2>6 DEF CoveredIn
  <2>11. Sound(W, x, P, B, A, F, seen[q], seen[q], phase # "closed")
    <3>1. saved[q] <= seen[q] /\ phase # "closed"
      BY <1>types, <2>1 DEF Order
    <3> QED BY <2>7, <2>8, <2>10, <3>1, Saved
  <2>12. Wanted(q)' = W /\ saved'[q] = seen[q]
    BY <1>same_w, <2>1, <2>6
  <2> QED BY <2>1, <2>6, <2>11, <2>12 DEF CoveredIn
<1>5. ASSUME FirstSync PROVE CoveredIn(q, S, X)'
  <2>1. /\ UNCHANGED <<timeline, seen, saved, live, decrypting, adding, stored, seeds, indexed, crawler>>
        /\ phase = "loaded" /\ phase' = "syncing" /\ setup' = "asking"
    BY <1>5 DEF FirstSync, serverVars, clientVars, indexVars, crawlerVars
  <2>2. Started /\ crawler = "off"
    BY <1>types, <1>begun, <2>1 DEF Loop
  <2>3. View(S, X)
    BY <2>1, <2>2 DEF View, Durable
  <2> QED BY <1>u, <2>1, <2>2, <2>3
<1>6. ASSUME NEW r \in Room, OnRoomTimeline(r) PROVE CoveredIn(q, S, X)'
  <2>0. PICK p, target : p = seen[r] + 1 /\ target = <<r, timeline[r][p]>>
    OBVIOUS
  <2>1. /\ UNCHANGED <<timeline, saved, adding, stored, seeds, currentCheckpoint, batch, crawler, phase>>
        /\ seen' = [seen EXCEPT ![r] = p] /\ seen[r] < Len(timeline[r]) /\ phase # "closed"
    BY <1>6, <2>0 DEF OnRoomTimeline, Listening, serverVars, crawlerVars
  <2>2. \/ IsMessage(<<r, p>>) /\ decrypting' = decrypting \cup {<<r, p>>} /\ UNCHANGED <<indexed, live>>
        \/ /\ ~IsMessage(<<r, p>>) /\ indexed' = indexed \ {target} /\ live' = live \ {target}
           /\ UNCHANGED decrypting
    BY <1>6, <1>und, <1>enc, <2>0, <2>1 DEF OnRoomTimeline
  <2>3. Started
    BY <1>6, <1>st DEF OnRoomTimeline, handlerVars
  <2>4. PICK Y : View(S, Y) /\ X \subseteq Y /\ \A e \in Y \ X : e = target /\ ~IsMessage(<<r, p>>)
    <3>1. \/ X = indexed' /\ View(S, indexed)
          \/ X = indexed' \cup batch.events /\ View(S, indexed \cup batch.events)
      BY <2>1 DEF View, Durable
    <3> QED BY <2>2, <3>1
  <2>5. CoveredIn(q, S, Y) /\ Y \in SUBSET Event
    BY <1>old, <1>view, <2>3, <2>4
  <2>6. p \in 1 .. Len(timeline[r]) /\ seen'[r] = p /\ (\A s \in Room \ {r} : seen'[s] = seen[s]) /\ p \in Nat
    <3>1. seen \in [Room -> 0 .. scenario.len]
      BY <1>types DEF TypeOK
    <3>2. seen[r] \in Nat /\ Len(timeline[r]) \in Nat
      BY <1>nat
    <3>3. p \in 1 .. Len(timeline[r]) /\ p \in Nat
      BY <2>0, <2>1, <3>2
    <3> QED BY <2>1, <3>1, <3>3
  <2>7. ~IsMessage(<<r, p>>) => p \notin Wanted(r) /\ (target \in Event => target[2] \notin Wanted(r))
    <3>1. target[1] = r /\ target[2] = timeline[r][p]
      BY <2>0
    <3>2. Redacted(target, Len(timeline[r]))
      BY <2>6, <3>1 DEF Redacted
    <3>3. p \notin Wanted(r) \/ IsMessage(<<r, p>>)
      BY DEF Wanted
    <3> QED BY <1>red, <3>1, <3>2, <3>3
  <2>8. Wanted(q)' = Wanted(q) /\ Wanted(r)' = Wanted(r)
    BY <1>same_w, <2>1
  <2>l. live \subseteq Event /\ decrypting \subseteq Event /\ live' \subseteq Event /\ decrypting' \subseteq Event
    BY <1>types, <1>same DEF TypeOK
  <2>9. CASE q # r
    <3>1. /\ \A e \in live' \cup decrypting' : e[1] = q => e \in live \cup decrypting
          /\ \A e \in (live \cup decrypting) \ (live' \cup decrypting') : e[1] = q => e[2] \notin Wanted(q)
          /\ \A e \in Y \ X : e[1] = q => e[2] \notin Wanted(q)
      BY <2>0, <2>2, <2>4, <2>9
    <3>2. seen'[q] = seen[q] /\ saved'[q] = saved[q]
      BY <2>1, <2>6, <2>9
    <3>3. /\ S \subseteq S /\ \A c \in S \cup adding' : c.room = q => c \in S \cup adding
          /\ \A c \in S \ S : c.dir = "b"
          /\ phase' # "closed" => phase # "closed" /\ S \cup adding \subseteq S \cup adding'
      BY <2>1
    <3> QED BY <1>types, <1>same, <1>new, <2>4, <2>5, <2>8, <3>1, <3>2, <3>3, StaysCovered
  <2>10. CASE q = r
    <3> DEFINE N == IF IsMessage(<<r, p>>) THEN {<<r, p>>} ELSE {}
               L == live \cup decrypting
               L2 == live' \cup decrypting'
    <3>1. PICK W, x, x2, P, P1, P2, B, A, F : /\ W = Wanted(q) /\ x = Positions(q, Y) /\ x2 = Positions(q, X)
             /\ P = Positions(q, L) /\ P1 = Positions(q, L) \cup Positions(q, N) /\ P2 = Positions(q, L2)
             /\ B = Tokens(q, S, "b") /\ A = Tokens(q, adding, "b") /\ F = Tokens(q, S, "f")
      OBVIOUS
    <3>2. Positions(q, N) = (IF IsMessage(<<r, p>>) THEN {p} ELSE {})
      BY <2>10 DEF Positions
    <3>3. /\ W \in SUBSET Nat /\ x \in SUBSET Nat /\ P \in SUBSET Nat /\ B \in SUBSET Nat /\ A \in SUBSET Nat
          /\ F \in SUBSET Nat /\ seen[q] \in Nat /\ saved[q] \in Nat /\ P2 \in SUBSET Nat
      <4>1. L \in SUBSET Event /\ L2 \in SUBSET Event /\ adding \in SUBSET Checkpoint
        BY <1>typed, <2>l
      <4> HIDE DEF L, L2, N
      <4> QED BY <1>types, <1>new, <2>5, <3>1, <4>1, Measured
    <3>4. Sound(W, x, P, B, A, F, seen[q], saved[q], phase # "closed")
      BY <2>5, <3>1 DEF CoveredIn
    <3>5. p = seen[q] + 1
      BY <2>0, <2>10
    <3>6. Sound(W, x, P1, B, A, F, seen[q] + 1, saved[q], phase # "closed")
      <4>1. P1 \in SUBSET (P \cup {seen[q] + 1}) /\ P \subseteq P1
        BY <3>1, <3>2, <3>5
      <4>2. seen[q] + 1 \in W => seen[q] + 1 \in P1
        BY <2>7, <2>10, <3>1, <3>2, <3>5
      <4>3. \A y \in P : y <= seen[q]
        BY <1>types, <3>1 DEF Positions, Placed
      <4>4. saved[q] <= seen[q]
        BY <1>types DEF Order
      <4> HIDE DEF L, L2, N
      <4> QED BY <3>3, <3>4, <4>1, <4>2, <4>3, <4>4, Seen
    <3>7. Sound(W, x2, P2, B, A, F, seen[q] + 1, saved[q], phase # "closed")
      <4>1. x2 \in SUBSET x
        BY <2>4, <3>1, Shares
      <4>2. P2 \in SUBSET P1
        <5>1. L2 \subseteq L \cup N
          BY <2>2
        <5> HIDE DEF L, L2, N
        <5> QED BY <3>1, <5>1, Shares
      <4>3. (x \ x2) \cap W = {}
        <5> SUFFICES ASSUME NEW y \in x, y \notin x2 PROVE y \notin W
          OBVIOUS
        <5>1. PICK e \in Y : e[1] = q /\ e[2] = y
          BY <3>1 DEF Positions
        <5>2. e \notin X
          BY <3>1, <5>1 DEF Positions
        <5>3. e = target /\ ~IsMessage(<<r, p>>) /\ e \in Event
          BY <2>4, <2>5, <5>2
        <5> QED BY <2>7, <2>10, <3>1, <5>1, <5>3
      <4>4. (P1 \ P2) \cap W = {}
        <5> SUFFICES ASSUME NEW y \in P1, y \notin P2 PROVE y \notin W
          OBVIOUS
        <5>1. PICK e \in L \cup N : e[1] = q /\ e[2] = y
          BY <3>1 DEF Positions
        <5>2. e \notin L2
          BY <3>1, <5>1 DEF Positions
        <5>3. e = target /\ ~IsMessage(<<r, p>>)
          BY <2>2, <5>2
        <5>4. e \in Event
          BY <2>l, <5>1, <5>3
        <5> QED BY <2>7, <2>10, <3>1, <5>1, <5>3, <5>4
      <4>5. P1 \in SUBSET Nat /\ seen[q] + 1 \in Nat
        BY <2>6, <3>1, <3>2, <3>3, <3>5
      <4>6. W \in SUBSET W /\ B \subseteq B /\ A \cup B \subseteq A \cup B
        OBVIOUS
      <4> DEFINE open == phase # "closed"
      <4>7. (open => (P1 \ P2) \cap W = {}) /\ (open => open /\ A \cup B \subseteq A \cup B) /\ Sound(W, x, P1, B, A, F, seen[q] + 1, saved[q], open)
        BY <3>6, <4>4
      <4>8. Sound(W, x2, P2, B, A, F, seen[q] + 1, saved[q], open)
        <5> HIDE DEF L, L2, N, open
        <5> QED BY <3>3, <4>1, <4>2, <4>3, <4>5, <4>6, <4>7, Weaker
      <4> QED BY <4>8
    <3> QED BY <2>1, <2>6, <2>8, <2>10, <3>1, <3>5, <3>7 DEF CoveredIn
  <2> QED BY <2>9, <2>10
<1>7. ASSUME NEW r \in Room, OnTimelineReset(r) PROVE CoveredIn(q, S, X)'
  <2>0. PICK t \in (seen[r] + 1) .. (Len(timeline[r]) - 1) :
             seen' = [seen EXCEPT ![r] = t] /\ adding' = adding \cup {NewCheckpoint(r, t, FALSE, "b")}
    BY <1>7, <1>enc DEF OnTimelineReset
  <2>1. /\ UNCHANGED <<timeline, saved, live, decrypting, stored, seeds, currentCheckpoint, batch, crawler, phase, indexed>>
    BY <1>7 DEF OnTimelineReset, serverVars, indexVars, crawlerVars
  <2>2. Started
    BY <1>7, <1>st DEF OnTimelineReset, handlerVars
  <2>3. View(S, X) /\ CoveredIn(q, S, X)
    BY <1>old, <1>seen, <2>1, <2>2
  <2>4. t \in Nat /\ seen[r] < t /\ seen'[r] = t /\ \A s \in Room \ {r} : seen'[s] = seen[s]
    <3>1. seen \in [Room -> 0 .. scenario.len]
      BY <1>types DEF TypeOK
    <3>2. seen[r] \in Nat /\ Len(timeline[r]) \in Nat
      BY <1>nat
    <3>3. t \in Nat /\ seen[r] < t
      BY <3>2
    <3> QED BY <2>0, <3>1, <3>3
  <2>5. NewCheckpoint(r, t, FALSE, "b").room = r /\ NewCheckpoint(r, t, FALSE, "b").token = t /\ NewCheckpoint(r, t, FALSE, "b").dir = "b"
    BY DEF NewCheckpoint
  <2>c. PICK c : c = NewCheckpoint(r, t, FALSE, "b")
    OBVIOUS
  <2>6. Tokens(q, adding', "b") = Tokens(q, adding, "b") \cup (IF q = r THEN {t} ELSE {})
    <3>1. adding' = adding \cup {c} /\ c.room = r /\ c.token = t /\ c.dir = "b"
      BY <2>0, <2>5, <2>c
    <3>2. Tokens(q, {c}, "b") = (IF q = r THEN {t} ELSE {})
      BY <3>1 DEF Tokens
    <3>3. Tokens(q, adding \cup {c}, "b") = Tokens(q, adding, "b") \cup Tokens(q, {c}, "b")
      <4>1. \A T : Tokens(q, adding \cup T, "b") = Tokens(q, adding, "b") \cup Tokens(q, T, "b")
        BY Shares
      <4> QED BY <4>1
    <3> QED BY <3>1, <3>2, <3>3
  <2>7. Wanted(q)' = Wanted(q)
    BY <1>same_w, <2>1
  <2>8. CASE q # r
    <3>1. Tokens(q, adding', "b") = Tokens(q, adding, "b") /\ seen'[q] = seen[q]
      BY <2>4, <2>6, <2>8
    <3> QED BY <2>1, <2>3, <2>7, <3>1 DEF CoveredIn
  <2>9. CASE q = r
    <3>1. PICK W, x, P, B, A, A2, F : /\ W = Wanted(q) /\ x = Positions(q, X)
             /\ P = Positions(q, live \cup decrypting) /\ B = Tokens(q, S, "b") /\ A = Tokens(q, adding, "b")
             /\ F = Tokens(q, S, "f") /\ A2 = Tokens(q, adding', "b")
      OBVIOUS
    <3>2. /\ W \in SUBSET Nat /\ x \in SUBSET Nat /\ P \in SUBSET Nat /\ B \in SUBSET Nat /\ A \in SUBSET Nat
          /\ F \in SUBSET Nat /\ seen[q] \in Nat /\ saved[q] \in Nat
      <4>1. live \cup decrypting \in SUBSET Event /\ adding \in SUBSET Checkpoint
        BY <1>typed
      <4> QED BY <1>types, <1>new, <3>1, <4>1, Measured
    <3>3. Sound(W, x, P, B, A, F, seen[q], saved[q], phase # "closed")
      BY <2>3, <3>1 DEF CoveredIn
    <3>4. A2 = A \cup {t} /\ A2 \in SUBSET Nat
      BY <2>4, <2>6, <2>9, <3>1, <3>2
    <3>5. \A y \in P : y <= seen[q]
      BY <1>types, <3>1 DEF Positions, Placed
    <3>6. saved[q] <= seen[q] /\ seen[q] < t
      BY <1>types, <2>4, <2>9 DEF Order
    <3>7. Sound(W, x, P, B, A2, F, t, saved[q], phase # "closed")
      BY <2>4, <3>2, <3>3, <3>4, <3>5, <3>6, Gap
    <3> QED BY <2>1, <2>4, <2>7, <2>9, <3>1, <3>7 DEF CoveredIn
  <2> QED BY <2>8, <2>9
<1>8. ASSUME NEW r \in Room, OnRoomStateEvent(r) PROVE CoveredIn(q, S, X)'
  BY <1>8, <1>und DEF OnRoomStateEvent, Undisturbed
<1>9. ASSUME StartCrawler PROVE CoveredIn(q, S, X)'
  <2>1. /\ UNCHANGED <<timeline, seen, saved, live, decrypting, adding, indexed, phase>>
        /\ UNCHANGED <<stored, seeds>> /\ crawler' \in {"off", "sleep"}
    BY <1>9, <1>und, <1>types DEF StartCrawler, Loop, Undisturbed, NextTurn, serverVars, clientVars, indexVars, handlerVars
  <2>2. View(S, indexed) /\ X = indexed
    BY <2>1 DEF View, Durable
  <2>3. Started
    BY <1>9 DEF StartCrawler, Started
  <2> QED BY <1>plain, <2>1, <2>2, <2>3
<1>10. ASSUME NEW e \in decrypting, AddLiveEvent(e) PROVE CoveredIn(q, S, X)'
  <2>1. /\ UNCHANGED <<timeline, seen, saved, adding, stored, seeds, currentCheckpoint, batch, crawler, phase, indexed>>
        /\ decrypting' = decrypting \ {e} /\ live \subseteq live' /\ live' \subseteq live \cup {e}
        /\ phase # "closed" => KnownRedacted(e) \/ e \in live'
    BY <1>10, <1>und DEF AddLiveEvent, serverVars, clientVars, crawlerVars
  <2>2. Started
    BY <1>10, <1>st DEF AddLiveEvent, handlerVars
  <2>3. CoveredIn(q, S, X)
    BY <1>old, <1>seen, <2>1, <2>2
  <2>4. \A d \in (live \cup decrypting) \ (live' \cup decrypting') : d = e
    BY <2>1
  <2>5. /\ X \subseteq X /\ S \subseteq S /\ S \cup adding' \subseteq S \cup adding /\ S \cup adding \subseteq S \cup adding'
        /\ live' \cup decrypting' \subseteq live \cup decrypting
        /\ \A d \in X \ X : d[2] \notin Wanted(d[1])
        /\ \A c \in S \ S : c.dir = "b"
        /\ phase' # "closed" => \A d \in (live \cup decrypting) \ (live' \cup decrypting') : d[2] \notin Wanted(d[1])
    BY <1>red, <1>typed, <2>1, <2>4
  <2> QED BY <1>keep, <1>new, <2>1, <2>3, <2>5
<1>11. ASSUME NEW c \in adding, AddRoomCheckpoint(c) PROVE CoveredIn(q, S, X)'
  <2>1. /\ UNCHANGED <<timeline, seen, saved, live, decrypting, seeds, currentCheckpoint, batch, crawler, phase, indexed>>
        /\ adding' = adding \ {c}
        /\ stored' = stored \cup {c} \/ (phase = "closed" /\ UNCHANGED stored)
    BY <1>11, <1>und DEF AddRoomCheckpoint, serverVars, clientVars
  <2>2. Started
    BY <1>11, <1>st DEF AddRoomCheckpoint, handlerVars
  <2>3. c \in Checkpoint /\ c.dir = "b" /\ c # currentCheckpoint /\ c # batch.next
    <3>1. c \in adding /\ c \in Checkpoint /\ OfGap(c) /\ (Single(c) => \A d \in Known : ~Same(c, d))
      BY <1>types, <1>typed DEF Fresh
    <3>2. c.dir = "b" /\ \A d \in Known : ~Same(c, d)
      BY <1>und, <3>1 DEF OfGap, Single, Undisturbed
    <3>3. c \notin Known
      BY <3>2 DEF Same
    <3> QED BY <1>typed, <3>1, <3>2, <3>3 DEF Known
  <2>4. \E T : View(T, X) /\ (S = T \cup {c} \/ (phase = "closed" /\ S = T))
    <3>1. CASE UNCHANGED stored
      <4>1. Durable' = Durable
        BY <2>1, <3>1 DEF Durable
      <4>2. View(S, X)
        BY <2>1, <4>1 DEF View
      <4>3. phase # "closed" => c \in stored
        BY <2>1, <3>1
      <4>4. phase # "closed" => c \in S
        <5>1. phase # "closed" => c \in Durable
          BY <4>3 DEF Durable
        <5> QED BY <2>3, <4>2, <5>1 DEF View
      <4>5. c \in S => S = S \cup {c}
        OBVIOUS
      <4> QED BY <4>2, <4>4, <4>5
    <3>2. CASE stored' = stored \cup {c}
      <4>1. Durable' = Durable \cup {c}
        BY <2>1, <3>2 DEF Durable
      <4>2. PICK D : D = Durable
        OBVIOUS
      <4>3. \/ S = D \cup {c} /\ X = indexed
            \/ phase # "closed" /\ crawler = "remove" /\ S = (D \ {currentCheckpoint}) \cup {c} /\ X = indexed
            \/ phase # "closed" /\ crawler = "trim" /\ S = (D \ {batch.next}) \cup {c} /\ X = indexed
            \/ /\ phase # "closed" /\ crawler \in {"decrypt", "delete"} /\ X = indexed \cup batch.events
               /\ S = ((D \ {currentCheckpoint}) \cup ({batch.next} \ {None})) \cup {c}
        <5>1. /\ (D \cup {c}) \ {currentCheckpoint} = (D \ {currentCheckpoint}) \cup {c}
              /\ (D \cup {c}) \ {batch.next} = (D \ {batch.next}) \cup {c}
          BY <2>3
        <5>2. ((D \cup {c}) \ {currentCheckpoint}) \cup ({batch.next} \ {None})
                = ((D \ {currentCheckpoint}) \cup ({batch.next} \ {None})) \cup {c}
          BY <2>3
        <5>3. \/ S = D \cup {c} /\ X = indexed
              \/ phase # "closed" /\ crawler = "remove" /\ S = (D \cup {c}) \ {currentCheckpoint} /\ X = indexed
              \/ phase # "closed" /\ crawler = "trim" /\ S = (D \cup {c}) \ {batch.next} /\ X = indexed
              \/ /\ phase # "closed" /\ crawler \in {"decrypt", "delete"} /\ X = indexed \cup batch.events
                 /\ S = ((D \cup {c}) \ {currentCheckpoint}) \cup ({batch.next} \ {None})
          BY <2>1, <4>1, <4>2 DEF View
        <5> QED BY <5>1, <5>2, <5>3
      <4>5. CASE S = D \cup {c} /\ X = indexed
        <5>1. View(D, X)
          BY <4>2, <4>5 DEF View
        <5> QED BY <4>5, <5>1
      <4>6. CASE phase # "closed" /\ crawler = "remove" /\ S = (D \ {currentCheckpoint}) \cup {c} /\ X = indexed
        <5>1. View(D \ {currentCheckpoint}, X)
          BY <4>2, <4>6 DEF View
        <5> QED BY <4>6, <5>1
      <4>7. CASE phase # "closed" /\ crawler = "trim" /\ S = (D \ {batch.next}) \cup {c} /\ X = indexed
        <5>1. View(D \ {batch.next}, X)
          BY <4>2, <4>7 DEF View
        <5> QED BY <4>7, <5>1
      <4>8. CASE /\ phase # "closed" /\ crawler \in {"decrypt", "delete"} /\ X = indexed \cup batch.events
                 /\ S = ((D \ {currentCheckpoint}) \cup ({batch.next} \ {None})) \cup {c}
        <5>1. View((D \ {currentCheckpoint}) \cup ({batch.next} \ {None}), X)
          BY <4>2, <4>8 DEF View
        <5> QED BY <4>8, <5>1
      <4> QED BY <4>3, <4>5, <4>6, <4>7, <4>8
    <3> QED BY <2>1, <3>1, <3>2
  <2>5. PICK T : View(T, X) /\ (S = T \cup {c} \/ (phase = "closed" /\ S = T))
    BY <2>4
  <2>6. CoveredIn(q, T, X) /\ T \in SUBSET Checkpoint
    BY <1>old, <1>view, <2>2, <2>5
  <2>7. /\ X \subseteq X /\ T \subseteq S /\ S \cup adding' \subseteq T \cup adding
        /\ phase # "closed" => T \cup adding \subseteq S \cup adding'
        /\ live' \cup decrypting' \subseteq live \cup decrypting
        /\ \A e \in X \ X : e[2] \notin Wanted(e[1])
        /\ \A e \in (live \cup decrypting) \ (live' \cup decrypting') : e[2] \notin Wanted(e[1])
        /\ \A d \in S \ T : d.dir = "b"
    BY <2>1, <2>3, <2>5
  <2> QED BY <1>keep, <1>new, <2>1, <2>6, <2>7
<1>12. ASSUME NEW c \in seeds, AddInitialCheckpoint(c) PROVE CoveredIn(q, S, X)'
  <2>1. /\ UNCHANGED <<timeline, seen, saved, live, decrypting, adding, indexed, phase, crawler>> /\ setup = "seeding"
    BY <1>12 DEF AddInitialCheckpoint, serverVars, clientVars
  <2>2. phase = "syncing" /\ crawler = "off" /\ Started
    BY <1>und, <1>types, <2>1 DEF Kept, Loop, Started
  <2>3. stored' = stored \cup {c} /\ seeds' = seeds \ {c}
    BY <1>12, <1>und, <2>2 DEF AddInitialCheckpoint
  <2>4. Durable' = Durable
    BY <2>3 DEF Durable
  <2>5. View(S, indexed) /\ X = indexed
    BY <2>1, <2>2, <2>4 DEF View
  <2> QED BY <1>plain, <2>1, <2>2, <2>5
<1>13. ASSUME TakeCheckpoint PROVE CoveredIn(q, S, X)'
  <2>1. /\ UNCHANGED <<timeline, seen, saved, live, decrypting, adding, indexed, phase>>
        /\ UNCHANGED <<stored, seeds>> /\ crawler' \in {"off", "sleep", "fetch"}
    BY <1>13, <1>und, <1>types DEF TakeCheckpoint, Loop, Undisturbed, NextTurn, serverVars, clientVars, indexVars, handlerVars
  <2>2. View(S, indexed) /\ X = indexed
    BY <2>1 DEF View, Durable
  <2>3. Started
    BY <1>13, <1>st DEF TakeCheckpoint, handlerVars
  <2> QED BY <1>plain, <2>1, <2>2, <2>3
<1>14. ASSUME MessagesResponse PROVE CoveredIn(q, S, X)'
  <2>c. PICK c, D, n : c = currentCheckpoint /\ D = Durable /\ n = End(c)
    OBVIOUS
  <2>1. /\ UNCHANGED <<timeline, seen, saved, live, decrypting, adding, stored, seeds, currentCheckpoint, phase, indexed>>
        /\ crawler = "fetch"
        /\ \/ crawler' = "off"
           \/ crawler' = "remove" /\ Chunk(c) = {}
           \/ /\ crawler' = "decrypt"
              /\ batch' = Response(c) \/ (AtEnd(c) /\ batch' = [Response(c) EXCEPT !.next = None])
    BY <1>14, <2>c DEF MessagesResponse, serverVars, clientVars, indexVars, handlerVars
  <2>2. Started
    BY <1>14, <1>st DEF MessagesResponse, handlerVars
  <2>3. Durable' = D
    BY <2>1, <2>c DEF Durable
  <2>4. CASE S = D /\ X = indexed
    <3>1. View(S, indexed)
      BY <1>base, <2>4, <2>c
    <3> QED BY <1>plain, <2>1, <2>2, <2>4, <3>1
  <2>5. CASE ~(S = D /\ X = indexed)
    <3>1. phase # "closed" /\ crawler' \in {"remove", "decrypt"}
      BY <2>1, <2>3, <2>5 DEF View
    <3>2. c \in stored /\ c \in D /\ c \in Checkpoint
      BY <1>und, <1>typed, <2>1, <2>c, <3>1 DEF Tidy, Durable
    <3>3. c.token <= Len(timeline[c.room]) /\ c.token \in Nat /\ c.dir \in {"b", "f"}
      BY <1>types, <1>nat, <3>2 DEF Fresh, Known
    <3>4. /\ n \in Nat
          /\ c.dir = "b" => n <= c.token /\ (Chunk(c) = {} => c.token = 0) /\ (AtEnd(c) => n = 0)
          /\ c.dir = "f" => /\ c.token <= n
                            /\ Chunk(c) = {} => c.token = Len(timeline[c.room])
                            /\ AtEnd(c) => n = Len(timeline[c.room])
      BY <1>types, <2>c, <3>2, <3>3, Chunked
    <3>5. PICK W, P, A, B, F, B2, F2, x, sn, sv, open :
             /\ W = Wanted(q) /\ P = Positions(q, live \cup decrypting) /\ A = Tokens(q, adding, "b")
             /\ B = Tokens(q, D, "b") /\ F = Tokens(q, D, "f") /\ B2 = Tokens(q, S, "b") /\ F2 = Tokens(q, S, "f")
             /\ x = Positions(q, indexed) /\ sn = seen[q] /\ sv = saved[q] /\ open = (phase # "closed")
      OBVIOUS
    <3>6. /\ W \in SUBSET (Nat \ {0}) /\ x \in SUBSET Nat /\ P \in SUBSET Nat /\ B \in SUBSET Nat /\ A \in SUBSET Nat
          /\ F \in SUBSET Nat /\ sn \in Nat /\ sv \in Nat /\ B2 \in SUBSET Nat /\ F2 \in SUBSET Nat
      <4>1. live \cup decrypting \in SUBSET Event /\ adding \in SUBSET Checkpoint /\ D \in SUBSET Checkpoint /\ indexed \in SUBSET Event
        BY <1>typed, <2>c DEF Durable
      <4> QED BY <1>types, <1>new, <3>5, <4>1, Measured
    <3>7. Sound(W, x, P, B, A, F, sn, sv, open)
      <4>1. CoveredIn(q, D, indexed)
        BY <1>old, <1>base, <2>2, <2>c
      <4> QED BY <3>5, <4>1 DEF CoveredIn
    <3>8. CoveredIn(q, S, X)' = Sound(W, Positions(q, X), P, B2, A, F2, sn, sv, open)
      <4>1. Wanted(q)' = Wanted(q)
        BY <1>same_w, <2>1
      <4> QED BY <2>1, <3>5, <4>1 DEF CoveredIn
    <3>9. CASE crawler' = "remove"
      <4>1. Chunk(c) = {} /\ S = D \ {c} /\ X = indexed
        BY <2>1, <2>3, <2>5, <2>c, <3>9 DEF View
      <4>2. B2 \subseteq B /\ F2 \subseteq F
        BY <3>5, <4>1, Shares
      <4>3. B \subseteq B2 \cup {0}
        <5> SUFFICES ASSUME NEW t \in B, t # 0 PROVE t \in B2
          OBVIOUS
        <5>1. PICK d \in D : d.room = q /\ d.dir = "b" /\ d.token = t
          BY <3>5 DEF Tokens
        <5>2. d # c
          BY <3>4, <4>1, <5>1
        <5> QED BY <3>5, <4>1, <5>1, <5>2 DEF Tokens
      <4>4. \A t \in F \ F2 : sv <= t
        <5> SUFFICES ASSUME NEW t \in F \ F2 PROVE sv <= t
          OBVIOUS
        <5>1. PICK d \in D : d.room = q /\ d.dir = "f" /\ d.token = t
          BY <3>5 DEF Tokens
        <5>2. d = c
          BY <3>5, <4>1, <5>1 DEF Tokens
        <5>3. t = Len(timeline[q])
          BY <3>4, <4>1, <5>1, <5>2
        <5> QED BY <1>types, <1>nat, <3>5, <5>3 DEF Order
      <4>5. Sound(W, x, P, B2, A, F2, sn, sv, open)
        BY <3>6, <3>7, <4>2, <4>3, <4>4, Ended
      <4> QED BY <3>5, <3>8, <4>1, <4>5
    <3>10. CASE crawler' = "decrypt"
      <4>e. PICK E, m, G : E = batch'.events /\ m = batch'.next /\ G = Positions(q, batch'.events)
        OBVIOUS
      <4>1. S = (D \ {c}) \cup ({m} \ {None}) /\ X = indexed \cup E
        BY <2>1, <2>3, <2>5, <2>c, <3>10, <4>e DEF View
      <4>2. m = None \/ (m \in Checkpoint /\ m.token = n /\ m.room = c.room /\ m.dir = c.dir /\ m # None)
        <5>1. m = [c EXCEPT !.token = n] \/ m = None
          BY <2>1, <2>c, <3>2, <3>10, <4>e, <1>types, Answered DEF Response
        <5>2. m \in Checkpoint \cup {None}
          BY <1>types, <1>same, <4>e DEF TypeOK, Fetched
        <5> QED BY <1>typed, <3>2, <5>1, <5>2 DEF Checkpoint
      <4>3. m = None => AtEnd(c)
        <5>1. CASE batch' = Response(c)
          <6>1. m = [c EXCEPT !.token = n]
            BY <1>types, <2>c, <3>2, <4>e, <5>1, Answered
          <6>2. n \in 0 .. scenario.len
            <7>1. End(c) <= Len(timeline[c.room])
              BY <1>types, <3>2, <3>3, Chunked
            <7>2. Len(timeline[c.room]) <= scenario.len /\ Len(timeline[c.room]) \in Nat /\ scenario.len \in Nat
              BY <1>types, <3>2, Bounded
            <7> QED BY <2>c, <3>4, <7>1, <7>2
          <6>3. m \in Checkpoint
            BY <3>2, <6>1, <6>2 DEF Checkpoint
          <6> QED BY <1>typed, <6>3
        <5> QED BY <2>1, <3>10, <5>1
      <4>4. Positions(q, X) = x \cup G
        BY <3>5, <4>1, <4>e, Shares
      <4>g. /\ Gathered'
            /\ \A e \in E : e[1] = c.room
        <5>1. Gathered'
          BY <1>types, GatheredStep DEF Basis
        <5>2. faults' = 0
          BY DEF Undisturbed
        <5> QED BY <2>1, <2>c, <3>10, <4>e, <5>1, <5>2 DEF Gathered
      <4>5. CASE q # c.room
        <5>1. G = {}
          BY <4>5, <4>e, <4>g DEF Positions
        <5>2. \A d : d.room = q => (d \in S <=> d \in D)
          BY <4>1, <4>2, <4>5
        <5>3. B2 = B /\ F2 = F
          BY <3>5, <5>2 DEF Tokens
        <5> QED BY <3>7, <3>8, <4>4, <5>1, <5>3
      <4>6. CASE q = c.room
        <5>w. Wanted(q)' = W /\ \A p \in Nat : <<q, p>> \in E => p \in G
          BY <1>same_w, <2>1, <3>5, <4>e DEF Positions
        <5>g. G \in SUBSET Nat
          <6>1. E \in SUBSET Event
            BY <1>types, <1>same, <4>e DEF TypeOK, Fetched
          <6> QED BY <1>types, <1>new, <4>e, <6>1, Measured
        <5>1. CASE c.dir = "b"
          <6>1. m = None => n = 0
            BY <3>4, <4>3, <5>1
          <6>2. /\ \A e \in E : n < e[2] /\ e[2] <= c.token
                /\ \A p \in W : n < p /\ p <= c.token => <<q, p>> \in E
            <7>1. n = IF m = None THEN 0 ELSE m.token
              BY <4>2, <6>1
            <7>2. faults' = 0
              BY DEF Undisturbed
            <7> QED BY <2>1, <2>c, <3>10, <4>e, <4>g, <4>6, <5>1, <5>w, <7>1, <7>2 DEF Gathered
          <6>3. /\ \A p \in G : n < p /\ p <= c.token
                /\ \A p \in W : n < p /\ p <= c.token => p \in G
            BY <3>6, <4>e, <5>w, <6>2 DEF Positions
          <6>4. F2 = F
            <7>1. \A d : d.dir = "f" => (d \in S <=> d \in D)
              BY <4>1, <4>2, <5>1
            <7> QED BY <3>5, <7>1 DEF Tokens
          <6>5. c.token \in B
            BY <3>2, <3>5, <4>6, <5>1 DEF Tokens
          <6>6. B \ {c.token} \subseteq B2
            BY <3>5, <4>1 DEF Tokens
          <6>7. B2 \subseteq B \cup {n}
            BY <3>5, <4>1, <4>2 DEF Tokens
          <6>8. n \in B2 \/ n = 0
            <7>1. m # None => m \in S
              BY <4>1
            <7> QED BY <3>5, <4>2, <4>6, <5>1, <6>1, <7>1 DEF Tokens
          <6>9. n <= c.token
            BY <3>4, <5>1
          <6>10. Sound(W, x \cup G, P, B2, A, F, sn, sv, open)
            BY <3>4, <3>6, <3>7, <5>g, <6>3, <6>5, <6>6, <6>7, <6>8, <6>9, FetchedBack
          <6> QED BY <3>8, <4>4, <6>4, <6>10
        <5>2. CASE c.dir = "f"
          <6>1. F = {c.token}
            <7>1. \A d \in D : d.room = q /\ d.dir = "f" => d = c
              BY <1>und, <2>c, <3>2, <4>6, <5>2 DEF Apart, Durable
            <7> QED BY <3>2, <3>5, <4>6, <5>2, <7>1 DEF Tokens
          <6>2. B2 = B
            <7>1. \A d : d.dir = "b" => (d \in S <=> d \in D)
              BY <4>1, <4>2, <5>2
            <7> QED BY <3>5, <7>1 DEF Tokens
          <6>3. \A d \in S : d.room = q /\ d.dir = "f" => d = m
            BY <1>und, <2>c, <3>2, <4>1, <4>6, <5>2 DEF Apart, Durable
          <6>4. F2 \in SUBSET {n}
            BY <1>typed, <1>new, <3>5, <4>2, <6>3 DEF Tokens
          <6>5. F2 = {n} \/ sv <= n
            <7>1. CASE m = None
              <8>1. n = Len(timeline[q])
                BY <3>4, <4>3, <4>6, <5>2, <7>1
              <8> QED BY <1>types, <1>nat, <3>5, <8>1 DEF Order
            <7>2. CASE m # None
              <8>1. m \in S /\ m.room = q /\ m.dir = "f" /\ m.token = n
                BY <4>1, <4>2, <4>6, <5>2, <7>2
              <8>2. n \in F2
                BY <3>5, <8>1 DEF Tokens
              <8> QED BY <6>4, <8>2
            <7> QED BY <7>1, <7>2
          <6>6. /\ \A p \in G : c.token < p /\ p <= n
                /\ \A p \in W : c.token < p /\ p <= n => p \in G
            <7>1. /\ E = Response(c).events
              BY <2>1, <3>10, <4>e DEF Response
            <7>2. Chunk(c) = (c.token + 1) .. n
              BY <1>types, <2>c, <3>2, <3>3, <5>2, Chunked
            <7>3. /\ \A e \in E : e[2] \in Chunk(c)
                  /\ \A p \in W : p \in Chunk(c) => <<q, p>> \in E
              BY <1>types, <3>2, <3>5, <4>6, <7>1, Answered
            <7>4. \A p \in Nat : p \in Chunk(c) <=> c.token < p /\ p <= n
              BY <3>3, <3>4, <7>2
            <7>5. \A p \in G : p \in Chunk(c)
              BY <4>e, <7>3 DEF Positions
            <7> QED BY <3>6, <5>w, <5>g, <7>3, <7>4, <7>5
          <6>7. c.token <= n
            BY <3>4, <5>2
          <6>8. Sound(W, x, P, B, A, {c.token}, sn, sv, open)
            BY <3>7, <6>1
          <6>10. Sound(W, x \cup G, P, B, A, F2, sn, sv, open)
            BY <3>3, <3>4, <3>6, <5>g, <6>4, <6>5, <6>6, <6>7, <6>8, FetchedForth
          <6> QED BY <3>8, <4>4, <6>2, <6>10
        <5> QED BY <3>3, <5>1, <5>2
      <4> QED BY <4>5, <4>6
    <3> QED BY <3>1, <3>9, <3>10
  <2> QED BY <2>4, <2>5
<1>15. ASSUME MessagesError PROVE CoveredIn(q, S, X)'
  <2>1. /\ UNCHANGED <<timeline, seen, saved, live, decrypting, adding, indexed, phase>>
        /\ UNCHANGED <<stored, seeds>> /\ crawler' \in {"off", "sleep"}
    BY <1>15, <1>und, <1>types DEF MessagesError, Loop, Undisturbed, NextTurn, serverVars, clientVars, indexVars, handlerVars
  <2>2. View(S, indexed) /\ X = indexed
    BY <2>1 DEF View, Durable
  <2>3. Started
    BY <1>15, <1>st DEF MessagesError, handlerVars
  <2> QED BY <1>plain, <2>1, <2>2, <2>3
<1>16. ASSUME CheckpointRemoved PROVE CoveredIn(q, S, X)'
  <2>1. /\ UNCHANGED <<timeline, seen, saved, live, decrypting, adding, indexed, phase>>
        /\ UNCHANGED seeds /\ crawler = "remove" /\ crawler' \in {"off", "sleep"}
        /\ (phase = "closed" /\ UNCHANGED stored) \/ (phase # "closed" /\ stored' = stored \ {currentCheckpoint})
    BY <1>16, <1>und, <1>types DEF CheckpointRemoved, Loop, Undisturbed, NextTurn, serverVars, clientVars, indexVars, handlerVars
  <2>2. phase # "closed" => currentCheckpoint \notin seeds
    <3>1. phase # "closed" => currentCheckpoint \in Known
      BY <1>und, <2>1 DEF Tidy, Known
    <3> QED BY <1>unseeded, <3>1
  <2>4. View(S, indexed) /\ X = indexed
    <3>1. S = Durable' /\ X = indexed
      BY <2>1 DEF View
    <3>2. phase # "closed" => Durable' = Durable \ {currentCheckpoint}
      BY <2>1, <2>2 DEF Durable
    <3>3. phase = "closed" => Durable' = Durable
      BY <2>1 DEF Durable
    <3> QED BY <2>1, <3>1, <3>2, <3>3 DEF View
  <2>3. Started
    BY <1>16, <1>st DEF CheckpointRemoved, handlerVars
  <2> QED BY <1>plain, <2>1, <2>3, <2>4
<1>17. ASSUME AddHistoricEvents PROVE CoveredIn(q, S, X)'
  <2>c. PICK c, m, E : c = currentCheckpoint /\ m = batch.next /\ E = batch.events
    OBVIOUS
  <2>1. /\ UNCHANGED <<timeline, seen, saved, live, decrypting, adding, seeds, phase>> /\ crawler = "delete"
        /\ \/ phase = "closed" /\ UNCHANGED <<stored, indexed>>
           \/ /\ phase # "closed" /\ stored' = (stored \ {c}) \cup ({m} \ {None})
              /\ indexed' = indexed \cup E
              /\ \/ crawler' \in {"off", "sleep"}
                 \/ crawler' = "trim" /\ batch' = batch /\ m # None /\ AlreadyAdded
    BY <1>17, <1>und, <2>c DEF AddHistoricEvents, NextTurn, serverVars, clientVars, handlerVars
  <2>2. Started
    BY <1>17, <1>st DEF AddHistoricEvents, handlerVars
  <2>f. faults = 0
    BY <1>und DEF Undisturbed
  <2>4. CASE phase = "closed"
    <3>1. View(S, indexed) /\ X = indexed
      BY <2>1, <2>4 DEF View, Durable
    <3> QED BY <1>plain, <2>1, <2>2, <2>4, <3>1
  <2>5. CASE phase # "closed"
    <3>c. c \in stored /\ c \in Checkpoint /\ c \notin seeds
      <4>1. c \in stored /\ c \in Known
        BY <1>und, <2>1, <2>5, <2>c DEF Tidy, Known
      <4> QED BY <1>unseeded, <1>typed, <4>1
    <3>0. stored' = (stored \ {c}) \cup ({m} \ {None}) /\ indexed' = indexed \cup E
      BY <2>1, <2>5
    <3>1. Durable' = (Durable \ {c}) \cup ({m} \ {None})
      BY <2>1, <3>0, <3>c DEF Durable
    <3>2. CASE S = Durable' /\ X = indexed'
      <4>1. View(S, X)
        BY <2>1, <2>5, <2>c, <3>0, <3>1, <3>2 DEF View
      <4> QED BY <1>u, <2>1, <2>2, <4>1
    <3>3. CASE ~(S = Durable' /\ X = indexed')
      <4>1. /\ crawler' = "trim" /\ batch' = batch /\ m # None /\ AlreadyAdded
            /\ S = Durable' \ {m} /\ X = indexed'
        <5>1. crawler' \in {"trim", "remove", "decrypt", "delete"}
          BY <3>3 DEF View
        <5>2. crawler' = "trim" /\ batch' = batch /\ m # None /\ AlreadyAdded
          BY <2>1, <2>5, <5>1
        <5> QED BY <2>c, <3>3, <5>2 DEF View
      <4>2. Same(m, c) /\ m \in Checkpoint
        BY <1>types, <1>typed, <2>c, <4>1 DEF Loop
      <4>3. \A d \in Durable : Same(m, d) => d = c
        BY <1>und, <3>c, <4>2 DEF Apart, Durable, Same
      <4>4. S = Durable \ {c}
        <5>1. m \notin Durable \ {c}
          BY <4>3 DEF Same
        <5> QED BY <3>1, <4>1, <5>1
      <4>5. PICK y \in E : y \in indexed
        BY <2>c, <4>1 DEF AlreadyAdded
      <4>a. E \subseteq indexed
        BY <2>c, <4>1 DEF AlreadyAdded
      <4>6. PICK D : D = Durable
        OBVIOUS
      <4>7. PICK W, P, A, B, F, B2, F2, x, sn, sv, open, p, n, k :
               /\ W = Wanted(q) /\ P = Positions(q, live \cup decrypting) /\ A = Tokens(q, adding, "b")
               /\ B = Tokens(q, D, "b") /\ F = Tokens(q, D, "f") /\ B2 = Tokens(q, S, "b") /\ F2 = Tokens(q, S, "f")
               /\ x = Positions(q, indexed) /\ sn = seen[q] /\ sv = saved[q] /\ open = (phase # "closed")
               /\ p = c.token /\ n = m.token /\ k = y[2]
        OBVIOUS
      <4>8. /\ W \in SUBSET (Nat \ {0}) /\ x \in SUBSET Nat /\ P \in SUBSET Nat /\ B \in SUBSET Nat /\ A \in SUBSET Nat
            /\ F \in SUBSET Nat /\ sn \in Nat /\ sv \in Nat /\ B2 \in SUBSET Nat /\ F2 \in SUBSET Nat
            /\ p \in Nat /\ n \in Nat
        <5>1. live \cup decrypting \in SUBSET Event /\ adding \in SUBSET Checkpoint /\ D \in SUBSET Checkpoint /\ indexed \in SUBSET Event
          BY <1>typed, <4>6 DEF Durable
        <5>2. p \in Nat /\ n \in Nat
          BY <1>nat, <3>c, <4>2, <4>7
        <5> QED BY <1>types, <1>new, <4>7, <5>1, <5>2, Measured
      <4>9. Sound(W, x, P, B, A, F, sn, sv, open)
        <5>1. CoveredIn(q, D, indexed)
          BY <1>old, <1>base, <2>2, <4>6
        <5> QED BY <4>7, <5>1 DEF CoveredIn
      (* The crawl may stop here. *)
      <4>10. Sound(W, x, P, B2, A, F2, sn, sv, open)
        <5>1. CASE q # c.room
          <6>1. \A d : d.room = q => (d \in S <=> d \in D)
            BY <4>4, <4>6, <5>1
          <6>2. B2 = B /\ F2 = F
            BY <4>7, <6>1 DEF Tokens
          <6> QED BY <4>9, <6>2
        <5>2. CASE q = c.room
          <6>e. \A e \in E : e[1] = q
            BY <2>1, <2>c, <2>f, <5>2 DEF Gathered
          <6>k. k \in x /\ y \in E
            BY <4>5, <4>7, <6>e DEF Positions
          <6>w. \A z \in W : <<q, z>> \in E => z \in x
            <7> SUFFICES ASSUME NEW z \in W, <<q, z>> \in E PROVE z \in x
              OBVIOUS
            <7>3. <<q, z>> \in indexed
              BY <4>a
            <7> QED BY <4>7, <7>3 DEF Positions
          <6>1. CASE c.dir = "b"
            <7>1. /\ n < k /\ k <= p
                  /\ \A z \in W : n < z /\ z <= p => <<q, z>> \in E
              BY <2>1, <2>c, <2>f, <4>1, <4>7, <5>2, <6>1, <6>k DEF Gathered
            <7>2. F2 = F
              <8>1. \A d : d.dir = "f" => (d \in S <=> d \in D)
                BY <4>4, <4>6, <6>1
              <8> QED BY <4>7, <8>1 DEF Tokens
            <7>3. p \in B
              BY <3>c, <4>6, <4>7, <5>2, <6>1 DEF Tokens, Durable
            <7>4. B2 \in SUBSET B /\ B \ {p} \subseteq B2
              BY <4>4, <4>6, <4>7 DEF Tokens
            <7>5. \A z \in W : n < z /\ z <= p => z \in x
              BY <6>w, <7>1
            <7>6. Sound(W, x, P, B2, A, F, sn, sv, open)
              BY <4>8, <4>9, <6>k, <7>1, <7>3, <7>4, <7>5, TrimmedBack
            <7> QED BY <7>2, <7>6
          <6>2. CASE c.dir = "f"
            <7>1. /\ p < k /\ k <= n
                  /\ \A z \in W : p < z /\ z <= n => <<q, z>> \in E
              BY <2>1, <2>c, <2>f, <4>1, <4>7, <5>2, <6>2, <6>k DEF Gathered
            <7>2. B2 = B
              <8>1. \A d : d.dir = "b" => (d \in S <=> d \in D)
                BY <4>4, <4>6, <6>2
              <8> QED BY <4>7, <8>1 DEF Tokens
            <7>3. \A d \in D : d.room = q /\ d.dir = "f" => d = c
              BY <1>und, <3>c, <4>6, <5>2, <6>2 DEF Apart, Durable
            <7>4. c \in D
              BY <3>c, <4>6 DEF Durable
            <7>5. F = {p}
              BY <4>7, <5>2, <6>2, <7>3, <7>4 DEF Tokens
            <7>6. F2 = {}
              BY <4>4, <4>6, <4>7, <7>3 DEF Tokens
            <7>7. \A z \in W : p < z /\ z <= n => z \in x
              BY <6>w, <7>1
            <7>8. Sound(W, x, P, B, A, {p}, sn, sv, open)
              BY <4>9, <7>5
            <7>9. Sound(W, x, P, B, A, {}, sn, sv, open)
              BY <4>8, <6>k, <7>1, <7>7, <7>8, TrimmedForth
            <7> QED BY <7>2, <7>6, <7>9
          <6> QED BY <1>nat, <3>c, <6>1, <6>2
        <5> QED BY <5>1, <5>2
      <4>11. X = indexed
        BY <3>0, <4>1, <4>a
      <4>12. Wanted(q)' = W
        BY <1>same_w, <2>1, <4>7
      <4> QED BY <2>1, <4>7, <4>10, <4>11, <4>12 DEF CoveredIn
    <3> QED BY <3>2, <3>3
  <2> QED BY <2>4, <2>5
<1>18. ASSUME CrawlTrimmed PROVE CoveredIn(q, S, X)'
  <2>1. /\ UNCHANGED <<timeline, seen, saved, live, decrypting, adding, indexed, phase>>
        /\ UNCHANGED seeds /\ crawler = "trim" /\ crawler' \in {"off", "sleep"}
        /\ (phase = "closed" /\ UNCHANGED stored) \/ (phase # "closed" /\ stored' = stored \ {batch.next})
    BY <1>18, <1>und, <1>types DEF CrawlTrimmed, Loop, Undisturbed, NextTurn, serverVars, clientVars, indexVars, handlerVars
  <2>2. batch.next \notin seeds
    <3>1. batch.next \in Known
      BY <1>types, <2>1 DEF Loop, Known
    <3> QED BY <1>unseeded, <3>1
  <2>4. View(S, indexed) /\ X = indexed
    <3>1. S = Durable' /\ X = indexed
      BY <2>1 DEF View
    <3>2. phase # "closed" => Durable' = Durable \ {batch.next}
      BY <2>1, <2>2 DEF Durable
    <3>3. phase = "closed" => Durable' = Durable
      BY <2>1 DEF Durable
    <3> QED BY <2>1, <3>1, <3>2, <3>3 DEF View
  <2>3. Started
    BY <1>18, <1>st DEF CrawlTrimmed, handlerVars
  <2> QED BY <1>plain, <2>1, <2>3, <2>4
<1>19. ASSUME Close PROVE CoveredIn(q, S, X)'
  <2>1. /\ UNCHANGED <<timeline, seen, saved, live, decrypting, adding, indexed, stored, seeds>> /\ phase' = "closed"
    BY <1>19 DEF Close, serverVars, clientVars, indexVars, handlerVars
  <2>2. S = Durable /\ X = indexed
    BY <2>1 DEF View, Durable
  <2>3. Started
    BY <1>19, <1>st DEF Close, handlerVars
  <2>4. CoveredIn(q, S, X)
    BY <1>old, <1>base, <2>2, <2>3
  <2>5. /\ X \subseteq X /\ S \subseteq S /\ S \cup adding' \subseteq S \cup adding
        /\ live' \cup decrypting' \subseteq live \cup decrypting
        /\ \A e \in X \ X : e[2] \notin Wanted(e[1])
        /\ \A c \in S \ S : c.dir = "b"
    BY <2>1
  <2> QED BY <1>keep, <1>new, <2>1, <2>4, <2>5
<1>20. ASSUME Reload PROVE CoveredIn(q, S, X)'
  <2>1. /\ UNCHANGED <<timeline, saved, stored, indexed>> /\ seeds' = {} /\ seen' = saved /\ live' = {} /\ decrypting' = {}
        /\ adding' = {} /\ crawler' = "off" /\ setup # "seeding" /\ setup' = "idle"
    BY <1>20, <1>und DEF Reload, serverVars, Undisturbed
  <2>2. seeds = {} /\ Started
    BY <1>types, <1>begun, <2>1 DEF Loop
  <2>3. View(S, X)
    BY <2>1, <2>2 DEF View, Durable
  <2>4. CoveredIn(q, S, X)
    BY <1>old, <2>2, <2>3
  <2>6. PICK W, x, P, B, A, F : /\ W = Wanted(q) /\ x = Positions(q, X)
             /\ P = Positions(q, live \cup decrypting) /\ B = Tokens(q, S, "b") /\ A = Tokens(q, adding, "b")
             /\ F = Tokens(q, S, "f")
    OBVIOUS
  <2>7. /\ W \in SUBSET Nat /\ x \in SUBSET Nat /\ P \in SUBSET Nat /\ B \in SUBSET Nat /\ A \in SUBSET Nat
        /\ F \in SUBSET Nat /\ seen[q] \in Nat /\ saved[q] \in Nat
    <3>1. live \cup decrypting \in SUBSET Event /\ adding \in SUBSET Checkpoint
      BY <1>typed
    <3> QED BY <1>types, <1>new, <2>6, <3>1, Measured
  <2>9. Positions(q, live' \cup decrypting') = {} /\ Tokens(q, adding', "b") = {}
    BY <2>1 DEF Positions, Tokens
  <2>10. Sound(W, x, P, B, A, F, seen[q], saved[q], phase # "closed")
    BY <2>4, <2>6 DEF CoveredIn
  <2>11. Sound(W, x, {}, B, {}, F, saved[q], saved[q], phase' # "closed")
    BY <2>7, <2>10, Restarted
  <2>12. Wanted(q)' = W
    BY <1>same_w, <2>1, <2>6
  <2> QED BY <2>1, <2>6, <2>9, <2>11, <2>12 DEF CoveredIn
<1>22. ASSUME IsEventIndexEmpty PROVE CoveredIn(q, S, X)'
  <2>1. UNCHANGED <<timeline, seen, saved, live, decrypting, adding, stored, indexed, crawler, phase>> /\ setup = "asking"
    BY <1>22 DEF IsEventIndexEmpty, serverVars, clientVars, indexVars, crawlerVars
  <2>2. crawler = "off" /\ seeds = {} /\ live = {} /\ decrypting = {} /\ adding = {} /\ seen = saved /\ phase = "syncing"
    BY <1>types, <1>und, <2>1 DEF Loop, Kept, Undisturbed
  <2>3. S = Durable' /\ X = indexed
    BY <2>1, <2>2 DEF View
  <2>4. CASE Started
    <3>1. seeds' = seeds
      BY <1>22, <1>und, <2>1, <2>2, <2>4 DEF IsEventIndexEmpty, Started
    <3>2. View(S, X)
      BY <2>1, <2>3, <3>1 DEF View, Durable
    <3> QED BY <1>u, <2>1, <2>4, <3>2
  <2>5. CASE ~Started
    <3>1. indexed = {} /\ stored = {} /\ seeds' = InitialCheckpoints
      BY <1>22, <1>und, <2>1, <2>2, <2>5 DEF IsEventIndexEmpty, Started
    <3>2. S = InitialCheckpoints /\ X = {}
      BY <2>1, <2>3, <3>1 DEF Durable
    <3> DEFINE b == NewCheckpoint(q, token[q], TRUE, "b")
               f == NewCheckpoint(q, token[q], FALSE, "f")
    <3>3. b.room = q /\ b.dir = "b" /\ b.token = token[q] /\ f.room = q /\ f.dir = "f" /\ f.token = token[q]
      BY DEF NewCheckpoint
    <3>4. b \in S /\ f \in S
      <4>1. q \in {p \in encrypted : token[p] > 0}
        BY <1>enc, <1>und, <1>nat
      <4>2. {b, f} \in {{NewCheckpoint(p, token[p], TRUE, "b"), NewCheckpoint(p, token[p], FALSE, "f")} :
                            p \in {p \in encrypted : token[p] > 0}}
        BY <4>1
      <4>3. b \in {b, f} /\ f \in {b, f}
        OBVIOUS
      <4> HIDE DEF b, f
      <4>4. b \in InitialCheckpoints /\ f \in InitialCheckpoints
        BY <4>2, <4>3, Zenon DEF InitialCheckpoints
      <4> QED BY <3>2, <4>4
    <3>5. \A c \in S : c.room = q => c = b \/ c = f
      <4> SUFFICES ASSUME NEW c \in S, c.room = q PROVE c = b \/ c = f
        OBVIOUS
      <4>1. PICK p \in encrypted : c \in {NewCheckpoint(p, token[p], TRUE, "b"), NewCheckpoint(p, token[p], FALSE, "f")}
        BY <3>2 DEF InitialCheckpoints
      <4>2. p = q
        BY <4>1 DEF NewCheckpoint
      <4> QED BY <4>1, <4>2
    <3> HIDE DEF b, f
    <3>6. Tokens(q, S, "b") = {token[q]} /\ Tokens(q, S, "f") = {token[q]}
      BY <3>3, <3>4, <3>5 DEF Tokens
    <3>7. /\ Positions(q, X) = {} /\ Positions(q, live' \cup decrypting') = {} /\ Tokens(q, adding', "b") = {}
      BY <2>1, <2>2, <3>2 DEF Positions, Tokens
    <3>8. Sound(Wanted(q), {}, {}, {token[q]}, {}, {token[q]}, seen[q], seen[q], phase' # "closed")
      <4>1. Wanted(q) \in SUBSET (Nat \ {0})
        BY <1>types, <1>new, Measured
      <4>2. token[q] <= seen[q]
        BY <1>types DEF Order
      <4> QED BY <1>nat, <4>1, <4>2, Seeded
    <3>9. Wanted(q)' = Wanted(q) /\ seen'[q] = seen[q] /\ saved'[q] = seen[q]
      BY <1>same_w, <2>1, <2>2
    <3> QED BY <3>6, <3>7, <3>8, <3>9 DEF CoveredIn
  <2> QED BY <2>4, <2>5
<1>23. ASSUME NEW r \in checking, IsRoomIndexed(r) PROVE CoveredIn(q, S, X)'
  BY <1>23, <1>types, <1>und DEF Loop, Undisturbed
(* The filter drops redacted events only. *)
<1>24. ASSUME FilterEvents PROVE CoveredIn(q, S, X)'
  <2>1. /\ UNCHANGED <<timeline, seen, saved, live, decrypting, adding, stored, seeds, currentCheckpoint, phase, indexed>>
        /\ crawler = "decrypt" /\ crawler' = "delete"
    BY <1>24 DEF FilterEvents, serverVars, clientVars, indexVars, handlerVars
  <2>2. batch' = [batch EXCEPT !.events = Valid(batch.events)]
    <3>1. faults' = 0
      BY DEF Undisturbed
    <3>2. faults \in Nat
      BY <1>types, Bounded
    <3> QED BY <1>24, <3>1, <3>2 DEF FilterEvents
  <2>3. batch'.events = Valid(batch.events) /\ batch'.next = batch.next
    BY <1>types, <2>2 DEF TypeOK, Fetched
  <2>4. Started
    BY <1>24, <1>st DEF FilterEvents, handlerVars
  <2>5. \A e \in batch.events \ Valid(batch.events) : e[2] \notin Wanted(e[1])
    BY <1>red, <1>typed DEF Valid
  <2>6. Durable' = Durable
    BY <2>1 DEF Durable
  <2>7. PICK Y : View(S, Y) /\ X \subseteq Y /\ \A e \in Y \ X : e \in batch.events \ Valid(batch.events)
    <3>1. Valid(batch.events) \subseteq batch.events
      BY DEF Valid
    <3>2. \/ S = Durable /\ X = indexed
          \/ /\ phase # "closed" /\ S = (Durable \ {currentCheckpoint}) \cup ({batch.next} \ {None})
             /\ X = indexed \cup Valid(batch.events)
      BY <2>1, <2>3, <2>6 DEF View
    <3>3. CASE S = Durable /\ X = indexed
      BY <1>base, <3>3
    <3>4. CASE /\ phase # "closed" /\ S = (Durable \ {currentCheckpoint}) \cup ({batch.next} \ {None})
               /\ X = indexed \cup Valid(batch.events)
      <4>1. View(S, indexed \cup batch.events)
        BY <2>1, <3>4 DEF View
      <4> QED BY <3>1, <3>4, <4>1
    <3> QED BY <3>2, <3>3, <3>4
  <2>8. CoveredIn(q, S, Y) /\ Y \in SUBSET Event
    BY <1>old, <1>view, <2>4, <2>7
  <2>9. /\ S \subseteq S /\ S \cup adding' \subseteq S \cup adding /\ S \cup adding \subseteq S \cup adding'
        /\ live' \cup decrypting' \subseteq live \cup decrypting
        /\ \A e \in Y \ X : e[2] \notin Wanted(e[1])
        /\ \A e \in (live \cup decrypting) \ (live' \cup decrypting') : e[2] \notin Wanted(e[1])
        /\ \A c \in S \ S : c.dir = "b"
    BY <2>1, <2>5, <2>7
  <2> QED BY <1>keep, <1>new, <2>1, <2>7, <2>8, <2>9
(* So does the deletion of what the batch redacts. *)
<1>25. ASSUME NEW e \in batch.gone, DeleteRedacted(e) PROVE CoveredIn(q, S, X)'
  <2>1. UNCHANGED <<timeline, seen, saved, decrypting, adding, stored, seeds, phase>> /\ crawler = "delete"
    BY <1>25 DEF DeleteRedacted, serverVars, clientVars, handlerVars
  <2>2. \/ /\ phase # "closed" /\ indexed' = indexed \ {e} /\ live' = live \ {e} /\ UNCHANGED <<crawler, currentCheckpoint>>
           /\ batch' = [batch EXCEPT !.gone = batch.gone \ {e}]
        \/ phase = "closed" /\ UNCHANGED <<indexed, live>>
    BY <1>25, <1>und DEF DeleteRedacted
  <2>3. [batch EXCEPT !.gone = batch.gone \ {e}].next = batch.next /\ [batch EXCEPT !.gone = batch.gone \ {e}].events = batch.events
    BY <1>types DEF TypeOK, Fetched
  <2>4. Started
    BY <1>25, <1>st DEF DeleteRedacted, handlerVars
  <2>5. e \in Event /\ e[2] \notin Wanted(e[1])
    <3>1. e \in Event /\ Redacted(e, Len(timeline[e[1]]))
      BY <1>types, <1>25 DEF TypeOK, Fetched, Placed
    <3> QED BY <1>red, <3>1
  <2>6. Durable' = Durable
    BY <2>1 DEF Durable
  <2>7. PICK Y : View(S, Y) /\ X \subseteq Y /\ \A d \in Y \ X : d = e
    <3>1. CASE phase = "closed"
      <4>1. S = Durable /\ X = indexed
        BY <2>1, <2>2, <2>6, <3>1 DEF View
      <4> QED BY <1>base, <4>1
    <3>2. CASE phase # "closed"
      <4>1. \/ S = Durable /\ X = indexed \ {e}
            \/ /\ S = (Durable \ {currentCheckpoint}) \cup ({batch.next} \ {None})
               /\ X = (indexed \ {e}) \cup batch.events
        BY <2>1, <2>2, <2>3, <2>6, <3>2 DEF View
      <4>2. CASE S = Durable /\ X = indexed \ {e}
        BY <1>base, <4>2
      <4>3. CASE /\ S = (Durable \ {currentCheckpoint}) \cup ({batch.next} \ {None})
                 /\ X = (indexed \ {e}) \cup batch.events
        <5>1. View(S, indexed \cup batch.events)
          BY <2>1, <3>2, <4>3 DEF View
        <5> QED BY <4>3, <5>1
      <4> QED BY <4>1, <4>2, <4>3
    <3> QED BY <3>1, <3>2
  <2>8. CoveredIn(q, S, Y) /\ Y \in SUBSET Event
    BY <1>old, <1>view, <2>4, <2>7
  <2>9. /\ S \subseteq S /\ S \cup adding' \subseteq S \cup adding /\ S \cup adding \subseteq S \cup adding'
        /\ live' \cup decrypting' \subseteq live \cup decrypting
        /\ \A d \in Y \ X : d[2] \notin Wanted(d[1])
        /\ \A d \in (live \cup decrypting) \ (live' \cup decrypting') : d[2] \notin Wanted(d[1])
        /\ \A c \in S \ S : c.dir = "b"
    BY <2>1, <2>2, <2>5, <2>7
  <2> QED BY <1>keep, <1>new, <2>1, <2>7, <2>8, <2>9
<1>21. CASE UNCHANGED vars
  <2>1. UNCHANGED <<timeline, seen, saved, live, decrypting, adding, stored, seeds, currentCheckpoint, batch, crawler, indexed, phase>>
        /\ setup' = setup
    BY <1>21 DEF vars, serverVars, clientVars, indexVars, handlerVars, crawlerVars
  <2> QED BY <1>st, <1>u, <1>seen, <2>1
<1> QED
  BY <1>1, <1>2, <1>3, <1>4, <1>5, <1>6, <1>7, <1>8, <1>9, <1>10, <1>11, <1>12, <1>13, <1>14, <1>15, <1>16, <1>17, <1>18, <1>19, <1>20, <1>21, <1>22, <1>23,
     <1>24, <1>25
  DEF Next, Sync, Handlers, CrawlerFunc

(* What a crawl, the live listeners and the sync position leave behind is  *)
(* in the index or below a stored checkpoint, in whichever order crawls in *)
(* both directions, live events, gaps, commits, redactions and reloads     *)
(* come, and with the crawls that stop early because they seem to have     *)
(* caught up.                                                              *)
Whole == Basis /\ Kept /\ Gathered /\ Coverage

LEMMA InitWhole == Init => Whole
<1> SUFFICES ASSUME Init PROVE Whole
  OBVIOUS
<1>1. Basis
  BY InitBasis
<1>2. Kept
  <2>1. Queue = {} /\ stored = {} /\ seeds = {} /\ crawler = "off" /\ crawlerCheckpoints = <<>> /\ setup = "idle"
    BY DEF Init, Queue, ToSet
  <2>2. Apart /\ Tidy
    BY <2>1 DEF Apart, Tidy, Once
  <2>3. Undisturbed => \A r \in Room : 1 <= token[r]
    <3>1. \A r \in Room : token[r] \in LiveTokens(seen[r]) /\ seen[r] \in Nat
      BY <1>1, Bounded DEF Init, Basis
    <3> QED BY <3>1 DEF Undisturbed, LiveTokens
  <2> QED BY <2>1, <2>2, <2>3 DEF Kept
<1>3. Gathered
  BY DEF Init, Gathered
<1>4. Coverage
  BY DEF Init, Coverage, Started
<1> QED BY <1>1, <1>2, <1>3, <1>4 DEF Whole

(* The inductive invariant: what the index and the crawler hold covers     *)
(* every room, and it will when the crawler has done its next step.        *)
THEOREM WholeHolds == Spec => []Whole
<1>1. ASSUME Whole, [Next]_vars PROVE Whole'
  <2>1. Basis'
    BY <1>1, TypeStep, OrderStep, PlacedStep, LoopStep, FreshStep DEF Basis, Whole
  <2>2. Kept'
    BY <1>1, KeptStep DEF Basis, Whole
  <2>3. Gathered'
    BY <1>1, GatheredStep DEF Basis, Whole
  <2>4. Coverage'
    BY <1>1, <2>1, CoverageStep DEF Whole
  <2> QED BY <2>1, <2>2, <2>3, <2>4 DEF Whole
<1> QED BY <1>1, InitWhole, PTL DEF Spec

(* No message of a room is forgotten: what the client will not sync again  *)
(* is in the index, or below a checkpoint that the index stores.           *)
THEOREM NothingIsLost == Spec => []OrderedNothingLost
<1>1. ASSUME Whole PROVE OrderedNothingLost
  <2> SUFFICES ASSUME Undisturbed, setup # "seeding", ~(indexed = {} /\ stored = {}), NEW e \in Event, e[1] \in encrypted,
                      ~(e[2] > saved[e[1]]), IsMessage(e), ~Redacted(e, Len(timeline[e[1]])), e \notin indexed
               PROVE  \E c \in stored : Covers(c, e)
    BY DEF OrderedNothingLost, NothingLost
  <2>1. TypeOK /\ Order /\ Loop
    BY <1>1 DEF Whole, Basis
  <2>2. PICK r, x : r = e[1] /\ x = e[2]
    OBVIOUS
  <2>3. r \in Room /\ x \in Nat /\ 1 <= x /\ e = <<r, x>> /\ saved[r] \in Nat /\ Len(timeline[r]) \in Nat
        /\ x <= saved[r]
    <3>1. r \in Room /\ x \in Nat /\ 1 <= x /\ e = <<r, x>> /\ saved[r] \in Nat /\ Len(timeline[r]) \in Nat
      BY <2>1, <2>2, Bounded
    <3> QED BY <2>2, <3>1
  <2>4. Durable = stored
    BY <2>1 DEF Loop, Durable
  <2>5. CoveredIn(r, stored, indexed)
    <3>1. Started /\ View(Durable, indexed)
      BY DEF Started, View
    <3> QED BY <1>1, <2>3, <2>4, <3>1 DEF Whole, Coverage, Covered
  <2>6. x \in Wanted(r)
    <3>1. seen[r] \in Nat /\ saved[r] <= seen[r] /\ seen[r] <= Len(timeline[r])
      BY <2>1, <2>3, Bounded DEF Order
    <3>2. x <= Len(timeline[r])
      BY <2>3, <3>1
    <3> QED BY <2>2, <2>3, <3>2 DEF Wanted
  <2>7. x \notin Positions(r, indexed)
    <3>1. \A d \in indexed : d[1] = r /\ d[2] = x => d = e
      BY <2>1, <2>3, Bounded DEF TypeOK
    <3> QED BY <3>1 DEF Positions
  <2>8. \/ Back(Tokens(r, stored, "b"), x, saved[r] + 1)
        \/ \E f \in Tokens(r, stored, "f") : f < x
    <3>1. PICK Z : \A y \in Wanted(r) : y <= saved[r] =>
                      \/ y \in Positions(r, indexed) \/ Back(Tokens(r, stored, "b"), y, saved[r] + 1)
                      \/ Forth(Tokens(r, stored, "f"), Z, saved[r], y)
      BY <2>5 DEF CoveredIn, Sound
    <3>2. Forth(Tokens(r, stored, "f"), Z, saved[r], x) => \E f \in Tokens(r, stored, "f") : f < x
      BY DEF Forth
    <3> QED BY <2>3, <2>6, <2>7, <3>1, <3>2
  <2>9. CASE Back(Tokens(r, stored, "b"), x, saved[r] + 1)
    <3>1. PICK c \in stored : c.room = r /\ c.dir = "b" /\ x <= c.token
      BY <2>9 DEF Back, Tokens
    <3> QED BY <2>2, <3>1 DEF Covers
  <2>10. CASE \E f \in Tokens(r, stored, "f") : f < x
    <3>1. PICK c \in stored : c.room = r /\ c.dir = "f" /\ c.token < x
      BY <2>10 DEF Tokens
    <3> QED BY <2>2, <3>1 DEF Covers
  <2> QED BY <2>8, <2>9, <2>10
<1> QED BY <1>1, WholeHolds, PTL
=============================================================================
