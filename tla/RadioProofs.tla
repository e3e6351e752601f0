----------------------------- MODULE RadioProofs -----------------------------
(***************************************************************************)
(* Proofs about RadioConfig: the chip holds what was asked, and runs at    *)
(* the rate asked, whatever access fails.                                  *)
(*                                                                         *)
(* A command's outcomes are a chain of accesses, each of which may end the *)
(* chain.  For each function of IIODevice.cpp a lemma says what all of its *)
(* outcomes have in common: Sets for setConfig, Writes for the write of an *)
(* attribute, RateSet for setSamplingFrequency, AttrsBuilt and RateBuilt   *)
(* for the constructor.  The lemma of a function follows from those of the *)
(* accesses it makes, one access after the other.                          *)
(***************************************************************************)
EXTENDS RadioConfig, TLAPS

(* The rates a set may ask for, and the filters made for them. *)
Asks == Rates \cup {InitRate}
Taps == {Filter(r) : r \in Rates \cup {BootRate, InitRate}}

(* What an outcome is made of. *)
Outcomes ==
  [attr : [D -> [Attributes -> Nat]], rate : Nat, fir : [on : BOOLEAN, taps : Taps],
   config : [D -> [Copied -> Nat]], sf : [D -> Nat \cup {None}],
   cfg : [Copied -> Nat], ok : BOOLEAN, wrote : BOOLEAN, faults : 0..MaxFaults]

(***************************************************************************)
(* What the chip holds                                                     *)
(***************************************************************************)

(* What is left of a number when its remainder is taken off has none. *)
LEMMA Rounded == ASSUME NEW v \in Nat, NEW s \in Nat \ {0} PROVE (v - (v % s)) % s = 0
<1> DEFINE q == v \div s
           m == v - (v % s)
           p == m \div s
           t == m % s
<1>1. q \in Int /\ v = s * q + (v % s) /\ v % s \in 0..(s-1)
  OBVIOUS
<1>2. m \in Nat
  OBVIOUS
<1>3. p \in Int /\ m = s * p + t /\ t \in 0..(s-1)
  <2> HIDE DEF m
  <2> QED BY <1>2
<1>4. s * q = s * p + t
  BY <1>1, <1>3
<1> HIDE DEF q, p, t, m
<1>5. s * (q - p) = t
  BY <1>1, <1>3, <1>4
<1>6. q - p = 0
  <2>1. CASE q - p >= 1
    <3>1. s * (q - p) >= s
      BY <2>1, <1>1, <1>3
    <3> QED BY <3>1, <1>5, <1>3
  <2>2. CASE q - p <= -1
    <3>1. s * (q - p) <= -s
      BY <2>2, <1>1, <1>3
    <3> QED BY <3>1, <1>5, <1>3
  <2> QED BY <2>1, <2>2, <1>1, <1>3
<1>7. t = 0
  BY <1>5, <1>6
<1> QED BY <1>7 DEF t, m

(* What the chip stores of a value is a natural number, stored as it is when
   it is written again. *)
LEMMA StoredHeld ==
  ASSUME NEW a \in Attributes, NEW v \in Nat
  PROVE  Stored(a, v) \in Nat /\ Stored(a, v) % Step[a] = 0
<1>1. Step[a] \in Nat \ {0}
  BY ConfigAssumption DEF ConfigAssumption
<1>2. \A s \in Nat \ {0} : v - (v % s) \in Nat /\ (v - (v % s)) % s = 0
  BY Rounded
<1> QED BY <1>1, <1>2 DEF Stored

(* An outcome is an outcome with its failures counted. *)
LEMMA MissedOutcome ==
  ASSUME NEW o \in Outcomes, NEW x \in Missed(o)
  PROVE  x \in Outcomes /\ x = [o EXCEPT !.faults = o.faults + 1]
<1>1. x = [o EXCEPT !.faults = o.faults + 1] /\ o.faults < MaxFaults
  BY DEF Missed
<1>2. o.faults + 1 \in 0..MaxFaults
  BY <1>1, ConfigAssumption DEF Outcomes, ConfigAssumption
<1> QED BY <1>1, <1>2 DEF Outcomes

(* A checked access: as it should be, or nothing changed but the failure. *)
LEMMA CheckedOutcome ==
  ASSUME NEW o \in Outcomes, NEW good \in Outcomes, NEW x \in Checked(o, good)
  PROVE  /\ x \in Outcomes
         /\ \/ x = good
            \/ /\ ~x.ok /\ x.attr = o.attr /\ x.rate = o.rate /\ x.fir = o.fir
               /\ x.config = o.config /\ x.sf = o.sf /\ x.wrote = o.wrote /\ x.cfg = o.cfg
<1>1. CASE x = good
  BY <1>1
<1>2. CASE x \in Failed(o)
  <2>1. PICK m \in Missed(o) : x = [m EXCEPT !.ok = FALSE]
    BY <1>2 DEF Failed
  <2>2. m \in Outcomes /\ m = [o EXCEPT !.faults = o.faults + 1]
    BY MissedOutcome
  <2> QED BY <2>1, <2>2 DEF Outcomes
<1> QED BY <1>1, <1>2 DEF Checked

(***************************************************************************)
(* The attributes of a direction                                           *)
(***************************************************************************)

(* Nothing of the sampling rate has changed. *)
SameRate(o, x) == x.rate = o.rate /\ x.fir = o.fir /\ x.sf = o.sf /\ x.wrote = o.wrote

(* What a set of the attributes A of a direction leaves in one that the copy
   does not say it holds already. *)
Aim(o, d, A, cfg, a) ==
  IF a \in A /\ cfg[a] # o.config[d][a] THEN Stored(a, cfg[a]) ELSE o.attr[d][a]

(* A set of the attributes A of a direction, that may have failed on the way:
   the other direction is as it was. *)
Sets(o, x, d, A, cfg) ==
  /\ x \in Outcomes /\ SameRate(o, x)
  /\ \A e \in D : e # d => x.attr[e] = o.attr[e] /\ x.config[e] = o.config[e]
  /\ \A a \in Attributes : x.attr[d][a] \in {o.attr[d][a], Aim(o, d, A, cfg, a)}
  /\ x.ok => \A a \in Attributes : x.attr[d][a] = Aim(o, d, A, cfg, a)

(* A write of an attribute of a direction. *)
Writes(o, x, d, w, v) ==
  /\ x \in Outcomes /\ SameRate(o, x) /\ x.config = o.config
  /\ \A e \in D, a \in Attributes : <<e, a>> # <<d, w>> => x.attr[e][a] = o.attr[e][a]
  /\ x.attr[d][w] \in {o.attr[d][w], Stored(w, v)}
  /\ x.ok => x.attr[d][w] = Stored(w, v)

(* A write reaches its attribute or nothing. *)
LEMMA WriteAttrWrites ==
  ASSUME NEW o \in Outcomes, NEW d \in D, NEW w \in Attributes, NEW v \in Nat,
         NEW x \in WriteAttr(o, d, w, v)
  PROVE  Writes(o, x, d, w, v)
<1> DEFINE new == [o.attr EXCEPT ![d][w] = Stored(w, v)]
           good == [o EXCEPT !.attr = new]
<1>1. new \in [D -> [Attributes -> Nat]]
  BY StoredHeld DEF Outcomes
<1>2. /\ \A e \in D, a \in Attributes : <<e, a>> # <<d, w>> => new[e][a] = o.attr[e][a]
      /\ new[d][w] = Stored(w, v)
  BY DEF Outcomes
<1>3. good \in Outcomes
  BY <1>1 DEF Outcomes
<1>4. x \in Checked(o, good)
  BY DEF WriteAttr
<1> HIDE DEF new
<1>5. x \in Outcomes /\ (x = good \/ (/\ ~x.ok /\ x.attr = o.attr /\ x.rate = o.rate /\ x.fir = o.fir
                                      /\ x.config = o.config /\ x.sf = o.sf /\ x.wrote = o.wrote))
  BY <1>3, <1>4, CheckedOutcome
<1>6. good.attr = new /\ good.rate = o.rate /\ good.fir = o.fir /\ good.config = o.config
      /\ good.sf = o.sf /\ good.wrote = o.wrote
  BY DEF Outcomes
<1> HIDE DEF good
<1> QED BY <1>2, <1>5, <1>6 DEF Writes, SameRate

(* An attribute that the copy does not hold already is written. *)
LEMMA WriteNewSets ==
  ASSUME NEW o \in Outcomes, NEW d \in D, NEW w \in Copied, NEW cfg \in [Copied -> Nat],
         NEW x \in WriteNew(o, d, w, cfg)
  PROVE  Sets(o, x, d, {w}, cfg) /\ x.config = o.config
<1>1. w \in Attributes /\ cfg[w] \in Nat
  BY DEF Attributes
<1>2. CASE cfg[w] # o.config[d][w]
  <2>1. Writes(o, x, d, w, cfg[w])
    BY <1>1, <1>2, WriteAttrWrites DEF WriteNew
  <2>2. x.attr \in [D -> [Attributes -> Nat]] /\ o.attr \in [D -> [Attributes -> Nat]]
    BY <2>1 DEF Writes, Outcomes
  <2>3. ASSUME NEW e \in D, e # d PROVE x.attr[e] = o.attr[e]
    <3>1. \A a \in Attributes : x.attr[e][a] = o.attr[e][a]
      BY <2>1, <2>3 DEF Writes
    <3> QED BY <2>2, <3>1
  <2> QED BY <1>1, <1>2, <2>1, <2>3 DEF Writes, Sets, Aim
<1>3. CASE cfg[w] = o.config[d][w]
  <2>1. x = o
    BY <1>3 DEF WriteNew
  <2> QED BY <1>3, <2>1 DEF Sets, Aim, SameRate
<1> QED BY <1>2, <1>3

(* Two sets of different attributes in a row, the second with the copy as
   it was for the first. *)
LEMMA SetsInTurn ==
  ASSUME NEW o \in Outcomes, NEW p, NEW x, NEW d \in D, NEW A, NEW B, NEW cfg \in [Copied -> Nat],
         A \cap B = {}, Sets(o, p, d, A, cfg), p.ok, p.config = o.config, Sets(p, x, d, B, cfg)
  PROVE  Sets(o, x, d, A \cup B, cfg)
<1>1. SameRate(o, x)
  BY DEF Sets, SameRate
<1>2. \A e \in D : e # d => x.attr[e] = o.attr[e] /\ x.config[e] = o.config[e]
  BY DEF Sets
<1>3. ASSUME NEW a \in Attributes
      PROVE  /\ x.attr[d][a] \in {o.attr[d][a], Aim(o, d, A \cup B, cfg, a)}
             /\ x.ok => x.attr[d][a] = Aim(o, d, A \cup B, cfg, a)
  <2>1. p.attr[d][a] = Aim(o, d, A, cfg, a)
    BY DEF Sets
  <2>2. /\ x.attr[d][a] \in {p.attr[d][a], Aim(p, d, B, cfg, a)}
        /\ x.ok => x.attr[d][a] = Aim(p, d, B, cfg, a)
    BY DEF Sets
  <2> QED BY <2>1, <2>2 DEF Aim
<1> QED BY <1>1, <1>2, <1>3 DEF Sets

(* A set that stops half way has set no more than the whole would. *)
LEMMA SetsFewer ==
  ASSUME NEW o, NEW x, NEW d, NEW A, NEW B, NEW cfg, Sets(o, x, d, A, cfg), ~x.ok
  PROVE  Sets(o, x, d, A \cup B, cfg)
BY DEF Sets, Aim

(* What is read goes to the copy; one that fails leaves it as it is. *)
LEMMA GetConfigCopies ==
  ASSUME NEW o \in Outcomes, NEW d \in D, NEW x \in GetConfig(o, d)
  PROVE  /\ x \in Outcomes /\ SameRate(o, x) /\ x.attr = o.attr
         /\ \A e \in D : e # d => x.config[e] = o.config[e]
         /\ x.ok => /\ x.cfg = [a \in Copied |-> o.attr[d][a]]
                    /\ x.config[d] = x.cfg
<1> DEFINE cfg == [a \in Copied |-> o.attr[d][a]]
           copied == [o.config EXCEPT ![d] = cfg]
           good == [o EXCEPT !.cfg = cfg, !.config = copied]
<1>1. cfg \in [Copied -> Nat]
  BY DEF Outcomes, Attributes
<1>2. copied \in [D -> [Copied -> Nat]] /\ copied[d] = cfg /\ \A e \in D : e # d => copied[e] = o.config[e]
  BY <1>1 DEF Outcomes
<1>3. x \in Checked(o, good)
  BY DEF GetConfig
<1> HIDE DEF cfg, copied
<1>4. good \in Outcomes
  BY <1>1, <1>2 DEF Outcomes
<1>5. x \in Outcomes /\ (x = good \/ (/\ ~x.ok /\ x.attr = o.attr /\ x.rate = o.rate /\ x.fir = o.fir
                                      /\ x.config = o.config /\ x.sf = o.sf /\ x.wrote = o.wrote))
  BY <1>3, <1>4, CheckedOutcome
<1>6. /\ good.attr = o.attr /\ good.rate = o.rate /\ good.fir = o.fir /\ good.sf = o.sf
      /\ good.wrote = o.wrote /\ good.config = copied /\ good.cfg = cfg
  BY DEF Outcomes
<1> HIDE DEF good
<1>7. CASE x = good
  <2> QED BY <1>2, <1>5, <1>6, <1>7 DEF SameRate, cfg
<1>8. CASE /\ ~x.ok /\ x.attr = o.attr /\ x.rate = o.rate /\ x.fir = o.fir
           /\ x.config = o.config /\ x.sf = o.sf /\ x.wrote = o.wrote
  BY <1>5, <1>8 DEF SameRate
<1> QED BY <1>5, <1>7, <1>8

(* setConfig: whatever is not in the copy is written, and nothing else. *)
LEMMA SetConfigSets ==
  ASSUME NEW o \in Outcomes, NEW d \in D, NEW cfg \in [Copied -> Nat],
         NEW x \in SetConfig(o, d, cfg)
  PROVE  Sets(o, x, d, Copied, cfg)
<1> DEFINE Last(l) == Then(GetConfig(l, d), LAMBDA g : {[g EXCEPT !.config[d] = g.cfg]})
           Lo(b) == Then(WriteNew(b, d, "lo_hz", cfg), LAMBDA l : Last(l))
           Bw(p) == Then(WriteNew(p, d, "bw_hz", cfg), LAMBDA b : Lo(b))
<1>1. PICK p \in WriteNew(o, d, "rfport", cfg) : x \in (IF p.ok THEN Bw(p) ELSE {p})
  BY DEF SetConfig, Then
<1>2. \A p_1 : x \in Bw(p_1) => \E b \in WriteNew(p_1, d, "bw_hz", cfg) : x \in (IF b.ok THEN Lo(b) ELSE {b})
  BY DEF Then
<1>3. \A b : x \in Lo(b) => \E l \in WriteNew(b, d, "lo_hz", cfg) : x \in (IF l.ok THEN Last(l) ELSE {l})
  BY DEF Then
<1>4. \A l : x \in Last(l) => \E g \in GetConfig(l, d) : x \in (IF g.ok THEN {[g EXCEPT !.config[d] = g.cfg]} ELSE {g})
  BY DEF Then
<1> HIDE DEF Last, Lo, Bw
<1>5. Sets(o, p, d, {"rfport"}, cfg) /\ p.config = o.config
  BY WriteNewSets DEF Copied
<1>6. Copied = {"rfport"} \cup {"bw_hz", "lo_hz"}
  BY DEF Copied
<1>7. CASE ~p.ok
  BY <1>1, <1>5, <1>6, <1>7, SetsFewer
<1>8. CASE p.ok
  <2>1. PICK b \in WriteNew(p, d, "bw_hz", cfg) : x \in (IF b.ok THEN Lo(b) ELSE {b})
    BY <1>1, <1>2, <1>8
  <2>2. p \in Outcomes
    BY <1>5 DEF Sets
  <2>3. Sets(p, b, d, {"bw_hz"}, cfg) /\ b.config = o.config
    BY <1>5, <2>2, WriteNewSets DEF Copied
  <2>4. Sets(o, b, d, {"rfport"} \cup {"bw_hz"}, cfg)
    BY <1>5, <1>8, <2>3, SetsInTurn
  <2>5. Copied = ({"rfport"} \cup {"bw_hz"}) \cup {"lo_hz"}
    BY DEF Copied
  <2>6. CASE ~b.ok
    BY <2>1, <2>4, <2>5, <2>6, SetsFewer
  <2>7. CASE b.ok
    <3>1. PICK l \in WriteNew(b, d, "lo_hz", cfg) : x \in (IF l.ok THEN Last(l) ELSE {l})
      BY <1>3, <2>1, <2>7
    <3>2. b \in Outcomes
      BY <2>3 DEF Sets
    <3>3. Sets(b, l, d, {"lo_hz"}, cfg) /\ l.config = o.config
      BY <2>3, <3>2, WriteNewSets DEF Copied
    <3>4. Sets(o, l, d, Copied, cfg)
      <4>1. ({"rfport"} \cup {"bw_hz"}) \cap {"lo_hz"} = {}
        OBVIOUS
      <4> QED BY <2>3, <2>4, <2>5, <2>7, <3>3, <4>1, SetsInTurn
    <3>5. CASE ~l.ok
      BY <3>1, <3>4, <3>5
    <3>6. CASE l.ok
      <4>1. PICK g \in GetConfig(l, d) : x \in (IF g.ok THEN {[g EXCEPT !.config[d] = g.cfg]} ELSE {g})
        BY <1>4, <3>1, <3>6
      <4>2. l \in Outcomes
        BY <3>3 DEF Sets
      <4>3. /\ g \in Outcomes /\ SameRate(l, g) /\ g.attr = l.attr
            /\ \A e \in D : e # d => g.config[e] = l.config[e]
        BY <4>1, <4>2, GetConfigCopies
      <4>4. /\ x \in Outcomes /\ x.attr = g.attr /\ SameRate(g, x)
            /\ \A e \in D : e # d => x.config[e] = g.config[e]
        <5> DEFINE c == [g.config EXCEPT ![d] = g.cfg]
        <5>1. c \in [D -> [Copied -> Nat]] /\ \A e \in D : e # d => c[e] = g.config[e]
          BY <4>3 DEF Outcomes
        <5>2. x = [g EXCEPT !.config = c] \/ x = g
          BY <4>1
        <5> HIDE DEF c
        <5>3. x \in Outcomes
          BY <4>3, <5>1, <5>2 DEF Outcomes
        <5>4. x.attr = g.attr /\ SameRate(g, x) /\ \A e \in D : e # d => x.config[e] = g.config[e]
          BY <4>3, <5>1, <5>2 DEF Outcomes, SameRate
        <5> QED BY <5>3, <5>4
      <4> QED BY <3>4, <3>6, <4>3, <4>4 DEF Sets, SameRate
    <3> QED BY <3>5, <3>6
  <2> QED BY <2>6, <2>7
<1> QED BY <1>7, <1>8

(* A set that a read precedes: the copy is what the chip holds, so that one
   attribute is written, or none when it holds the value already. *)
LEMMA CopiedSetWrites ==
  ASSUME NEW o \in Outcomes, NEW d \in D, NEW what \in Copied, NEW v \in Nat,
         o.attr[d][what] % Step[what] = 0, NEW c \in GetConfig(o, d),
         NEW x \in (IF c.ok THEN SetConfig(c, d, [c.cfg EXCEPT ![what] = v]) ELSE {c})
  PROVE  /\ x \in Outcomes /\ SameRate(o, x)
         /\ \A e \in D, a \in Attributes : <<e, a>> # <<d, what>> => x.attr[e][a] = o.attr[e][a]
         /\ x.attr[d][what] \in {o.attr[d][what], Stored(what, v)}
         /\ x.ok => x.attr[d][what] = Stored(what, v)
<1>1. x \in (IF c.ok THEN SetConfig(c, d, [c.cfg EXCEPT ![what] = v]) ELSE {c})
  OBVIOUS
<1>2. c \in Outcomes /\ SameRate(o, c) /\ c.attr = o.attr
  BY GetConfigCopies
<1>3. CASE ~c.ok
  BY <1>1, <1>2, <1>3
<1>4. CASE c.ok
  <2> DEFINE cfg == [c.cfg EXCEPT ![what] = v]
  <2>1. c.cfg = [a \in Copied |-> o.attr[d][a]] /\ c.config[d] = c.cfg
    BY <1>4, GetConfigCopies
  <2>2. /\ cfg \in [Copied -> Nat] /\ cfg[what] = v
        /\ \A a \in Copied : a # what => cfg[a] = c.config[d][a]
        /\ c.config[d][what] = o.attr[d][what]
    BY <1>2, <2>1 DEF Outcomes
  <2>3. x \in SetConfig(c, d, cfg)
    BY <1>1, <1>4
  <2> HIDE DEF cfg
  <2>4. Sets(c, x, d, Copied, cfg)
    BY <1>2, <2>2, <2>3, SetConfigSets
  <2>5. what \in Attributes /\ o.attr[d][what] \in Nat
    BY DEF Attributes, Outcomes
  <2>6. v = o.attr[d][what] => Stored(what, v) = o.attr[d][what]
    BY <2>5 DEF Stored
  <2>7. ASSUME NEW e \in D, NEW a \in Attributes, <<e, a>> # <<d, what>>
        PROVE  x.attr[e][a] = o.attr[e][a]
    <3>1. CASE e # d
      BY <1>2, <2>4, <3>1 DEF Sets
    <3>2. CASE e = d
      BY <1>2, <2>2, <2>4, <2>7, <3>2 DEF Sets, Aim
    <3> QED BY <3>1, <3>2
  <2>8. Aim(c, d, Copied, cfg, what) = Stored(what, v)
    BY <1>2, <2>2, <2>6 DEF Aim
  <2>9. x.attr[d][what] \in {o.attr[d][what], Stored(what, v)} /\ (x.ok => x.attr[d][what] = Stored(what, v))
    BY <1>2, <2>4, <2>5, <2>8 DEF Sets
  <2> QED BY <1>2, <2>4, <2>7, <2>9 DEF Sets, SameRate
<1> QED BY <1>3, <1>4

(***************************************************************************)
(* The sampling rate                                                       *)
(***************************************************************************)

(* A step of a set of the rate: neither the attributes nor their copies, nor
   the copies of the rate. *)
OnlyRate(o, x) == x \in Outcomes /\ x.attr = o.attr /\ x.config = o.config /\ x.sf = o.sf

(* The chip runs at a rate with the filter made for it. *)
RunsAt(x, r) == x.rate = RateStored(r) /\ x.fir = [on |-> TRUE, taps |-> Filter(r)]

(* The filter is switched, or nothing. *)
LEMMA FirEnableSwitches ==
  ASSUME NEW o \in Outcomes, NEW b \in BOOLEAN, NEW x \in SetFirEnable(o, b)
  PROVE  /\ OnlyRate(o, x) /\ x.rate = o.rate /\ x.wrote = o.wrote
         /\ x.fir.taps = o.fir.taps
         /\ x.ok => x.fir = [on |-> b, taps |-> o.fir.taps]
<1> DEFINE f == [on |-> b, taps |-> o.fir.taps]
           good == [o EXCEPT !.fir = f]
<1>1. f \in [on : BOOLEAN, taps : Taps]
  BY DEF Outcomes
<1>2. [o.fir EXCEPT !.on = b] = f
  BY DEF Outcomes
<1>3. x \in Checked(o, good)
  BY <1>2 DEF SetFirEnable
<1>4. f.taps = o.fir.taps
  OBVIOUS
<1> HIDE DEF f
<1>5. good \in Outcomes
  BY <1>1 DEF Outcomes
<1>6. x \in Outcomes /\ (x = good \/ (/\ ~x.ok /\ x.attr = o.attr /\ x.rate = o.rate /\ x.fir = o.fir
                                      /\ x.config = o.config /\ x.sf = o.sf /\ x.wrote = o.wrote))
  BY <1>3, <1>5, CheckedOutcome
<1>7. /\ good.attr = o.attr /\ good.rate = o.rate /\ good.fir = f /\ good.sf = o.sf
      /\ good.wrote = o.wrote /\ good.config = o.config
  BY DEF Outcomes
<1> HIDE DEF good
<1> QED BY <1>4, <1>6, <1>7 DEF OnlyRate, f

(* What the chip makes of a rate is a rate. *)
LEMMA RateStoredNat == ASSUME NEW r \in Nat PROVE RateStored(r) \in Nat
<1>1. \A s \in Nat \ {0} : r - (r % s) \in Nat
  BY Rounded
<1> QED BY <1>1, ConfigAssumption DEF ConfigAssumption, RateStored

(* The rate is written, or nothing. *)
LEMMA WriteRateWrites ==
  ASSUME NEW o \in Outcomes, NEW r \in Nat, NEW x \in WriteRate(o, r)
  PROVE  OnlyRate(o, x) /\ x.fir = o.fir /\ (x.ok => x.rate = RateStored(r) /\ x.wrote)
<1> DEFINE good == [o EXCEPT !.rate = RateStored(r), !.wrote = TRUE]
<1>1. good \in Outcomes
  BY RateStoredNat DEF Outcomes
<1>2. x \in Checked(o, good)
  BY DEF WriteRate
<1>3. x \in Outcomes /\ (x = good \/ (/\ ~x.ok /\ x.attr = o.attr /\ x.rate = o.rate /\ x.fir = o.fir
                                      /\ x.config = o.config /\ x.sf = o.sf /\ x.wrote = o.wrote))
  BY <1>1, <1>2, CheckedOutcome
<1>4. /\ good.attr = o.attr /\ good.rate = RateStored(r) /\ good.fir = o.fir /\ good.sf = o.sf
      /\ good.wrote /\ good.config = o.config
  BY DEF Outcomes
<1> HIDE DEF good
<1> QED BY <1>3, <1>4 DEF OnlyRate

(* The unchecked write of a rate in between. *)
LEMMA WriteTempWrites ==
  ASSUME NEW o \in Outcomes, NEW x \in WriteTemp(o)
  PROVE  OnlyRate(o, x) /\ x.fir = o.fir /\ x.ok = o.ok
<1> DEFINE good == [o EXCEPT !.rate = RateStored(TempRate)]
<1>1. RateStored(TempRate) \in Nat
  BY RateStoredNat DEF TempRate
<1>2. good \in Outcomes
  BY <1>1 DEF Outcomes
<1>3. /\ good.attr = o.attr /\ good.fir = o.fir /\ good.sf = o.sf /\ good.wrote = o.wrote
      /\ good.config = o.config /\ good.ok = o.ok
  BY DEF Outcomes
<1>4. x = good \/ x \in Missed(o)
  BY DEF WriteTemp
<1> HIDE DEF good
<1>5. CASE x = good
  BY <1>2, <1>3, <1>5 DEF OnlyRate
<1>6. CASE x \in Missed(o)
  <2>1. x \in Outcomes /\ x = [o EXCEPT !.faults = o.faults + 1]
    BY <1>6, MissedOutcome
  <2>2. /\ x.attr = o.attr /\ x.config = o.config /\ x.sf = o.sf
        /\ x.fir = o.fir /\ x.ok = o.ok
    BY <2>1 DEF Outcomes
  <2> QED BY <2>1, <2>2 DEF OnlyRate
<1> QED BY <1>4, <1>5, <1>6

(* The filter is loaded for a rate, or nothing. *)
LEMMA LoadFirLoads ==
  ASSUME NEW o \in Outcomes, NEW r \in Asks, NEW x \in LoadFir(o, r)
  PROVE  OnlyRate(o, x) /\ (x.ok => x.fir.taps = Filter(r))
<1> DEFINE f == [o.fir EXCEPT !.taps = Filter(r)]
           good == [o EXCEPT !.fir = f]
<1>1. f \in [on : BOOLEAN, taps : Taps] /\ f.taps = Filter(r)
  <2>1. Filter(r) \in Taps
    BY DEF Taps, Asks
  <2> QED BY <2>1 DEF Outcomes
<1>2. x \in Checked(o, good)
  BY DEF LoadFir
<1> HIDE DEF f
<1>3. good \in Outcomes
  BY <1>1 DEF Outcomes
<1>4. x \in Outcomes /\ (x = good \/ (/\ ~x.ok /\ x.attr = o.attr /\ x.rate = o.rate /\ x.fir = o.fir
                                      /\ x.config = o.config /\ x.sf = o.sf /\ x.wrote = o.wrote))
  BY <1>2, <1>3, CheckedOutcome
<1>5. /\ good.attr = o.attr /\ good.fir = f /\ good.sf = o.sf /\ good.config = o.config
  BY DEF Outcomes
<1> HIDE DEF good
<1> QED BY <1>1, <1>4, <1>5 DEF OnlyRate

(* A read that is not kept. *)
LEMMA ReadReads ==
  ASSUME NEW o \in Outcomes, NEW x \in Checked(o, o)
  PROVE  OnlyRate(o, x) /\ SameRate(o, x)
BY CheckedOutcome DEF OnlyRate, SameRate

(* The steps of a set of the rate follow one another. *)
LEMMA RatesInTurn ==
  ASSUME NEW o, NEW p, NEW x, OnlyRate(o, p), OnlyRate(p, x)
  PROVE  OnlyRate(o, x)
BY DEF OnlyRate

(* The filter is switched off. *)
LEMMA FirOffSteps ==
  ASSUME NEW o \in Outcomes, NEW x \in FirOff(o)
  PROVE  OnlyRate(o, x)
<1>1. CASE ~o.fir.on
  BY <1>1 DEF FirOff, OnlyRate
<1>2. CASE o.fir.on
  <2>1. PICK t \in (IF o.rate <= SlowRate THEN WriteTemp(o) ELSE {o}) :
          x \in (IF t.ok THEN SetFirEnable(t, FALSE) ELSE {t})
    BY <1>2 DEF FirOff, Then
  <2>2. OnlyRate(o, t)
    <3>1. t \in WriteTemp(o) \/ t = o
      BY <2>1
    <3>2. OnlyRate(o, o)
      BY DEF OnlyRate
    <3> QED BY <3>1, <3>2, WriteTempWrites
  <2>3. t \in Outcomes
    BY <2>2 DEF OnlyRate
  <2>4. OnlyRate(t, x)
    BY <2>1, <2>3, FirEnableSwitches DEF OnlyRate
  <2> QED BY <2>2, <2>4, RatesInTurn
<1> QED BY <1>1, <1>2

(* The filter is switched on at a low rate: the taps stay. *)
LEMMA SlowFirOnSteps ==
  ASSUME NEW o \in Outcomes, NEW x \in SlowFirOn(o)
  PROVE  OnlyRate(o, x) /\ (x.ok => x.fir = [on |-> TRUE, taps |-> o.fir.taps])
<1>1. PICK p \in Checked(o, o) :
        x \in (IF p.ok THEN Then({p} \cup WriteTemp(p), LAMBDA t : SetFirEnable(t, TRUE)) ELSE {p})
  BY DEF SlowFirOn, Then
<1>2. OnlyRate(o, p) /\ p.fir = o.fir /\ p \in Outcomes
  BY ReadReads DEF SameRate, OnlyRate
<1>3. CASE ~p.ok
  BY <1>1, <1>2, <1>3
<1>4. CASE p.ok
  <2>1. PICK t \in {p} \cup WriteTemp(p) : x \in (IF t.ok THEN SetFirEnable(t, TRUE) ELSE {t})
    BY <1>1, <1>4 DEF Then
  <2>2. OnlyRate(p, t) /\ t.fir = p.fir /\ t.ok
    BY <1>2, <1>4, WriteTempWrites DEF OnlyRate
  <2>3. t \in Outcomes /\ x \in SetFirEnable(t, TRUE)
    BY <2>1, <2>2 DEF OnlyRate
  <2>4. OnlyRate(t, x) /\ (x.ok => x.fir = [on |-> TRUE, taps |-> t.fir.taps])
    BY <2>3, FirEnableSwitches
  <2> QED BY <1>2, <2>2, <2>4, RatesInTurn
<1> QED BY <1>3, <1>4

(* ad9361_set_bb_rate: if no access failed, the chip runs at the rate with
   its filter. *)
LEMMA SetBBRateRuns ==
  ASSUME NEW o \in Outcomes, NEW r \in Asks, NEW x \in SetBBRate(o, r)
  PROVE  OnlyRate(o, x) /\ (x.ok => RunsAt(x, r))
<1> DEFINE Slow(l) == Then(SlowFirOn(l), LAMBDA s : WriteRate(s, r))
           Fast(l) == Then(WriteRate(l, r), LAMBDA w : SetFirEnable(w, TRUE))
           Run(l) == IF r <= SlowRate THEN Slow(l) ELSE Fast(l)
           Load(n) == Then(LoadFir(n, r), LAMBDA l : Run(l))
           Off(c) == Then(FirOff(c), LAMBDA n : Load(n))
<1>1. PICK c \in Checked(o, o) : x \in (IF c.ok THEN Off(c) ELSE {c})
  BY DEF SetBBRate, Then
<1>2. \A u : x \in Off(u) => \E n \in FirOff(u) : x \in (IF n.ok THEN Load(n) ELSE {n})
  BY DEF Then
<1>3. \A n : x \in Load(n) => \E l \in LoadFir(n, r) : x \in (IF l.ok THEN Run(l) ELSE {l})
  BY DEF Then
<1>4. \A l : x \in Run(l) => \/ \E s \in SlowFirOn(l) : x \in (IF s.ok THEN WriteRate(s, r) ELSE {s})
                             \/ \E w \in WriteRate(l, r) : x \in (IF w.ok THEN SetFirEnable(w, TRUE) ELSE {w})
  BY DEF Then
<1> HIDE DEF Run, Load, Off
<1>5. r \in Nat
  BY ConfigAssumption DEF ConfigAssumption, Asks
<1>6. OnlyRate(o, c) /\ c \in Outcomes
  BY ReadReads DEF OnlyRate
<1>7. CASE ~c.ok
  BY <1>1, <1>6, <1>7
<1>8. CASE c.ok
  <2>1. PICK n \in FirOff(c) : x \in (IF n.ok THEN Load(n) ELSE {n})
    BY <1>1, <1>2, <1>8
  <2>2. OnlyRate(o, n) /\ n \in Outcomes
    BY <1>6, FirOffSteps, RatesInTurn DEF OnlyRate
  <2>3. CASE ~n.ok
    BY <2>1, <2>2, <2>3
  <2>4. CASE n.ok
    <3>1. PICK l \in LoadFir(n, r) : x \in (IF l.ok THEN Run(l) ELSE {l})
      BY <1>3, <2>1, <2>4
    <3>2. OnlyRate(o, l) /\ l \in Outcomes /\ (l.ok => l.fir.taps = Filter(r))
      BY <2>2, LoadFirLoads, RatesInTurn DEF OnlyRate
    <3>3. CASE ~l.ok
      BY <3>1, <3>2, <3>3
    <3>4. CASE l.ok /\ \E s \in SlowFirOn(l) : x \in (IF s.ok THEN WriteRate(s, r) ELSE {s})
      <4>1. PICK s \in SlowFirOn(l) : x \in (IF s.ok THEN WriteRate(s, r) ELSE {s})
        BY <3>4
      <4>2. /\ OnlyRate(l, s) /\ s \in Outcomes
            /\ s.ok => s.fir = [on |-> TRUE, taps |-> Filter(r)]
        BY <3>2, <3>4, SlowFirOnSteps DEF OnlyRate
      <4>3. CASE ~s.ok
        BY <3>2, <4>1, <4>2, <4>3, RatesInTurn
      <4>4. CASE s.ok
        <5>1. OnlyRate(s, x) /\ x.fir = s.fir /\ (x.ok => x.rate = RateStored(r))
          BY <1>5, <4>1, <4>2, <4>4, WriteRateWrites
        <5> QED BY <3>2, <4>2, <4>4, <5>1, RatesInTurn DEF RunsAt
      <4> QED BY <4>3, <4>4
    <3>5. CASE l.ok /\ \E w \in WriteRate(l, r) : x \in (IF w.ok THEN SetFirEnable(w, TRUE) ELSE {w})
      <4>1. PICK w \in WriteRate(l, r) : x \in (IF w.ok THEN SetFirEnable(w, TRUE) ELSE {w})
        BY <3>5
      <4>2. /\ OnlyRate(l, w) /\ w \in Outcomes /\ w.fir = l.fir
            /\ w.ok => w.rate = RateStored(r)
        BY <1>5, <3>2, WriteRateWrites DEF OnlyRate
      <4>3. CASE ~w.ok
        BY <3>2, <4>1, <4>2, <4>3, RatesInTurn
      <4>4. CASE w.ok
        <5>1. OnlyRate(w, x) /\ x.rate = w.rate /\ (x.ok => x.fir = [on |-> TRUE, taps |-> w.fir.taps])
          BY <4>1, <4>2, <4>4, FirEnableSwitches
        <5> QED BY <3>2, <3>5, <4>2, <4>4, <5>1, RatesInTurn DEF RunsAt
      <4> QED BY <4>3, <4>4
    <3> QED BY <1>4, <3>1, <3>3, <3>4, <3>5
  <2> QED BY <2>3, <2>4
<1> QED BY <1>7, <1>8

(* The rate is read into the copy of a direction, or nothing. *)
LEMMA GetRateCopies ==
  ASSUME NEW o \in Outcomes, NEW d \in D, NEW x \in GetSamplingFrequency(o, d)
  PROVE  /\ x \in Outcomes /\ x.attr = o.attr /\ x.config = o.config
         /\ x.rate = o.rate /\ x.fir = o.fir /\ x.wrote = o.wrote
         /\ \A e \in D : e # d => x.sf[e] = o.sf[e]
         /\ x.sf[d] \in {o.sf[d], o.rate}
         /\ x.ok => x.sf[d] = o.rate
<1> DEFINE f == [o.sf EXCEPT ![d] = o.rate]
           good == [o EXCEPT !.sf = f]
<1>1. f \in [D -> Nat \cup {None}] /\ f[d] = o.rate /\ \A e \in D : e # d => f[e] = o.sf[e]
  BY DEF Outcomes
<1>2. x \in Checked(o, good)
  BY DEF GetSamplingFrequency
<1> HIDE DEF f
<1>3. good \in Outcomes
  BY <1>1 DEF Outcomes
<1>4. x \in Outcomes /\ (x = good \/ (/\ ~x.ok /\ x.attr = o.attr /\ x.rate = o.rate /\ x.fir = o.fir
                                      /\ x.config = o.config /\ x.sf = o.sf /\ x.wrote = o.wrote))
  BY <1>2, <1>3, CheckedOutcome
<1>5. /\ good.attr = o.attr /\ good.fir = o.fir /\ good.sf = f /\ good.config = o.config
      /\ good.rate = o.rate /\ good.wrote = o.wrote
  BY DEF Outcomes
<1> HIDE DEF good
<1> QED BY <1>1, <1>4, <1>5

(* What setSamplingFrequency leaves behind: the copies of the attributes and
   the attributes as they were; if it worked, the rate in both copies, and
   if it had to write it, the chip running at it; if it failed, the copies
   as they were or the chip running at the rate. *)
RateSet(o, x, d, r) ==
  /\ x \in Outcomes /\ x.attr = o.attr /\ x.config = o.config
  /\ x.ok => \A e \in D : x.sf[e] = x.rate
  /\ (r = o.sf[d] /\ x.ok) => x.rate = o.rate /\ x.fir = o.fir /\ x.wrote = o.wrote
  /\ (r # o.sf[d] /\ x.ok) => RunsAt(x, r) /\ x.wrote
  /\ (r # o.sf[d] /\ ~x.ok) => x.sf = o.sf \/ RunsAt(x, r)

(* setSamplingFrequency. *)
LEMMA SetRateSets ==
  ASSUME NEW o \in Outcomes, NEW d \in D, NEW r \in Asks,
         NEW x \in SetSamplingFrequency(o, d, r)
  PROVE  RateSet(o, x, d, r)
<1> DEFINE Write(b) == WriteRate(b, r)
           Both(w) == Then(GetSamplingFrequency(w, "RX"), LAMBDA y : GetSamplingFrequency(y, "TX"))
           First == IF r = o.sf[d] THEN {o} ELSE Then(SetBBRate(o, r), LAMBDA b : Write(b))
<1>1. PICK w \in First : x \in (IF w.ok THEN Both(w) ELSE {w})
  BY DEF SetSamplingFrequency, Then
<1>2. w.ok => \E y \in GetSamplingFrequency(w, "RX") : x \in (IF y.ok THEN GetSamplingFrequency(y, "TX") ELSE {y})
  BY <1>1 DEF Then
<1>3. \/ r = o.sf[d] /\ w = o
      \/ r # o.sf[d] /\ \E b \in SetBBRate(o, r) : w \in (IF b.ok THEN Write(b) ELSE {b})
  BY <1>1 DEF Then
<1> HIDE DEF First, Both
<1>4. r \in Nat
  BY ConfigAssumption DEF ConfigAssumption, Asks
<1>5. /\ OnlyRate(o, w) /\ w \in Outcomes
      /\ r = o.sf[d] => w = o
      /\ r # o.sf[d] /\ w.ok => RunsAt(w, r) /\ w.wrote
  <2>1. CASE r = o.sf[d]
    BY <1>3, <2>1 DEF OnlyRate
  <2>2. CASE r # o.sf[d]
    <3>1. PICK b \in SetBBRate(o, r) : w \in (IF b.ok THEN Write(b) ELSE {b})
      BY <1>3, <2>2
    <3>2. OnlyRate(o, b) /\ b \in Outcomes /\ (b.ok => RunsAt(b, r))
      BY SetBBRateRuns DEF OnlyRate
    <3>3. CASE ~b.ok
      BY <2>2, <3>1, <3>2, <3>3
    <3>4. CASE b.ok
      <4>1. OnlyRate(b, w) /\ w.fir = b.fir /\ (w.ok => w.rate = RateStored(r) /\ w.wrote)
        BY <1>4, <3>1, <3>2, <3>4, WriteRateWrites
      <4> QED BY <2>2, <3>2, <3>4, <4>1, RatesInTurn DEF RunsAt, OnlyRate
    <3> QED BY <3>3, <3>4
  <2> QED BY <2>1, <2>2
<1>6. CASE ~w.ok
  <2>1. x = w
    BY <1>1, <1>6
  <2> QED BY <1>5, <1>6, <2>1 DEF RateSet, OnlyRate
<1>7. CASE w.ok
  <2>1. PICK y \in GetSamplingFrequency(w, "RX") : x \in (IF y.ok THEN GetSamplingFrequency(y, "TX") ELSE {y})
    BY <1>2, <1>7
  <2>2. /\ y \in Outcomes /\ y.attr = w.attr /\ y.config = w.config
        /\ y.rate = w.rate /\ y.fir = w.fir /\ y.wrote = w.wrote
        /\ y.ok => y.sf["RX"] = w.rate
    BY <1>5, GetRateCopies DEF D
  <2>3. /\ x \in Outcomes /\ x.attr = w.attr /\ x.config = w.config
        /\ x.rate = w.rate /\ x.fir = w.fir /\ x.wrote = w.wrote
        /\ x.ok => x.sf["RX"] = w.rate /\ x.sf["TX"] = w.rate
    <3>1. CASE ~y.ok
      BY <2>1, <2>2, <3>1
    <3>2. CASE y.ok
      <4>1. x \in GetSamplingFrequency(y, "TX")
        BY <2>1, <3>2
      <4>2. /\ x \in Outcomes /\ x.attr = y.attr /\ x.config = y.config
            /\ x.rate = y.rate /\ x.fir = y.fir /\ x.wrote = y.wrote
            /\ \A e \in D : e # "TX" => x.sf[e] = y.sf[e]
            /\ x.ok => x.sf["TX"] = y.rate
        BY <2>2, <4>1, GetRateCopies DEF D
      <4> QED BY <2>2, <3>2, <4>2 DEF D
    <3> QED BY <3>1, <3>2
  <2>4. x.ok => \A e \in D : x.sf[e] = x.rate
    BY <2>3 DEF D
  <2>5. x.attr = o.attr /\ x.config = o.config
    BY <1>5, <2>3 DEF OnlyRate
  <2> QED BY <1>5, <1>7, <2>3, <2>4, <2>5 DEF RateSet, RunsAt
<1> QED BY <1>6, <1>7

(***************************************************************************)
(* Commands and the start of the board program                             *)
(***************************************************************************)

(* A set of an attribute, by whichever way, is a write of it, that leaves
   the sampling rate alone. *)
LEMMA SetWrites ==
  ASSUME NEW o \in Outcomes, NEW d \in D, NEW what \in Attributes, NEW v \in Nat,
         o.attr[d][what] % Step[what] = 0, NEW x \in Set(o, d, what, v)
  PROVE  /\ x \in Outcomes /\ SameRate(o, x)
         /\ \A e \in D, a \in Attributes : <<e, a>> # <<d, what>> => x.attr[e][a] = o.attr[e][a]
         /\ x.attr[d][what] \in {o.attr[d][what], Stored(what, v)}
         /\ x.ok => x.attr[d][what] = Stored(what, v)
<1>1. CASE what \in Copied
  <2>1. what # "sampling_frequency"
    BY <1>1 DEF Copied
  <2>2. PICK c \in GetConfig(o, d) :
          x \in (IF c.ok THEN SetConfig(c, d, [c.cfg EXCEPT ![what] = v]) ELSE {c})
    BY <1>1, <2>1 DEF Set, Then
  <2> QED BY <1>1, <2>2, CopiedSetWrites
<1>2. CASE what \notin Copied
  <2>1. what # "sampling_frequency"
    BY DEF Attributes, Copied
  <2>2. x \in WriteAttr(o, d, what, v)
    BY <1>2, <2>1 DEF Set
  <2> QED BY <2>2, WriteAttrWrites DEF Writes
<1> QED BY <1>1, <1>2

(* A get changes copies only: that of the rate to what the chip runs at. *)
LEMMA GetReads ==
  ASSUME NEW o \in Outcomes, NEW d \in D, NEW what, NEW x \in Get(o, d, what)
  PROVE  /\ x \in Outcomes /\ x.attr = o.attr /\ x.rate = o.rate /\ x.fir = o.fir
         /\ \A e \in D : x.sf[e] \in {o.sf[e], o.rate}
<1>1. CASE what \in Copied
  <2>1. x \in GetConfig(o, d)
    BY <1>1 DEF Get, Copied
  <2> QED BY <2>1, GetConfigCopies DEF SameRate
<1>2. CASE what \notin Copied /\ what = "sampling_frequency"
  <2>1. x \in GetSamplingFrequency(o, d)
    BY <1>2 DEF Get
  <2> QED BY <2>1, GetRateCopies
<1>3. CASE what \notin Copied /\ what # "sampling_frequency"
  BY <1>3, ReadReads DEF Get, ReadAttr, OnlyRate, SameRate
<1> QED BY <1>1, <1>2, <1>3

(* The attributes after the constructor's two calls of setConfig, which find
   empty copies. *)
AttrsBuilt(o, x) ==
  /\ x \in Outcomes
  /\ \A d \in D, a \in Attributes :
       x.attr[d][a] \in {o.attr[d][a]} \cup (IF a \in Copied THEN {Stored(a, InitConfig[d][a])} ELSE {})
  /\ x.ok => \A d \in D, a \in Copied : x.attr[d][a] = Stored(a, InitConfig[d][a])

(* The rate after its calls of setSamplingFrequency. *)
RateBuilt(o, x) ==
  IF x.wrote THEN RunsAt(x, InitRate) ELSE x.rate = o.rate /\ x.fir = o.fir

(* The constructor sets the attributes of both directions. *)
LEMMA BothConfigs ==
  ASSUME NEW o \in Outcomes, o.ok, \A d \in D, a \in Copied : o.config[d][a] = 0,
         NEW x,
         \E a \in SetConfig(o, "RX", InitConfig["RX"]) :
            x \in (IF a.ok THEN SetConfig(a, "TX", InitConfig["TX"]) ELSE {a})
  PROVE  AttrsBuilt(o, x) /\ SameRate(o, x)
<1>1. PICK p \in SetConfig(o, "RX", InitConfig["RX"]) :
        x \in (IF p.ok THEN SetConfig(p, "TX", InitConfig["TX"]) ELSE {p})
  OBVIOUS
<1>2. \A d \in D, a \in Copied : InitConfig[d][a] \in Nat \ {0}
  BY ConfigAssumption DEF ConfigAssumption
<1>3. InitConfig["RX"] \in [Copied -> Nat] /\ InitConfig["TX"] \in [Copied -> Nat]
  BY ConfigAssumption DEF ConfigAssumption, D
<1>4. Sets(o, p, "RX", Copied, InitConfig["RX"])
  BY <1>3, SetConfigSets DEF D
<1>5. \A a \in Attributes : Aim(o, "RX", Copied, InitConfig["RX"], a) =
        IF a \in Copied THEN Stored(a, InitConfig["RX"][a]) ELSE o.attr["RX"][a]
  BY <1>2 DEF Aim, D
<1>6. p \in Outcomes /\ SameRate(o, p) /\ p.attr["TX"] = o.attr["TX"] /\ p.config["TX"] = o.config["TX"]
  BY <1>4 DEF Sets, D
<1>7. Copied \subseteq Attributes
  BY DEF Attributes
<1>8. CASE ~p.ok
  <2>1. x = p
    BY <1>1, <1>8
  <2> QED BY <1>4, <1>5, <1>6, <1>8, <2>1 DEF Sets, AttrsBuilt, D
<1>9. CASE p.ok
  <2>1. Sets(p, x, "TX", Copied, InitConfig["TX"])
    BY <1>1, <1>3, <1>6, <1>9, SetConfigSets DEF D
  <2>2. \A a \in Attributes : Aim(p, "TX", Copied, InitConfig["TX"], a) =
          IF a \in Copied THEN Stored(a, InitConfig["TX"][a]) ELSE o.attr["TX"][a]
    BY <1>2, <1>6 DEF Aim, D
  <2>3. x \in Outcomes /\ SameRate(o, x) /\ x.attr["RX"] = p.attr["RX"]
    BY <1>6, <2>1 DEF Sets, SameRate, D
  <2>4. \A a \in Attributes : x.attr["RX"][a] = Aim(o, "RX", Copied, InitConfig["RX"], a)
    BY <1>4, <1>9, <2>3 DEF Sets
  <2>5. \A a \in Attributes : /\ x.attr["TX"][a] \in {o.attr["TX"][a], Aim(p, "TX", Copied, InitConfig["TX"], a)}
                              /\ x.ok => x.attr["TX"][a] = Aim(p, "TX", Copied, InitConfig["TX"], a)
    BY <1>6, <2>1 DEF Sets
  <2> QED BY <1>5, <1>7, <2>2, <2>3, <2>4, <2>5 DEF AttrsBuilt, D
<1> QED BY <1>8, <1>9

(* One of the constructor's calls of setSamplingFrequency. *)
LEMMA RateBuildStep ==
  ASSUME NEW o, NEW p \in Outcomes, p.ok, NEW d \in D, RateBuilt(o, p),
         NEW x \in SetSamplingFrequency(p, d, InitRate)
  PROVE  /\ x \in Outcomes /\ x.attr = p.attr
         /\ x.ok => RateBuilt(o, x) /\ \A e \in D : x.sf[e] = x.rate
<1>1. RateSet(p, x, d, InitRate)
  BY SetRateSets DEF Asks
<1> QED BY <1>1 DEF RateSet, RateBuilt, RunsAt

(* Attributes built stay built while only the rate is set. *)
LEMMA BuiltStays ==
  ASSUME NEW o, NEW p, NEW x \in Outcomes, AttrsBuilt(o, p), p.ok, x.attr = p.attr
  PROVE  AttrsBuilt(o, x)
BY DEF AttrsBuilt

(* The constructor: every attribute it sets is what it was or what main gives
   for it, the latter when it returns; then the rate is in both copies, and
   the chip runs at it if it was written at all. *)
LEMMA ConstructBuilds ==
  ASSUME NEW o \in Outcomes, o.ok, ~o.wrote, \A d \in D, a \in Copied : o.config[d][a] = 0,
         NEW x \in Construct(o)
  PROVE  /\ AttrsBuilt(o, x)
         /\ x.ok => RateBuilt(o, x) /\ \A e \in D : x.sf[e] = x.rate
<1> DEFINE I(h) == GetSamplingFrequency(h, "TX")
           H(g) == Then(GetSamplingFrequency(g, "RX"), LAMBDA h : I(h))
           G(f) == Then(ReadAttr(f), LAMBDA g : H(g))
           F(e) == Then(ReadAttr(e), LAMBDA f : G(f))
           E(c) == Then(SetSamplingFrequency(c, "TX", InitRate), LAMBDA e : F(e))
           C(b) == Then(SetSamplingFrequency(b, "RX", InitRate), LAMBDA c : E(c))
           B(a) == Then(SetConfig(a, "TX", InitConfig["TX"]), LAMBDA b : C(b))
<1>1. PICK a \in SetConfig(o, "RX", InitConfig["RX"]) : x \in (IF a.ok THEN B(a) ELSE {a})
  BY DEF Construct, Then
<1>2. \A u : x \in B(u) => \E b \in SetConfig(u, "TX", InitConfig["TX"]) : x \in (IF b.ok THEN C(b) ELSE {b})
  BY DEF Then
<1>3. \A u : x \in C(u) => \E c \in SetSamplingFrequency(u, "RX", InitRate) : x \in (IF c.ok THEN E(c) ELSE {c})
  BY DEF Then
<1>4. \A u : x \in E(u) => \E e \in SetSamplingFrequency(u, "TX", InitRate) : x \in (IF e.ok THEN F(e) ELSE {e})
  BY DEF Then
<1>5. \A u : x \in F(u) => \E f \in ReadAttr(u) : x \in (IF f.ok THEN G(f) ELSE {f})
  BY DEF Then
<1>6. \A u : x \in G(u) => \E g \in ReadAttr(u) : x \in (IF g.ok THEN H(g) ELSE {g})
  BY DEF Then
<1>7. \A u : x \in H(u) => \E h \in GetSamplingFrequency(u, "RX") : x \in (IF h.ok THEN I(h) ELSE {h})
  BY DEF Then
<1> HIDE DEF B, C, E, F, G, H
<1> DEFINE Good(u) == /\ AttrsBuilt(o, u)
                      /\ u.ok => RateBuilt(o, u) /\ \A e \in D : u.sf[e] = u.rate
<1>8. CASE ~a.ok
  <2>1. x = a
    BY <1>1, <1>8
  <2> QED BY <1>1, <1>8, <2>1, BothConfigs
<1>9. CASE a.ok
  <2>1. PICK b \in SetConfig(a, "TX", InitConfig["TX"]) : x \in (IF b.ok THEN C(b) ELSE {b})
    BY <1>1, <1>2, <1>9
  <2>2. AttrsBuilt(o, b) /\ SameRate(o, b) /\ b \in Outcomes
    <3>1. \E u \in SetConfig(o, "RX", InitConfig["RX"]) :
            b \in (IF u.ok THEN SetConfig(u, "TX", InitConfig["TX"]) ELSE {u})
      BY <1>1, <1>9, <2>1
    <3> QED BY <3>1, BothConfigs DEF AttrsBuilt
  <2>3. CASE ~b.ok
    BY <2>1, <2>2, <2>3
  <2>4. CASE b.ok
    <3>1. PICK c \in SetSamplingFrequency(b, "RX", InitRate) : x \in (IF c.ok THEN E(c) ELSE {c})
      BY <1>3, <2>1, <2>4
    <3>2. RateBuilt(o, b)
      BY <2>2 DEF RateBuilt, SameRate
    <3>3. Good(c) /\ c \in Outcomes
      BY <2>2, <2>4, <3>1, <3>2, RateBuildStep, BuiltStays DEF D
    <3>4. CASE ~c.ok
      BY <3>1, <3>3, <3>4
    <3>5. CASE c.ok
      <4>1. PICK e \in SetSamplingFrequency(c, "TX", InitRate) : x \in (IF e.ok THEN F(e) ELSE {e})
        BY <1>4, <3>1, <3>5
      <4>2. Good(e) /\ e \in Outcomes
        BY <3>3, <3>5, <4>1, RateBuildStep, BuiltStays DEF D
      <4>3. ASSUME NEW p \in Outcomes, NEW q \in Outcomes, Good(p), p.ok, q.attr = p.attr,
                   q.rate = p.rate, q.fir = p.fir, q.wrote = p.wrote,
                   \A y \in D : q.sf[y] = p.sf[y] \/ q.sf[y] = p.rate
            PROVE  Good(q)
        BY <4>3, BuiltStays DEF RateBuilt, RunsAt
      <4>4. ASSUME NEW p \in Outcomes, NEW q \in ReadAttr(p), Good(p), p.ok
            PROVE  Good(q) /\ q \in Outcomes
        <5>1. q \in Outcomes /\ q.attr = p.attr /\ SameRate(p, q)
          BY ReadReads DEF ReadAttr, OnlyRate
        <5> HIDE DEF Good
        <5> QED BY <4>3, <4>4, <5>1 DEF SameRate
      <4>5. ASSUME NEW p \in Outcomes, NEW y \in D, NEW q \in GetSamplingFrequency(p, y), Good(p), p.ok
            PROVE  Good(q) /\ q \in Outcomes
        <5>1. /\ q \in Outcomes /\ q.attr = p.attr
              /\ q.rate = p.rate /\ q.fir = p.fir /\ q.wrote = p.wrote
              /\ \A z \in D : q.sf[z] = p.sf[z] \/ q.sf[z] = p.rate
          BY GetRateCopies
        <5> HIDE DEF Good
        <5> QED BY <4>3, <4>5, <5>1
      <4>6. Good(x)
        <5> HIDE DEF Good
        <5>1. CASE ~e.ok
          BY <4>1, <4>2, <5>1
        <5>2. CASE e.ok
          <6>1. PICK f \in ReadAttr(e) : x \in (IF f.ok THEN G(f) ELSE {f})
            BY <1>5, <4>1, <5>2
          <6>2. Good(f) /\ f \in Outcomes
            BY <4>2, <4>4, <5>2
          <6>3. CASE f.ok
            <7>1. PICK g \in ReadAttr(f) : x \in (IF g.ok THEN H(g) ELSE {g})
              BY <1>6, <6>1, <6>3
            <7>2. Good(g) /\ g \in Outcomes
              BY <4>4, <6>2, <6>3
            <7>3. CASE g.ok
              <8>1. PICK h \in GetSamplingFrequency(g, "RX") : x \in (IF h.ok THEN I(h) ELSE {h})
                BY <1>7, <7>1, <7>3
              <8>2. Good(h) /\ h \in Outcomes
                BY <4>5, <7>2, <7>3 DEF D
              <8>3. h.ok => Good(x)
                BY <4>5, <8>1, <8>2 DEF D
              <8> QED BY <8>1, <8>2, <8>3
            <7> QED BY <7>1, <7>2, <7>3
          <6> QED BY <6>1, <6>2, <6>3
        <5> QED BY <5>1, <5>2
      <4> QED BY <4>6
    <3> QED BY <3>4, <3>5
  <2> QED BY <2>3, <2>4
<1> QED BY <1>8, <1>9

(***************************************************************************)
(* The invariant                                                           *)
(***************************************************************************)

(* The types, with those of the fields. *)
Types ==
  /\ attr \in [D -> [Attributes -> Nat]] /\ rate \in Nat
  /\ fir \in [on : BOOLEAN, taps : Taps]
  /\ config \in [D -> [Copied -> Nat]] /\ sf \in [D -> Nat \cup {None}]
  /\ up \in BOOLEAN /\ rateDue \in Nat \cup {None}
  /\ asked \in [D -> [Attributes -> SUBSET Nat]]
  /\ sets \in 0..MaxSets /\ faults \in 0..MaxFaults

(* The chip holds what it can hold: written again, it stays. *)
Held == \A d \in D, a \in Attributes : attr[d][a] % Step[a] = 0

(* The rate due is the chip's whether the board program runs or not: one that
   starts may find a rate it need not write. *)
RateKept ==
  rateDue # None => /\ rate = RateStored(rateDue) /\ fir = [on |-> TRUE, taps |-> Filter(rateDue)]
                    /\ up => \A d \in D : sf[d] = rate

RadioInv == Types /\ Held /\ DeviceAsAsked /\ RateKept

(* The state is an outcome to begin with. *)
LEMMA NowOutcome ==
  ASSUME Types
  PROVE  /\ Now \in Outcomes /\ Now.ok /\ ~Now.wrote
         /\ Now.attr = attr /\ Now.rate = rate /\ Now.fir = fir
         /\ Now.config = config /\ Now.sf = sf /\ Now.faults = faults
BY DEF Types, Now, Outcomes

(* So is the one the constructor finds. *)
LEMMA UnsetOutcome ==
  ASSUME Types, NEW junk \in [D -> {None, InitRate}]
  PROVE  /\ Unset(junk) \in Outcomes /\ Unset(junk).ok /\ ~Unset(junk).wrote
         /\ Unset(junk).attr = attr /\ Unset(junk).rate = rate /\ Unset(junk).fir = fir
         /\ \A d \in D, a \in Copied : Unset(junk).config[d][a] = 0
<1>1. InitRate \in Nat
  BY ConfigAssumption DEF ConfigAssumption
<1>2. junk \in [D -> Nat \cup {None}]
  BY <1>1
<1> DEFINE z == [d \in D |-> [a \in Copied |-> 0]]
<1>3. Unset(junk) = [Now EXCEPT !.config = z, !.sf = junk]
  BY DEF Unset
<1>4. z \in [D -> [Copied -> Nat]] /\ \A d \in D, a \in Copied : z[d][a] = 0
  OBVIOUS
<1> HIDE DEF z
<1>5. /\ Now \in Outcomes /\ Now.ok /\ ~Now.wrote
      /\ Now.attr = attr /\ Now.rate = rate /\ Now.fir = fir
  BY NowOutcome
<1>6. Unset(junk) \in Outcomes
  BY <1>2, <1>3, <1>4, <1>5 DEF Outcomes
<1>7. /\ Unset(junk).ok = Now.ok /\ Unset(junk).wrote = Now.wrote /\ Unset(junk).attr = Now.attr
      /\ Unset(junk).rate = Now.rate /\ Unset(junk).fir = Now.fir /\ Unset(junk).config = z
  BY <1>3, <1>5 DEF Outcomes
<1> QED BY <1>4, <1>5, <1>6, <1>7

(* The state after an outcome has the types. *)
LEMMA BecomesTyped ==
  ASSUME NEW o \in Outcomes, Becomes(o)
  PROVE  /\ attr' \in [D -> [Attributes -> Nat]] /\ rate' \in Nat
         /\ fir' \in [on : BOOLEAN, taps : Taps]
         /\ config' \in [D -> [Copied -> Nat]] /\ sf' \in [D -> Nat \cup {None}]
         /\ faults' \in 0..MaxFaults
BY DEF Becomes, Outcomes

(* A further set or start is counted. *)
LEMMA CountSets ==
  ASSUME sets \in 0..MaxSets, sets < MaxSets, sets' = sets + 1
  PROVE  sets' \in 0..MaxSets
BY ConfigAssumption DEF ConfigAssumption

(* A set of an attribute, answered either way, keeps the invariant. *)
LEMMA SetAttrStep ==
  ASSUME RadioInv, NEW d \in D, NEW what \in Attributes, NEW v \in Nat, SetCommand(d, what, v)
  PROVE  RadioInv'
<1>1. what # "sampling_frequency"
  BY DEF Attributes, Copied
<1>2. PICK o \in Set(Now, d, what, v) :
        /\ Becomes(o)
        /\ asked' = [asked EXCEPT ![d][what] = NowAsked(o, d, what, Stored(what, v))]
        /\ rateDue' = rateDue
  BY <1>1 DEF SetCommand
<1>3. Now \in Outcomes /\ Now.attr = attr /\ Now.rate = rate /\ Now.fir = fir /\ Now.sf = sf
  BY NowOutcome DEF RadioInv
<1>4. Now.attr[d][what] % Step[what] = 0
  BY <1>3 DEF RadioInv, Held
<1>5. /\ o \in Outcomes /\ SameRate(Now, o)
      /\ \A e \in D, a \in Attributes : <<e, a>> # <<d, what>> => o.attr[e][a] = Now.attr[e][a]
      /\ o.attr[d][what] \in {Now.attr[d][what], Stored(what, v)}
      /\ o.ok => o.attr[d][what] = Stored(what, v)
  BY <1>3, <1>4, SetWrites
<1>6. /\ attr' = o.attr /\ rate' = rate /\ fir' = fir /\ sf' = sf /\ up' = up
      /\ \A e \in D, a \in Attributes : <<e, a>> # <<d, what>> => attr'[e][a] = attr[e][a]
      /\ attr'[d][what] \in {attr[d][what], Stored(what, v)}
      /\ o.ok => attr'[d][what] = Stored(what, v)
  BY <1>2, <1>3, <1>5 DEF Becomes, SameRate, SetCommand
<1>7. Stored(what, v) \in Nat /\ Stored(what, v) % Step[what] = 0
  BY StoredHeld
<1>8. asked \in [D -> [Attributes -> SUBSET Nat]]
  BY DEF RadioInv, Types
<1>9. NowAsked(o, d, what, Stored(what, v)) \in SUBSET Nat
  BY <1>7, <1>8 DEF NowAsked
<1>10. /\ asked' \in [D -> [Attributes -> SUBSET Nat]]
       /\ asked'[d][what] = NowAsked(o, d, what, Stored(what, v))
       /\ \A e \in D, a \in Attributes : <<e, a>> # <<d, what>> => asked'[e][a] = asked[e][a]
  BY <1>2, <1>8, <1>9
<1>11. Types'
  <2>1. sets' \in 0..MaxSets
    BY CountSets DEF SetCommand, RadioInv, Types
  <2> QED BY <1>2, <1>5, <1>6, <1>10, <2>1, BecomesTyped DEF RadioInv, Types
<1>12. Held'
  BY <1>6, <1>7 DEF RadioInv, Held
<1>13. DeviceAsAsked'
  <2> SUFFICES ASSUME NEW e \in D, NEW a \in Attributes PROVE attr'[e][a] \in asked'[e][a]
    BY DEF DeviceAsAsked
  <2>1. attr[e][a] \in asked[e][a]
    BY DEF RadioInv, DeviceAsAsked
  <2>2. CASE <<e, a>> # <<d, what>>
    BY <1>6, <1>10, <2>1, <2>2
  <2>3. CASE e = d /\ a = what
    BY <1>6, <1>10, <2>1, <2>3 DEF NowAsked
  <2> QED BY <2>2, <2>3
<1>14. RateKept'
  BY <1>2, <1>6 DEF RadioInv, RateKept
<1> QED BY <1>11, <1>12, <1>13, <1>14 DEF RadioInv

(* So does a set of the rate. *)
LEMMA SetRateStep ==
  ASSUME RadioInv, NEW d \in D, NEW v \in Rates, SetCommand(d, "sampling_frequency", v)
  PROVE  RadioInv'
<1>1. "sampling_frequency" \notin Copied
  BY DEF Copied
<1>2. PICK o \in SetSamplingFrequency(Now, d, v) :
        Becomes(o) /\ rateDue' = RateAsked(o, v) /\ asked' = asked
  BY <1>1 DEF SetCommand, Set
<1>3. Now \in Outcomes /\ Now.attr = attr /\ Now.rate = rate /\ Now.fir = fir /\ Now.sf = sf /\ ~Now.wrote
  BY NowOutcome DEF RadioInv
<1>4. RateSet(Now, o, d, v)
  BY <1>3, SetRateSets DEF Asks
<1>5. v \in Nat
  BY ConfigAssumption DEF ConfigAssumption
<1>6. rateDue' \in Nat \cup {None}
  BY <1>2, <1>5 DEF RateAsked, RadioInv, Types
<1>7. Types'
  <2>1. sets' \in 0..MaxSets
    BY CountSets DEF SetCommand, RadioInv, Types
  <2>2. o \in Outcomes
    BY <1>4 DEF RateSet
  <2>3. up' = up /\ asked' = asked
    BY <1>2 DEF SetCommand
  <2> QED BY <1>2, <1>6, <2>1, <2>2, <2>3, BecomesTyped DEF RadioInv, Types
<1>8. attr' = attr /\ asked' = asked
  BY <1>2, <1>3, <1>4 DEF Becomes, RateSet
<1>9. Held' /\ DeviceAsAsked'
  BY <1>8 DEF RadioInv, Held, DeviceAsAsked
<1>10. RateKept'
  <2> SUFFICES ASSUME rateDue' # None
               PROVE  /\ rate' = RateStored(rateDue') /\ fir' = [on |-> TRUE, taps |-> Filter(rateDue')]
                      /\ \A e \in D : sf'[e] = rate'
    BY DEF RateKept
  <2>1. o.ok /\ rateDue' = IF o.wrote THEN v ELSE rateDue
    BY <1>2 DEF RateAsked
  <2>2. \A e \in D : sf'[e] = rate'
    BY <1>2, <1>4, <2>1 DEF RateSet, Becomes
  <2>3. CASE v = sf[d]
    <3>1. rate' = rate /\ fir' = fir /\ ~o.wrote
      BY <1>2, <1>3, <1>4, <2>1, <2>3 DEF RateSet, Becomes
    <3> QED BY <2>1, <2>2, <3>1 DEF RadioInv, RateKept
  <2>4. CASE v # sf[d]
    BY <1>2, <1>3, <1>4, <2>1, <2>2, <2>4 DEF RateSet, RunsAt, Becomes
  <2> QED BY <2>3, <2>4
<1> QED BY <1>7, <1>9, <1>10 DEF RadioInv

(* And a get. *)
LEMMA GetStep ==
  ASSUME RadioInv, NEW d \in D, NEW what, GetCommand(d, what)
  PROVE  RadioInv'
<1>1. PICK o \in Get(Now, d, what) : Becomes(o)
  BY DEF GetCommand
<1>2. Now \in Outcomes /\ Now.attr = attr /\ Now.rate = rate /\ Now.fir = fir /\ Now.sf = sf
  BY NowOutcome DEF RadioInv
<1>3. /\ o \in Outcomes /\ o.attr = attr /\ o.rate = rate /\ o.fir = fir
      /\ \A e \in D : o.sf[e] \in {sf[e], rate}
  BY <1>2, GetReads
<1>4. UNCHANGED <<up, asked, rateDue, lastSet, sets>>
  BY DEF GetCommand
<1>5. Types'
  BY <1>1, <1>3, <1>4, BecomesTyped DEF RadioInv, Types
<1>6. attr' = attr /\ rate' = rate /\ fir' = fir /\ \A e \in D : sf'[e] \in {sf[e], rate}
  BY <1>1, <1>3 DEF Becomes
<1>7. Held' /\ DeviceAsAsked' /\ RateKept'
  BY <1>4, <1>6 DEF RadioInv, Held, DeviceAsAsked, RateKept
<1> QED BY <1>5, <1>7 DEF RadioInv

(* And the start of the board program, on a chip as the one before left it. *)
LEMMA StartStep ==
  ASSUME RadioInv, StartProgram
  PROVE  RadioInv'
<1>0. PICK junk \in [D -> {None, InitRate}] : \E o \in Construct(Unset(junk)) :
        /\ Becomes(o) /\ up' = o.ok /\ rateDue' = RateAsked(o, InitRate)
        /\ asked' = [d \in D |-> [a \in Attributes |->
                      IF a \in Copied THEN NowAsked(o, d, a, Stored(a, InitConfig[d][a]))
                      ELSE asked[d][a]]]
  BY DEF StartProgram
<1>1. PICK o \in Construct(Unset(junk)) :
        /\ Becomes(o) /\ up' = o.ok /\ rateDue' = RateAsked(o, InitRate)
        /\ asked' = [d \in D |-> [a \in Attributes |->
                      IF a \in Copied THEN NowAsked(o, d, a, Stored(a, InitConfig[d][a]))
                      ELSE asked[d][a]]]
  BY <1>0
<1> DEFINE u == Unset(junk)
<1>2. /\ u \in Outcomes /\ u.ok /\ ~u.wrote
      /\ u.attr = attr /\ u.rate = rate /\ u.fir = fir
      /\ \A d \in D, a \in Copied : u.config[d][a] = 0
  BY UnsetOutcome DEF RadioInv
<1>3. o \in Construct(u)
  BY <1>1
<1> HIDE DEF u
<1>4. /\ AttrsBuilt(u, o)
      /\ o.ok => RateBuilt(u, o) /\ \A e \in D : o.sf[e] = o.rate
  BY <1>2, <1>3, ConstructBuilds
<1>5. Copied \subseteq Attributes /\ InitRate \in Nat
      /\ \A d \in D, a \in Copied : InitConfig[d][a] \in Nat
  BY ConfigAssumption DEF ConfigAssumption, Attributes
<1>6. \A d \in D, a \in Copied :
        Stored(a, InitConfig[d][a]) \in Nat /\ Stored(a, InitConfig[d][a]) % Step[a] = 0
  BY <1>5, StoredHeld
<1>7. asked \in [D -> [Attributes -> SUBSET Nat]] /\ DeviceAsAsked /\ Held /\ RateKept
      /\ rateDue \in Nat \cup {None}
  BY DEF RadioInv, Types
<1>8. \A d \in D, a \in Attributes : asked'[d][a] =
        IF a \in Copied THEN NowAsked(o, d, a, Stored(a, InitConfig[d][a])) ELSE asked[d][a]
  BY <1>1
<1>9. o \in Outcomes /\ attr' = o.attr
  BY <1>1, <1>4 DEF AttrsBuilt, Becomes
<1>10. \A d \in D, a \in Attributes :
         attr'[d][a] \in {attr[d][a]} \cup (IF a \in Copied THEN {Stored(a, InitConfig[d][a])} ELSE {})
  BY <1>2, <1>4, <1>9 DEF AttrsBuilt
<1>11. o.ok => \A d \in D, a \in Copied : attr'[d][a] = Stored(a, InitConfig[d][a])
  BY <1>4, <1>9 DEF AttrsBuilt
<1>12. Types'
  <2>1. sets' \in 0..MaxSets
    BY CountSets DEF StartProgram, RadioInv, Types
  <2>2. o.ok \in BOOLEAN
    BY <1>9 DEF Outcomes
  <2>3. rateDue' \in Nat \cup {None}
    BY <1>1, <1>5, <1>7 DEF RateAsked
  <2>4. asked' \in [D -> [Attributes -> SUBSET Nat]]
    <3>1. ASSUME NEW d \in D, NEW a \in Attributes PROVE asked'[d][a] \in SUBSET Nat
      <4>1. asked[d][a] \in SUBSET Nat
        BY <1>7
      <4>2. CASE a \in Copied
        <5>1. asked'[d][a] = NowAsked(o, d, a, Stored(a, InitConfig[d][a]))
          BY <1>8, <4>2
        <5>2. Stored(a, InitConfig[d][a]) \in Nat
          BY <1>6, <4>2
        <5>3. \A n \in Nat : NowAsked(o, d, a, n) \in SUBSET Nat
          BY <4>1 DEF NowAsked
        <5> QED BY <5>1, <5>2, <5>3
      <4>3. CASE a \notin Copied
        BY <1>8, <4>1, <4>3
      <4> QED BY <4>2, <4>3
    <3> QED BY <1>1, <3>1
  <2> QED BY <1>1, <1>9, <2>1, <2>2, <2>3, <2>4, BecomesTyped DEF Types
<1>13. Held'
  BY <1>6, <1>7, <1>10 DEF Held
<1>14. DeviceAsAsked'
  <2> SUFFICES ASSUME NEW e \in D, NEW a \in Attributes PROVE attr'[e][a] \in asked'[e][a]
    BY DEF DeviceAsAsked
  <2>1. attr[e][a] \in asked[e][a]
    BY <1>7 DEF DeviceAsAsked
  <2>2. CASE a \notin Copied
    BY <1>8, <1>10, <2>1, <2>2
  <2>3. CASE a \in Copied /\ o.ok
    BY <1>8, <1>11, <2>3 DEF NowAsked
  <2>4. CASE a \in Copied /\ ~o.ok
    BY <1>8, <1>10, <2>1, <2>4 DEF NowAsked
  <2> QED BY <2>2, <2>3, <2>4
<1>15. RateKept'
  <2> SUFFICES ASSUME rateDue' # None
               PROVE  /\ rate' = RateStored(rateDue') /\ fir' = [on |-> TRUE, taps |-> Filter(rateDue')]
                      /\ \A e \in D : sf'[e] = rate'
    BY DEF RateKept
  <2>1. o.ok /\ rateDue' = IF o.wrote THEN InitRate ELSE rateDue
    BY <1>1 DEF RateAsked
  <2>2. rate' = o.rate /\ fir' = o.fir /\ \A e \in D : sf'[e] = rate'
    BY <1>1, <1>4, <2>1 DEF Becomes
  <2>3. CASE o.wrote
    BY <1>4, <2>1, <2>2, <2>3 DEF RateBuilt, RunsAt
  <2>4. CASE ~o.wrote
    BY <1>2, <1>4, <1>7, <2>1, <2>2, <2>4 DEF RateBuilt, RateKept
  <2> QED BY <2>3, <2>4
<1> QED BY <1>12, <1>13, <1>14, <1>15 DEF RadioInv

(* Each step of the program keeps the invariant. *)
LEMMA RadioStep == RadioInv /\ [Next]_vars => RadioInv'
<1> SUFFICES ASSUME RadioInv, [Next]_vars PROVE RadioInv'
  OBVIOUS
<1>1. \A a \in Attributes : Values[a] \subseteq Nat
  BY ConfigAssumption DEF ConfigAssumption
<1>2. CASE StartProgram
  BY <1>2, StartStep
<1>3. CASE EndProgram
  BY <1>3 DEF EndProgram, chip, copy, RadioInv, Types, Held, DeviceAsAsked, RateKept
<1>4. ASSUME NEW d \in D, Driver(d) PROVE RadioInv'
  <2>1. CASE \E w \in Attributes : \E v \in Values[w] : SetCommand(d, w, v)
    BY <1>1, <2>1, SetAttrStep
  <2>2. CASE \E w \in Attributes : GetCommand(d, w)
    BY <2>2, GetStep
  <2> QED BY <1>4, <2>1, <2>2
          DEF Driver, SetAntenna, SetFrequency, SetBandwidth, SetGainMode,
              GetAntenna, GetFrequency, GetBandwidth, GetGainMode, Attributes, Copied
<1>5. ASSUME NEW d \in D, TestProgram(d) PROVE RadioInv'
  <2>1. CASE \E v \in Values["hardwaregain"] : SetCommand(d, "hardwaregain", v)
    BY <1>1, <2>1, SetAttrStep DEF Attributes
  <2>2. CASE \E r \in Rates : SetCommand(d, "sampling_frequency", r)
    BY <2>2, SetRateStep
  <2>3. CASE \E what \in {"hardwaregain", "sampling_frequency"} : GetCommand(d, what)
    BY <2>3, GetStep
  <2> QED BY <1>5, <2>1, <2>2, <2>3 DEF TestProgram
<1>6. CASE UNCHANGED vars
  BY <1>6 DEF vars, chip, copy, RadioInv, Types, Held, DeviceAsAsked, RateKept
<1> QED BY <1>2, <1>3, <1>4, <1>5, <1>6 DEF Next

(* It holds when the chip is powered up. *)
LEMMA RadioInit == Init => RadioInv
<1> SUFFICES ASSUME Init PROVE RadioInv
  OBVIOUS
<1>1. \A a \in Attributes : Boot[a] \in Nat /\ Boot[a] % Step[a] = 0
  BY ConfigAssumption DEF ConfigAssumption
<1>2. Boot \in [Attributes -> Nat]
  BY ConfigAssumption, <1>1 DEF ConfigAssumption
<1>3. BootRate \in Nat /\ MaxSets \in Nat /\ MaxFaults \in Nat
  BY ConfigAssumption DEF ConfigAssumption
<1>4. Filter(BootRate) \in Taps
  BY DEF Taps
<1>5. asked \in [D -> [Attributes -> SUBSET Nat]]
  BY <1>1 DEF Init
<1>6. Types
  <2>1. attr \in [D -> [Attributes -> Nat]]
    BY <1>2 DEF Init
  <2>2. config \in [D -> [Copied -> Nat]] /\ sf \in [D -> Nat \cup {None}]
    BY DEF Init
  <2>3. fir \in [on : BOOLEAN, taps : Taps]
    BY <1>4 DEF Init
  <2>4. rate \in Nat /\ rateDue \in Nat \cup {None} /\ up \in BOOLEAN
    BY <1>3 DEF Init
  <2>5. sets \in 0..MaxSets /\ faults \in 0..MaxFaults
    BY <1>3 DEF Init
  <2> QED BY <1>5, <2>1, <2>2, <2>3, <2>4, <2>5 DEF Types
<1>7. Held /\ DeviceAsAsked
  BY <1>1 DEF Init, Held, DeviceAsAsked
<1>8. RateKept
  BY DEF Init, RateKept
<1> QED BY <1>6, <1>7, <1>8 DEF RadioInv

(* The invariant of the radio's configuration. *)
THEOREM RadioInvariant == Spec => []RadioInv
BY RadioInit, RadioStep, PTL DEF Spec

(* The state has the declared types. *)
THEOREM RadioTypes == Spec => []TypeOK
<1>1. RadioInv => TypeOK
  BY DEF RadioInv, Types, TypeOK, Taps
<1> QED BY <1>1, RadioInvariant, PTL

(* The chip holds, for each attribute, the value of the last set answered
   "done", or one of those that failed since: for any steps the chip rounds
   to, any values asked and any number of failed accesses, no set is skipped
   for a stale copy, and none touches another attribute or direction
   (IIODevice::setConfig). *)
THEOREM NoSetIsSkipped == Spec => []DeviceAsAsked
<1>1. RadioInv => DeviceAsAsked
  BY DEF RadioInv
<1> QED BY <1>1, RadioInvariant, PTL

(* Until a set of the rate fails, and again after one that went through, the
   chip runs at what it makes of the rate asked, with the filter for that on,
   and both copies are the chip's rate,
   also when the program has ended and started again in between
   (IIODevice::setSamplingFrequency). *)
THEOREM RateIsCoherent == Spec => []RateCoherent
<1>1. RadioInv => RateCoherent
  BY DEF RadioInv, RateKept, RateCoherent, RunsFor
<1> QED BY <1>1, RadioInvariant, PTL

(* A set of the rate that failed leaves the copy unequal to it, or the chip
   running at what it makes of it: the same call again does not skip what is missing
   (IIODevice::setSamplingFrequency). *)
THEOREM RateIsSetAgain == Spec => FailedRateIsRetried
<1> DEFINE Retried ==
      (/\ up /\ sets' # sets /\ lastSet'.what = "sampling_frequency" /\ ~lastSet'.done
       /\ sf[lastSet'.d] # lastSet'.val)
      => \/ sf'[lastSet'.d] # lastSet'.val
         \/ rate' = RateStored(lastSet'.val) /\ fir' = [on |-> TRUE, taps |-> Filter(lastSet'.val)]
<1>1. RadioInv /\ [Next]_vars => [Retried]_vars
  <2> SUFFICES ASSUME RadioInv, Next, up, sets' # sets, lastSet'.what = "sampling_frequency",
                      ~lastSet'.done, sf[lastSet'.d] # lastSet'.val
               PROVE  \/ sf'[lastSet'.d] # lastSet'.val
                      \/ rate' = RateStored(lastSet'.val) /\ fir' = [on |-> TRUE, taps |-> Filter(lastSet'.val)]
    OBVIOUS
  <2>1. ~StartProgram /\ ~EndProgram /\ \A d, w : ~GetCommand(d, w)
    BY DEF StartProgram, EndProgram, GetCommand
  <2>2. \A d, w, v : SetCommand(d, w, v) => lastSet'.d = d /\ lastSet'.what = w /\ lastSet'.val = v
    BY DEF SetCommand
  <2>3. PICK d \in D, v \in Rates : SetCommand(d, "sampling_frequency", v)
    BY <2>1, <2>2 DEF Next, Driver, TestProgram, SetAntenna, SetFrequency, SetBandwidth, SetGainMode,
                      GetAntenna, GetFrequency, GetBandwidth, GetGainMode
  <2>4. lastSet'.d = d /\ lastSet'.val = v
    BY <2>2, <2>3
  <2>5. "sampling_frequency" \notin Copied
    BY DEF Copied
  <2>6. PICK o \in SetSamplingFrequency(Now, d, v) :
          Becomes(o) /\ lastSet' = [d |-> d, what |-> "sampling_frequency", val |-> v, done |-> o.ok]
    BY <2>3, <2>5 DEF SetCommand, Set
  <2>7. Now \in Outcomes /\ Now.sf = sf
    BY NowOutcome DEF RadioInv
  <2>8. RateSet(Now, o, d, v)
    BY <2>7, SetRateSets DEF Asks
  <2>9. ~o.ok
    BY <2>6
  <2> QED BY <2>4, <2>6, <2>7, <2>8, <2>9 DEF RateSet, RunsAt, Becomes
<1>2. Spec => [][Retried]_vars
  BY <1>1, RadioInvariant, PTL DEF Spec
<1> QED BY <1>2 DEF FailedRateIsRetried
=============================================================================
