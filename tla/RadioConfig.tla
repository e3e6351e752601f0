----------------------------- MODULE RadioConfig -----------------------------
(***************************************************************************)
(* Configuring the radio: the setters and getters of the host driver       *)
(* (AdrvSDR_Settings.cpp), the commands they send, the board's handler     *)
(* (Controller.cpp), and IIODevice.cpp, which keeps a copy of what it      *)
(* wrote to the AD9361 and writes only what differs from the copy.  Any    *)
(* access to the chip may fail, and the failures the code looks at throw.  *)
(*                                                                         *)
(* The board's main thread runs one command at a time; a command is a step *)
(* here.  What it does to chip and copy is a set of outcomes, one for each *)
(* access that may fail first.                                             *)
(***************************************************************************)
EXTENDS Integers, FiniteSets

CONSTANTS
  Values,       \* [attribute -> what a client asks for]
  Step,         \* [attribute -> the chip holds multiples of it]
  Rates,        \* sampling rates a client asks for
  RateStep,     \* the chip's clocks make multiples of it
  Boot,         \* [attribute -> what the chip holds when it is powered up]
  BootRate,     \* its sampling rate then
  InitConfig,   \* [direction -> configuration main gives the constructor]
  InitRate,     \* and the sampling rate
  MaxSets,      \* bound on the sets and starts of a behaviour
  MaxFaults     \* bound on the failed accesses of a behaviour

D == {"RX", "TX"}
Copied == {"rfport", "bw_hz", "lo_hz"}          \* struct stream_cfg
Attributes == Copied \cup {"hardwaregain", "gain_control_mode"}

ASSUME ConfigAssumption ==
  /\ Values \in [Attributes -> SUBSET Nat] /\ Boot \in [Attributes -> Nat]
  /\ Step \in [Attributes -> Nat \ {0}] /\ \A a \in Attributes : Boot[a] % Step[a] = 0
  /\ InitConfig \in [D -> [Copied -> Nat \ {0}]]   \* 0 is an empty copy
  /\ Rates \subseteq Nat /\ BootRate \in Nat /\ InitRate \in Nat /\ RateStep \in Nat \ {0}
  /\ MaxSets \in Nat /\ MaxFaults \in Nat

VARIABLES
  attr,    \* attr[d][a]: what the chip holds
  rate,    \* its sampling_frequency, one for both directions
  fir,     \* its filter: [on, taps]
  config,  \* RXConfig, TXConfig
  sf,      \* rxSamplingFrequency, txSamplingFrequency
  up,      \* the board program runs and has a device
  asked,   \* asked[d][a]: values left by the last set that worked and those that failed since
  rateDue, \* the rate last written by a set that went through, None while a set has failed since
  lastSet, \* the last set: [d, what, val, done]
  sets, faults  \* so far

None == -1
TempRate == 3000000
SlowRate == 25000000 \div 12
chip == <<attr, rate, fir>>
copy == <<config, sf>>
vars == <<chip, copy, up, asked, rateDue, lastSet, sets, faults>>

(* What the chip holds after v was written, and reads back. *)
Stored(a, v) == v - (v % Step[a])
RateStored(r) == r - (r % RateStep)

(* The filter for a rate, by its number of taps and its decimation. *)
Filter(r) == CASE r <= 20000000 -> <<128, 4>>
               [] r \in 20000001..40000000 -> <<128, 2>>
               [] r \in 40000001..53333333 -> <<96, 2>>
               [] OTHER -> <<64, 2>>

(***************************************************************************)
(* Outcomes.  o has the chip, the copy, the configuration read, whether no *)
(* exception is on its way, whether the rate was written, and the failures. *)
(***************************************************************************)
Now == [attr |-> attr, rate |-> rate, fir |-> fir, config |-> config, sf |-> sf,
        cfg |-> [a \in Copied |-> 0], ok |-> TRUE, wrote |-> FALSE, faults |-> faults]

(* An access: as it should be or, with faults left, without effect. *)
Missed(o) == IF o.faults < MaxFaults THEN {[o EXCEPT !.faults = @ + 1]} ELSE {}
Failed(o) == {[x EXCEPT !.ok = FALSE] : x \in Missed(o)}

(* errchk: what follows a failed access is skipped. *)
Checked(o, good) == {good} \cup Failed(o)
Then(S, F(_)) == UNION {IF o.ok THEN F(o) ELSE {o} : o \in S}

WriteAttr(o, d, a, v) == Checked(o, [o EXCEPT !.attr[d][a] = Stored(a, v)])
ReadAttr(o) == Checked(o, o)

(***************************************************************************)
(* IIODevice: configuration                                                *)
(***************************************************************************)

(* Mutant of GetConfig: what was read is returned and not kept. *)
GetConfig_NoCopy(o, d) == Checked(o, [o EXCEPT !.cfg = [a \in Copied |-> o.attr[d][a]]])

(* Three reads, then the copy; one that fails leaves the copy as it is. *)
GetConfig(o, d) ==
  LET cfg == [a \in Copied |-> o.attr[d][a]]
  IN  Checked(o, [o EXCEPT !.cfg = cfg, !.config[d] = cfg])

WriteNew(o, d, a, cfg) ==
  IF cfg[a] # o.config[d][a] THEN WriteAttr(o, d, a, cfg[a]) ELSE {o}

(* Only what differs from the copy is written. *)
SetConfig(o, d, cfg) ==
  Then(WriteNew(o, d, "rfport", cfg), LAMBDA p :
  Then(WriteNew(p, d, "bw_hz", cfg),  LAMBDA b :
  Then(WriteNew(b, d, "lo_hz", cfg),  LAMBDA l :
  Then(GetConfig(l, d),               LAMBDA g : {[g EXCEPT !.config[d] = g.cfg]}))))

(***************************************************************************)
(* IIODevice: sampling rate                                                *)
(***************************************************************************)
SetFirEnable(o, b) == Checked(o, [o EXCEPT !.fir.on = b])
WriteRate(o, r) == Checked(o, [o EXCEPT !.rate = RateStored(r), !.wrote = TRUE])

(* The result of this write is not looked at. *)
WriteTemp(o) == {[o EXCEPT !.rate = RateStored(TempRate)]} \cup Missed(o)

FirOff(o) ==
  IF ~o.fir.on THEN {o}
  ELSE Then(IF o.rate <= SlowRate THEN WriteTemp(o) ELSE {o},
            LAMBDA t : SetFirEnable(t, FALSE))

LoadFir(o, r) == Checked(o, [o EXCEPT !.fir.taps = Filter(r)])

(* The chip must run at a rate that leaves room for the taps when the filter
   is switched on; whether it does follows from the rates of its clocks. *)
SlowFirOn(o) ==
  Then(Checked(o, o), LAMBDA p :
  Then({p} \cup WriteTemp(p), LAMBDA t : SetFirEnable(t, TRUE)))

(* ad9361_set_bb_rate: filter off, filter loaded, rate and filter on in the
   order the rate needs.  An error is returned from where it happens. *)
SetBBRate(o, r) ==
  Then(Checked(o, o), LAMBDA c :
  Then(FirOff(c),     LAMBDA n :
  Then(LoadFir(n, r), LAMBDA l :
    IF r <= SlowRate
    THEN Then(SlowFirOn(l), LAMBDA s : WriteRate(s, r))
    ELSE Then(WriteRate(l, r), LAMBDA w : SetFirEnable(w, TRUE)))))

(* Mutant of GetSamplingFrequency: the error of a read becomes the rate. *)
GetSamplingFrequency_Unchecked(o, d) ==
  {[o EXCEPT !.sf[d] = o.rate]} \cup {[x EXCEPT !.sf[d] = -5] : x \in Missed(o)}

GetSamplingFrequency(o, d) == Checked(o, [o EXCEPT !.sf[d] = o.rate])

(* Mutant of SetSamplingFrequency: only the own direction's copy is renewed. *)
SetSamplingFrequency_OwnCopy(o, d, r) ==
  Then(IF r = o.sf[d] THEN {o} ELSE Then(SetBBRate(o, r), LAMBDA b : WriteRate(b, r)),
       LAMBDA w : GetSamplingFrequency(w, d))

(* Mutant of SetSamplingFrequency: the copy is renewed before the chip. *)
SetSamplingFrequency_CopyFirst(o, d, r) ==
  IF r = o.sf[d] THEN {o}
  ELSE Then(SetBBRate([o EXCEPT !.sf = [x \in D |-> r]], r), LAMBDA b : WriteRate(b, r))

SetSamplingFrequency(o, d, r) ==
  Then(IF r = o.sf[d] THEN {o} ELSE Then(SetBBRate(o, r), LAMBDA b : WriteRate(b, r)),
       LAMBDA w : Then(GetSamplingFrequency(w, "RX"), LAMBDA x : GetSamplingFrequency(x, "TX")))

(***************************************************************************)
(* Controller::runCommand                                                  *)
(***************************************************************************)
Set(o, d, what, v) ==
  CASE what \in Copied ->
         Then(GetConfig(o, d), LAMBDA c : SetConfig(c, d, [c.cfg EXCEPT ![what] = v]))
    [] what = "sampling_frequency" -> SetSamplingFrequency(o, d, v)
    [] OTHER -> WriteAttr(o, d, what, v)

(* The answer is what was read; a get changes the copy at most. *)
Get(o, d, what) ==
  CASE what \in Copied -> GetConfig(o, d)
    [] what = "sampling_frequency" -> GetSamplingFrequency(o, d)
    [] OTHER -> ReadAttr(o)

(* The board after an outcome. *)
Becomes(o) ==
  /\ attr' = o.attr /\ rate' = o.rate /\ fir' = o.fir
  /\ config' = o.config /\ sf' = o.sf /\ faults' = o.faults

(* What the chip may hold where new was written, successfully or not. *)
NowAsked(o, d, a, new) == IF o.ok THEN {new} ELSE asked[d][a] \cup {new}

RateAsked(o, r) == IF ~o.ok THEN None ELSE IF o.wrote THEN r ELSE rateDue

(* "set d what v", answered "done" or with an error. *)
SetCommand(d, what, v) ==
  /\ up /\ sets < MaxSets /\ sets' = sets + 1
  /\ \E o \in Set(Now, d, what, v) :
       /\ Becomes(o)
       /\ lastSet' = [d |-> d, what |-> what, val |-> v, done |-> o.ok]
       /\ IF what = "sampling_frequency"
          THEN rateDue' = RateAsked(o, v) /\ UNCHANGED asked
          ELSE /\ asked' = [asked EXCEPT ![d][what] = NowAsked(o, d, what, Stored(what, v))]
               /\ UNCHANGED rateDue
  /\ UNCHANGED up

GetCommand(d, what) ==
  /\ up
  /\ \E o \in Get(Now, d, what) : Becomes(o)
  /\ UNCHANGED <<up, asked, rateDue, lastSet, sets>>

(***************************************************************************)
(* The host driver's methods, each a command.  setGain, getGain and        *)
(* getSampleRate return before they send one, and setSampleRate only       *)
(* stores the rate on the host.                                            *)
(***************************************************************************)
SetAntenna(d, v)   == SetCommand(d, "rfport", v)
GetAntenna(d)      == GetCommand(d, "rfport")
SetFrequency(d, v) == SetCommand(d, "lo_hz", v)
GetFrequency(d)    == GetCommand(d, "lo_hz")
SetBandwidth(d, v) == SetCommand(d, "bw_hz", v)
GetBandwidth(d)    == GetCommand(d, "bw_hz")
SetGainMode(d, v)  == d = "RX" /\ SetCommand(d, "gain_control_mode", v)
GetGainMode(d)     == GetCommand(d, "gain_control_mode")

Driver(d) ==
  \/ \E v \in Values["rfport"] : SetAntenna(d, v)
  \/ \E v \in Values["lo_hz"] : SetFrequency(d, v)
  \/ \E v \in Values["bw_hz"] : SetBandwidth(d, v)
  \/ \E v \in Values["gain_control_mode"] : SetGainMode(d, v)
  \/ GetAntenna(d) \/ GetFrequency(d) \/ GetBandwidth(d) \/ GetGainMode(d)

(* The test programs send texts of their own. *)
TestProgram(d) ==
  \/ \E v \in Values["hardwaregain"] : SetCommand(d, "hardwaregain", v)
  \/ \E r \in Rates : SetCommand(d, "sampling_frequency", r)
  \/ \E what \in {"hardwaregain", "sampling_frequency"} : GetCommand(d, what)

(***************************************************************************)
(* The board program starts and ends                                       *)
(***************************************************************************)

(* The constructor does not initialise the copies of the sampling rates. *)
Unset(junk) == [Now EXCEPT !.config = [d \in D |-> [a \in Copied |-> 0]], !.sf = junk]

Construct(o) ==
  Then(SetConfig(o, "RX", InitConfig["RX"]),             LAMBDA a :
  Then(SetConfig(a, "TX", InitConfig["TX"]),             LAMBDA b :
  Then(SetSamplingFrequency(b, "RX", InitRate),          LAMBDA c :
  Then(SetSamplingFrequency(c, "TX", InitRate),          LAMBDA e :
  Then(ReadAttr(e),                                      LAMBDA f :
  Then(ReadAttr(f),                                      LAMBDA g :
  Then(GetSamplingFrequency(g, "RX"),                    LAMBDA h : GetSamplingFrequency(h, "TX"))))))))

(* The chip is as the program before left it; an exception ends this one. *)
StartProgram ==
  /\ ~up /\ sets < MaxSets /\ sets' = sets + 1
  /\ \E junk \in [D -> {None, InitRate}] : \E o \in Construct(Unset(junk)) :
       /\ Becomes(o)
       /\ up' = o.ok
       /\ asked' = [d \in D |-> [a \in Attributes |->
                     IF a \in Copied THEN NowAsked(o, d, a, Stored(a, InitConfig[d][a]))
                     ELSE asked[d][a]]]
       /\ rateDue' = RateAsked(o, InitRate)
  /\ UNCHANGED lastSet

EndProgram == up /\ up' = FALSE /\ UNCHANGED <<chip, copy, asked, rateDue, lastSet, sets, faults>>

Init ==
  /\ attr = [d \in D |-> Boot] /\ rate = BootRate
  /\ fir = [on |-> FALSE, taps |-> Filter(BootRate)]
  /\ config = [d \in D |-> [a \in Copied |-> 0]] /\ sf = [d \in D |-> None]
  /\ up = FALSE
  /\ asked = [d \in D |-> [a \in Attributes |-> {Boot[a]}]] /\ rateDue = None
  /\ lastSet = [d |-> "RX", what |-> "rfport", val |-> None, done |-> FALSE]
  /\ sets = 0 /\ faults = 0

Next == StartProgram \/ EndProgram \/ \E d \in D : Driver(d) \/ TestProgram(d)

Spec == Init /\ [][Next]_vars

(***************************************************************************)
(* Properties                                                              *)
(***************************************************************************)

(* The state has the declared types. *)
TypeOK ==
  /\ attr \in [D -> [Attributes -> Nat]] /\ rate \in Nat
  /\ fir.on \in BOOLEAN /\ fir.taps \in {Filter(r) : r \in Rates \cup {BootRate, InitRate}}
  /\ config \in [D -> [Copied -> Nat]] /\ sf \in [D -> Nat \cup {None}]
  /\ up \in BOOLEAN /\ rateDue \in Nat \cup {None}
  /\ \A d \in D, a \in Attributes : asked[d][a] \in SUBSET Nat
  /\ sets \in 0..MaxSets /\ faults \in 0..MaxFaults

(* The chip holds, for each attribute, the value of the last set answered
   "done", or one of those that failed since: no set is skipped for a stale
   copy, and none touches another attribute or direction (setConfig). *)
DeviceAsAsked == \A d \in D, a \in Attributes : attr[d][a] \in asked[d][a]

(* The chip's rate for a rate asked, in both copies, and the filter made for that. *)
RunsFor(r) ==
  /\ rate = RateStored(r)
  /\ fir = [on |-> TRUE, taps |-> Filter(r)]
  /\ \A d \in D : sf[d] = rate

(* Until a set of the sampling rate fails, and again after one that went
   through, the chip runs at what its clocks make of the rate asked,
   with the filter made for that rate switched on, and both directions' copies are the
   chip's rate (setSamplingFrequency). *)
RateCoherent == (up /\ rateDue # None) => RunsFor(rateDue)

(* A new rate whose set failed half way does not get into the copy, so that
   the same call sets it again rather than skip it (setSamplingFrequency). *)
FailedRateIsRetried ==
  [][(/\ up /\ sets' # sets /\ lastSet'.what = "sampling_frequency" /\ ~lastSet'.done
      /\ sf[lastSet'.d] # lastSet'.val)
     => \/ sf'[lastSet'.d] # lastSet'.val
        \/ rate' = RateStored(lastSet'.val) /\ fir' = [on |-> TRUE, taps |-> Filter(lastSet'.val)]]_vars
=============================================================================
