-------------------------- MODULE SystemBusProofs --------------------------
(***************************************************************************)
(* The interconnect of the simple system implements atomic accesses, for   *)
(* any number of hosts, any width of the words, any disjoint regions and   *)
(* any requests and fetches: SystemBus refines AtomicBus.                  *)
(***************************************************************************)
EXTENDS SystemBus, WellFoundedInduction, TLAPS

(* An address is in an aligned region exactly if it has the region's base  *)
(* under the region's mask, and its index is then its offset.              *)
LEMMA AlignedRegion ==
    ASSUME NEW a \in Nat, NEW b \in Nat, NEW s \in Nat \ {0}, b % s = 0
    PROVE  /\ a - (a % s) = b <=> a \in b .. (b + s - 1)
           /\ a \in b .. (b + s - 1) => a % s = a - b
<1> DEFINE p == b \div s
           q == a \div s
           m == a % s
<1>1. /\ b = s * p /\ a = s * q + m
      /\ p \in Nat /\ q \in Nat /\ m \in Nat /\ m < s
  BY SMT
<1> HIDE DEF p, q, m
<1>2. ASSUME a \in b .. (b + s - 1)
      PROVE  m = a - b
  <2>1. s * p <= s * q + m /\ s * q + m < s * p + s
    BY <1>1, <1>2, SMT
  <2>2. ~(q < p)
    <3>1. SUFFICES ASSUME q < p PROVE FALSE
      OBVIOUS
    <3>2. PICK k \in Nat : p = q + 1 + k
      BY <1>1, <3>1, SMT
    <3>3. s * p = s * q + s + s * k /\ s * k \in Nat
      BY <1>1, <3>2, SMT
    <3> QED
      BY <1>1, <2>1, <3>3, SMT
  <2>3. ~(p < q)
    <3>1. SUFFICES ASSUME p < q PROVE FALSE
      OBVIOUS
    <3>2. PICK k \in Nat : q = p + 1 + k
      BY <1>1, <3>1, SMT
    <3>3. s * q = s * p + s + s * k /\ s * k \in Nat
      BY <1>1, <3>2, SMT
    <3> QED
      BY <1>1, <2>1, <3>3, SMT
  <2> QED
    BY <1>1, <2>2, <2>3, SMT
<1>3. ASSUME a - m = b
      PROVE  a \in b .. (b + s - 1)
  BY <1>1, <1>3, SMT
<1>4. a - m = b <=> a \in b .. (b + s - 1)
  BY <1>1, <1>2, <1>3, SMT
<1> QED
  BY <1>2, <1>4 DEF m

(* A non-empty set of naturals has a least element. *)
LEMMA MinExists ==
    ASSUME NEW S \in SUBSET Nat, S # {}
    PROVE  Min(S) \in S
<1>1. \E x \in S : \A y \in S : ~(<<y, x>> \in OpToRel(<, Nat))
  BY NatLessThanWellFounded, WFMin
<1>2. \E x \in S : \A y \in S : ~(y < x)
  BY <1>1, Zenon DEF OpToRel
<1>3. \E x \in S : \A y \in S : x =< y
  BY <1>2, SMT
<1> QED
  BY <1>3, Zenon DEF Min

(* The lines of the hosts carry one of the requests there are. *)
Request == [addr : Nat, we : BOOLEAN, be : SUBSET Lanes, wdata : Words]

LEMMA AsksType ==
    ASSUME NEW r \in Asks, r # NoReq
    PROVE  r \in Request
  BY BusAssumption DEF Asks, Request

(* The arbiter selects a host that makes a request, if there is one. *)
LEMMA Arbitrated ==
    ASSUME Requesting # {}
    PROVE  /\ host_sel_req \in Hosts
           /\ req[host_sel_req] # NoReq
<1>1. Requesting \in SUBSET Nat
  BY BusAssumption DEF Requesting, Hosts
<1>2. host_sel_req \in Requesting
  BY <1>1, MinExists DEF host_sel_req
<1> QED
  BY <1>2 DEF Requesting

(* The decoder: an address matches a device exactly if it is in the        *)
(* device's region; there is at most one such device, and it is selected.  *)
LEMMA Decoded ==
    ASSUME NEW r \in Request, NEW d \in Devices
    PROVE  d \in Matching(r.addr) <=> In(d, r)
<1>1. r.addr \in Nat
  BY DEF Request
<1>2. Regions[d].base \in Nat /\ Regions[d].size \in Nat \ {0} /\ Regions[d].base % Regions[d].size = 0
  BY BusAssumption
<1>3. r.addr - (r.addr % Regions[d].size) = Regions[d].base <=> In(d, r)
  BY <1>1, <1>2, AlignedRegion DEF In, Region
<1> QED
  BY <1>3, Zenon DEF Matching

LEMMA Selected ==
    ASSUME NEW r \in Request, NEW d \in Devices, In(d, r)
    PROVE  device_sel_valid(r.addr) /\ device_sel_req(r.addr) = d
<1>1. \A e \in Devices : e # d => ~In(e, r)
  BY BusAssumption DEF In
<1>2. Matching(r.addr) = {d}
  BY <1>1, Decoded DEF Matching
<1>3. \A y \in {d} : d >= y
  BY SMT DEF Devices, Ram, SimCtrl, TimerDev
<1>4. Max({d}) = d
  BY <1>3, Zenon DEF Max
<1> QED
  BY <1>2, <1>4 DEF device_sel_valid, device_sel_req

LEMMA NotSelected ==
    ASSUME NEW r \in Request, \A d \in Devices : ~In(d, r)
    PROVE  ~device_sel_valid(r.addr) /\ device_sel_req(r.addr) = Ram
<1>1. Matching(r.addr) = {}
  BY Decoded DEF Matching
<1> QED
  BY <1>1 DEF device_sel_valid, device_sel_req

(* So a device sees the granted request exactly if it is in its region. *)
LEMMA DeviceSees ==
    ASSUME req \in [Hosts -> Asks], Requesting # {}, NEW d \in Devices
    PROVE  DeviceReq(d) = IF In(d, req[host_sel_req]) THEN {req[host_sel_req]} ELSE {}
<1> DEFINE r == req[host_sel_req]
<1>1. r \in Request /\ r # NoReq
  BY Arbitrated, AsksType
<1> HIDE DEF r
<1>2. DeviceReq(d) = IF r # NoReq /\ device_sel_valid(r.addr) /\ device_sel_req(r.addr) = d THEN {r} ELSE {}
  BY DEF DeviceReq, r
<1>3. CASE In(d, r)
  BY <1>1, <1>2, <1>3, Selected DEF r
<1>4. CASE ~In(d, r) /\ \E e \in Devices : In(e, r)
  <2>1. PICK e \in Devices : In(e, r)
    BY <1>4
  <2>2. device_sel_req(r.addr) = e /\ e # d
    BY <1>1, <1>4, <2>1, Selected
  <2> QED
    BY <1>2, <1>4, <2>2 DEF r
<1>5. CASE \A e \in Devices : ~In(e, r)
  BY <1>1, <1>2, <1>5, NotSelected DEF r
<1> QED
  BY <1>3, <1>4, <1>5

LEMMA NothingSeen ==
    ASSUME Requesting = {}, NEW d \in Devices
    PROVE  DeviceReq(d) = {}
<1>1. host_sel_req = 0 /\ 0 \in Hosts
  BY BusAssumption, SMT DEF host_sel_req, Hosts
<1>2. req[0] = NoReq
  BY <1>1 DEF Requesting
<1> QED
  BY <1>1, <1>2 DEF DeviceReq

(* The inductive invariant: what the lines of the hosts may carry, and     *)
(* that a word of the RAM is the bytes of its lanes.                       *)
LinesInv ==
    /\ req \in [Hosts -> Asks]
    /\ instr = {} \/ \E a \in Fetches : instr = {a}

RamInv ==
    /\ ram = [w \in 0 .. (RamDepth - 1) |-> ram[w]]
    /\ \A w \in 0 .. (RamDepth - 1) : ram[w] = [b \in Lanes |-> ram[w][b]]

IInv == LinesInv /\ RamInv

(* The index of an access is inside the RAM. *)
LEMMA IndexInRam ==
    ASSUME NEW a \in Nat
    PROVE  addr_idx(a) \in 0 .. (RamDepth - 1)
<1>1. RamDepth \in Nat \ {0}
  BY BusAssumption DEF RamDepth, Devices
<1> QED
  BY <1>1, SMT DEF addr_idx

(* A write by the index under the byte mask is a write of the bytes of the *)
(* word that has the address.                                              *)
LEMMA WriteExact ==
    ASSUME RamInv, NEW r \in Request
    PROVE  In(Ram, r) => RamWrite(ram, r) = WriteBytes(ram, r)
<1> SUFFICES ASSUME In(Ram, r) PROVE RamWrite(ram, r) = WriteBytes(ram, r)
  OBVIOUS
<1>1. CASE ~r.we
  BY <1>1 DEF RamWrite, WriteBytes
<1>2. CASE r.we
  <2> DEFINE i == addr_idx(r.addr)
  <2>1. r.addr \in Nat
    BY DEF Request
  <2>2. /\ Regions[Ram].base \in Nat /\ Regions[Ram].size \in Nat \ {0}
        /\ Regions[Ram].base % Regions[Ram].size = 0
    BY BusAssumption DEF Devices
  <2>3. i = r.addr - Regions[Ram].base
    <3>1. r.addr \in Regions[Ram].base .. (Regions[Ram].base + Regions[Ram].size - 1)
      BY DEF In, Region
    <3>2. r.addr % Regions[Ram].size = r.addr - Regions[Ram].base
      BY <2>1, <2>2, <3>1, AlignedRegion
    <3> QED
      BY <3>2 DEF addr_idx, RamDepth
  <2>4. i \in 0 .. (RamDepth - 1)
    BY <2>1, IndexInRam
  <2> HIDE DEF i
  <2>5. \A w \in 0 .. (RamDepth - 1) : Regions[Ram].base + w = r.addr <=> w = i
    BY <2>1, <2>2, <2>3, SMT
  <2>6. RamWrite(ram, r) = [w \in 0 .. (RamDepth - 1) |->
                              IF w = i THEN Masked(ram[w], r) ELSE ram[w]]
    BY <1>2, <2>4 DEF RamWrite, RamInv, i
  <2>7. WriteBytes(ram, r) =
           [w \in 0 .. (RamDepth - 1) |-> [b \in Lanes |->
              IF Regions[Ram].base + w = r.addr /\ b \in r.be THEN Bytes(r.wdata)[b] ELSE ram[w][b]]]
    BY <1>2, Zenon DEF WriteBytes
  <2>8. ASSUME NEW w \in 0 .. (RamDepth - 1)
        PROVE  (IF w = i THEN Masked(ram[w], r) ELSE ram[w]) =
                 [b \in Lanes |->
                    IF Regions[Ram].base + w = r.addr /\ b \in r.be THEN Bytes(r.wdata)[b] ELSE ram[w][b]]
    <3>1. CASE w = i
      <4>1. Regions[Ram].base + w = r.addr
        BY <2>5, <3>1
      <4>2. \A b \in Lanes : Bytes(r.wdata)[b] = Byte(r.wdata, b)
        BY DEF Bytes
      <4> QED
        BY <3>1, <4>1, <4>2 DEF Masked
    <3>2. CASE w # i
      <4>1. Regions[Ram].base + w # r.addr
        BY <2>5, <3>2
      <4> QED
        BY <3>2, <4>1 DEF RamInv
    <3> QED
      BY <3>1, <3>2
  <2> QED
    BY <2>6, <2>7, <2>8
<1> QED
  BY <1>1, <1>2 DEF Request

LEMMA InitIInv == Init => IInv
  BY DEF Init, IInv, LinesInv, RamInv, Asks, Bytes

LEMMA NextIInv == IInv /\ [Next]_vars => IInv'
<1> SUFFICES ASSUME IInv, [Next]_vars PROVE IInv'
  OBVIOUS
<1>1. CASE Edge
  <2>1. LinesInv'
    BY <1>1 DEF Edge, NextRequests, LinesInv
  <2>2. RamInv'
    <3>1. RamEdge(DeviceReq(Ram))
      BY <1>1 DEF Edge, Ram
    <3>2. CASE DeviceReq(Ram) = {}
      BY <3>1, <3>2 DEF RamEdge, IInv, RamInv
    <3>3. CASE DeviceReq(Ram) # {}
      <4>1. PICK r \in DeviceReq(Ram) : ram' = RamWrite(ram, r)
        BY <3>1, <3>3 DEF RamEdge
      <4>2. CASE ~r.we
        BY <4>1, <4>2 DEF RamWrite, IInv, RamInv
      <4>3. CASE r.we
        <5>1. ram' = [ram EXCEPT ![addr_idx(r.addr)] = Masked(@, r)]
          BY <4>1, <4>3 DEF RamWrite
        <5>2. \A w \in 0 .. (RamDepth - 1) : ram'[w] = IF w = addr_idx(r.addr) THEN Masked(ram[w], r) ELSE ram[w]
          BY <5>1 DEF IInv, RamInv
        <5>3. \A w \in 0 .. (RamDepth - 1) : Masked(ram[w], r) = [b \in Lanes |-> Masked(ram[w], r)[b]]
          BY DEF Masked
        <5>4. \A w \in 0 .. (RamDepth - 1) : ram'[w] = [b \in Lanes |-> ram'[w][b]]
          BY <5>2, <5>3 DEF IInv, RamInv
        <5>5. ram' = [w \in 0 .. (RamDepth - 1) |-> ram'[w]]
          BY <5>1 DEF IInv, RamInv
        <5> QED
          BY <5>4, <5>5 DEF RamInv
      <4> QED
        BY <4>2, <4>3
    <3> QED
      BY <3>2, <3>3
  <2> QED
    BY <2>1, <2>2 DEF IInv
<1>2. ASSUME Cleared
      PROVE  IInv'
  BY <1>2 DEF Cleared, ramVars, IInv, LinesInv, RamInv, Asks
<1>3. CASE AssertReset
  BY <1>2, <1>3 DEF AssertReset
<1>4. CASE EdgeInReset
  BY <1>2, <1>4 DEF EdgeInReset
<1>5. CASE ReleaseReset
  BY <1>5 DEF ReleaseReset, ramVars, IInv, LinesInv, RamInv
<1>6. CASE UNCHANGED vars
  BY <1>6 DEF vars, ramVars, IInv, LinesInv, RamInv
<1> QED
  BY <1>1, <1>3, <1>4, <1>5, <1>6 DEF Next

(* What an edge does, in terms of the requests that the devices see. *)
LEMMA EdgeParts ==
    ASSUME Edge
    PROVE  /\ rvalid' = [d \in Devices |-> DeviceReq(d) # {}]
           /\ RamEdge(DeviceReq(Ram)) /\ SimCtrlEdge(DeviceReq(SimCtrl))
           /\ TimerEdge(DeviceReq(TimerDev))
<1> DEFINE reqs == <<DeviceReq(Ram), DeviceReq(SimCtrl), DeviceReq(TimerDev)>>
<1>1. reqs[1] = DeviceReq(Ram) /\ reqs[2] = DeviceReq(SimCtrl) /\ reqs[3] = DeviceReq(TimerDev)
  OBVIOUS
<1>2. \A d \in Devices : reqs[d] = DeviceReq(d)
  BY <1>1 DEF Devices, Ram, SimCtrl, TimerDev
<1>3. /\ rvalid' = [d \in Devices |-> reqs[d] # {}]
      /\ RamEdge(reqs[Ram]) /\ SimCtrlEdge(reqs[SimCtrl]) /\ TimerEdge(reqs[TimerDev])
  BY Zenon DEF Edge
<1>4. Ram \in Devices /\ SimCtrl \in Devices /\ TimerDev \in Devices
  BY DEF Devices
<1> HIDE DEF reqs
<1> QED
  BY <1>2, <1>3, <1>4, Zenon

(* An edge without a request answers nothing and leaves the RAM. *)
LEMMA EdgeTakesNone ==
    ASSUME IInv, Edge, Requesting = {}
    PROVE  Abstract!TakeNone /\ \A g \in Hosts : req[g] = NoReq
<1>1. \A d \in Devices : DeviceReq(d) = {}
  BY NothingSeen
<1>2. \A g \in Hosts : req[g] = NoReq
  BY DEF Requesting
<1>3. rvalid' = [d \in Devices |-> FALSE]
  BY <1>1, EdgeParts
<1>4. decode_err_resp' = FALSE /\ device_sel_resp' \in Devices
  BY DEF Edge, SelectResponse, host_sel_valid
<1>5. \A h \in Hosts : ~host_rvalid(h)'
  BY <1>3, <1>4 DEF host_rvalid
<1>6. ram' = ram
  BY <1>1, EdgeParts DEF RamEdge, Devices
<1>7. printed' = {}
  BY <1>1, EdgeParts DEF SimCtrlEdge, Devices
<1> QED
  BY <1>2, <1>5, <1>6, <1>7 DEF Abstract!TakeNone, Abstract!Silent

(* An edge with requests takes the one that is granted: the next cycle     *)
(* answers its host and no other, with the data and the error of its       *)
(* address.                                                                *)
LEMMA EdgeTakes ==
    ASSUME IInv, Edge, Requesting # {}
    PROVE  Abstract!Take(host_sel_req)
<1>0. PICK h \in Hosts : h = host_sel_req
  BY Arbitrated
<1> DEFINE r == req[h]
<1>1. r \in Request /\ r # NoReq
  BY <1>0, Arbitrated, AsksType DEF IInv, LinesInv
<1>2. \A d \in Devices : DeviceReq(d) = IF In(d, r) THEN {r} ELSE {}
  BY <1>0, DeviceSees DEF IInv, LinesInv
<1>3. /\ host_sel_resp' = h
      /\ device_sel_resp' = device_sel_req(r.addr)
      /\ decode_err_resp' <=> ~device_sel_valid(r.addr)
  BY <1>0 DEF Edge, SelectResponse, host_sel_valid
<1>4. \A d \in Devices : rvalid'[d] <=> In(d, r)
  BY <1>2, EdgeParts
<1>5. \A g \in Hosts : g # h => ~host_rvalid(g)'
  BY <1>3 DEF host_rvalid
<1>6. host_rvalid(h)'
  <2>1. CASE \E d \in Devices : In(d, r)
    BY <1>1, <1>3, <1>4, <2>1, Selected DEF host_rvalid
  <2>2. CASE \A d \in Devices : ~In(d, r)
    BY <1>1, <1>3, <2>2, NotSelected DEF host_rvalid
  <2> QED
    BY <2>1, <2>2
<1>7. host_err(h)' <=> RequestFails(r)
  <2>1. CASE In(TimerDev, r)
    <3>1. device_sel_resp' = TimerDev /\ ~decode_err_resp'
      BY <1>1, <1>3, <2>1, Selected DEF Devices
    <3>2. timer_err' <=> Register(r.addr) = "none"
      BY <1>2, <2>1, EdgeParts DEF TimerEdge, Devices
    <3>3. RequestFails(r) <=> Register(r.addr) = "none"
      BY <2>1 DEF RequestFails, Devices
    <3> QED
      BY <1>3, <3>1, <3>2, <3>3 DEF host_err, device_err
  <2>2. CASE ~In(TimerDev, r) /\ \E d \in Devices : In(d, r)
    <3>1. device_sel_resp' # TimerDev /\ ~decode_err_resp'
      BY <1>1, <1>3, <2>2, Selected DEF Devices
    <3> QED
      BY <2>2, <3>1 DEF host_err, device_err, RequestFails
  <2>3. CASE \A d \in Devices : ~In(d, r)
    <3>1. decode_err_resp'
      BY <1>1, <1>3, <2>3, NotSelected
    <3> QED
      BY <1>3, <2>3, <3>1 DEF host_err, RequestFails
  <2> QED
    BY <2>1, <2>2, <2>3
<1>8. ReadsRam(r) => host_rdata(h)' = WordAt(ram, r)
  <2> SUFFICES ASSUME In(Ram, r), ~r.we PROVE host_rdata(h)' = WordAt(ram, r)
    BY DEF ReadsRam
  <2>1. device_sel_resp' = Ram
    BY <1>1, <1>3, Selected DEF Devices
  <2>2. ram_rdata' = ram[addr_idx(r.addr)]
    BY <1>2, EdgeParts DEF RamEdge, Devices
  <2> QED
    BY <1>3, <2>1, <2>2 DEF host_rdata, device_rdata, Ram, WordAt, addr_idx
<1>9. ram' = WriteBytes(ram, r)
  <2>1. CASE In(Ram, r)
    <3>1. ram' = RamWrite(ram, r)
      BY <1>2, <2>1, EdgeParts DEF RamEdge, Devices
    <3> QED
      BY <1>1, <2>1, <3>1, WriteExact DEF IInv
  <2>2. CASE ~In(Ram, r)
    BY <1>2, <2>2, EdgeParts DEF RamEdge, Devices, WriteBytes
  <2> QED
    BY <2>1, <2>2
<1>10. printed' = Prints(r)
  <2>1. CASE In(SimCtrl, r)
    BY <1>2, <2>1, EdgeParts DEF SimCtrlEdge, Devices, Prints
  <2>2. CASE ~In(SimCtrl, r)
    BY <1>2, <2>2, EdgeParts DEF SimCtrlEdge, Devices, Prints
  <2> QED
    BY <2>1, <2>2
<1> HIDE DEF r
<1>11. host_err(h)' = RequestFails(r)
  BY <1>7, Zenon DEF host_err, RequestFails
<1> DEFINE A == [k \in Hosts |-> IF host_rvalid(k)
                                 THEN {[err |-> host_err(k), data |-> host_rdata(k)]} ELSE {}]
           a == [err |-> host_err(h)', data |-> host_rdata(h)']
<1>12. \A g \in Hosts : g # h => A'[g] = {}
  BY <1>5
<1>13. A'[h] = {a}
  BY <1>6
<1>14. a.err = host_err(h)' /\ a.data = host_rdata(h)'
  BY Zenon
<1> HIDE DEF a
<1>15. \A g \in Hosts :
          IF g # h THEN A'[g] = {}
          ELSE \E x \in A'[g] :
                  /\ A'[g] = {x}
                  /\ x.err = RequestFails(r)
                  /\ ReadsRam(r) => x.data = WordAt(ram, r)
  BY <1>8, <1>11, <1>12, <1>13, <1>14, Zenon
<1> QED
  BY <1>0, <1>1, <1>9, <1>10, <1>15, Zenon DEF Abstract!Take, r

(* The other port delivers the word that was there before the edge. *)
LEMMA EdgeFetches ==
    ASSUME IInv, Edge
    PROVE  (IF instr_rvalid' THEN {instr_rdata'} ELSE {}) = {WordAt(ram, f) : f \in {[addr |-> a] : a \in instr}}
<1>1. instr_rvalid' <=> instr # {}
  BY DEF Edge
<1>2. CASE instr = {}
  BY <1>1, <1>2
<1>3. CASE \E a \in Fetches : instr = {a}
  <2>1. PICK a \in Fetches : instr = {a}
    BY <1>3
  <2>2. instr_rdata' = ram[addr_idx(a)]
    BY <2>1, EdgeParts DEF RamEdge
  <2>3. WordAt(ram, [addr |-> a]) = instr_rdata'
    BY <2>2 DEF WordAt, addr_idx
  <2>4. {[addr |-> x] : x \in instr} = {[addr |-> a]}
    BY <2>1
  <2> QED
    BY <1>1, <2>1, <2>3, <2>4
<1> QED
  BY <1>2, <1>3 DEF IInv, LinesInv

(* A clock edge is a cycle of the abstract bus. *)
LEMMA EdgeIsCycle ==
    ASSUME IInv, Edge
    PROVE  Abstract!Cycle
<1>1. CASE Requesting = {}
  BY <1>1, EdgeTakesNone, EdgeFetches, Zenon DEF Abstract!Cycle
<1>2. CASE Requesting # {}
  <2>1. PICK h \in Hosts : h = host_sel_req
    BY <1>2, Arbitrated
  <2>2. Abstract!Take(h)
    BY <1>2, <2>1, EdgeTakes
  <2>3. \A g \in Hosts \ {h} : req[g] # NoReq => req'[g] = req[g]
    BY <2>1 DEF Edge, NextRequests, Requesting
  <2> QED
    BY <2>2, <2>3, EdgeFetches, Zenon DEF Abstract!Cycle
<1> QED
  BY <1>1, <1>2

(* Reset is a reset of the abstract bus, although the RAM and the counter  *)
(* of the simulator control go on as they are.                             *)
LEMMA ClearedIsReset ==
    ASSUME Cleared
    PROVE  Abstract!Reset
<1>1. \A h \in Hosts : ~host_rvalid(h)'
  BY DEF Cleared, host_rvalid, Devices
<1>2. ram' = ram /\ printed' = {} /\ ~instr_rvalid' /\ req' = [h \in Hosts |-> NoReq]
  BY DEF Cleared, ramVars
<1> QED
  BY <1>1, <1>2 DEF Abstract!Reset, Abstract!TakeNone, Abstract!Silent

LEMMA InitIsInit == Init => Abstract!Init
<1> SUFFICES ASSUME Init PROVE Abstract!Init
  OBVIOUS
<1>1. \A h \in Hosts : ~host_rvalid(h)
  BY DEF Init, host_rvalid, Devices
<1> QED
  BY <1>1 DEF Init, Abstract!Init, Abstract!Silent

(* What an edge does not touch, the abstract bus does not see change. *)
LEMMA StutterIsStutter ==
    ASSUME UNCHANGED <<req, instr, busVars, rvalid, instr_rvalid, ramVars, timer_rdata, timer_err, printed>>
    PROVE  UNCHANGED Abstract!vars
<1>1. ASSUME NEW h \in Hosts
      PROVE  /\ host_rvalid(h)' = host_rvalid(h)
             /\ host_err(h)' = host_err(h)
             /\ host_rdata(h)' = host_rdata(h)
  BY Zenon DEF busVars, ramVars, host_rvalid, host_err, host_rdata, device_err, device_rdata
<1> QED
  BY <1>1, Zenon DEF busVars, ramVars, Abstract!vars

(* The clock edges, resets and everything between them implement atomic    *)
(* accesses: bus.sv with the devices of ibex_simple_system.sv takes at     *)
(* most one request in a cycle, has its whole effect at once and answers   *)
(* its host, and no other, in the next one.                                *)
THEOREM AtomicAccesses == Spec => Atomic
<1>1. IInv /\ [Next]_vars => [Abstract!Cycle \/ Abstract!Reset]_(Abstract!vars)
  <2> SUFFICES ASSUME IInv, [Next]_vars
               PROVE  [Abstract!Cycle \/ Abstract!Reset]_(Abstract!vars)
    OBVIOUS
  <2>1. CASE Edge
    BY <2>1, EdgeIsCycle
  <2>2. CASE AssertReset
    BY <2>2, ClearedIsReset DEF AssertReset
  <2>3. CASE EdgeInReset
    BY <2>3, ClearedIsReset DEF EdgeInReset
  <2>4. CASE ReleaseReset
    BY <2>4, StutterIsStutter DEF ReleaseReset
  <2>5. CASE UNCHANGED vars
    BY <2>5, StutterIsStutter DEF vars
  <2> QED
    BY <2>1, <2>2, <2>3, <2>4, <2>5 DEF Next
<1> QED
  BY InitIInv, NextIInv, InitIsInit, <1>1, PTL DEF Spec, Atomic, Abstract!Spec
=============================================================================
