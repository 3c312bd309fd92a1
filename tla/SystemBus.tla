---------------------------- MODULE SystemBus ----------------------------
(***************************************************************************)
(* The interconnect of the simple system (bus.sv, ibex_simple_system.sv)   *)
(* and what is connected to it: the RAM with its second port for           *)
(* instruction fetches (ram_2p.sv, prim_generic_ram_2p.sv), the simulator  *)
(* control (simulator_ctrl.sv) and the timer (timer.sv, module Timer).     *)
(*                                                                         *)
(* A step is a rising clock edge, or the falling edge of the reset, which  *)
(* is asynchronous.  Addresses are word addresses: hosts access words,     *)
(* with byte strobes.                                                      *)
(***************************************************************************)
EXTENDS Timer, FiniteSets, Sequences, FiniteSetsExt

CONSTANTS
    NrHosts,      \* hosts 0 .. NrHosts - 1
    DataBytes,    \* bytes of a bus word, 4 in the code
    Regions,      \* <<Ram, SimCtrl, Timer>>: [base, size], in words
    Requests,     \* host -> the requests it makes: [addr, we, be, wdata]
    Fetches       \* the word addresses of instructions

Hosts == 0 .. (NrHosts - 1)

Ram == 1
SimCtrl == 2
TimerDev == 3
Devices == {Ram, SimCtrl, TimerDev}

Words == 0 .. (Base - 1)
RamDepth == Regions[Ram].size
Region(d) == Regions[d].base .. (Regions[d].base + Regions[d].size - 1)

(* A word of the RAM and of the read data is the bytes of its lanes. *)
Lanes == 0 .. (DataBytes - 1)
ByteBase == 2 ^ (WordBits \div DataBytes)
Byte(w, b) == (w \div ByteBase ^ b) % ByteBase
Bytes(w) == [b \in Lanes |-> Byte(w, b)]

(* Regions are masks: powers of two, aligned, and they do not overlap.     *)
(* The registers of the timer are written with all strobes set.            *)
ASSUME BusAssumption ==
    /\ NrHosts \in Nat \ {0}
    /\ DataBytes \in 1 .. WordBits /\ WordBits % DataBytes = 0
    /\ Regions \in [Devices -> [base : Nat, size : Nat \ {0}]]
    /\ \A d \in Devices : Regions[d].base % Regions[d].size = 0
    /\ \A d, e \in Devices : d # e => Region(d) \cap Region(e) = {}
    /\ \A h \in Hosts : Requests[h] \subseteq
          [addr : Nat, we : BOOLEAN, be : SUBSET Lanes, wdata : Words]
    /\ Fetches \subseteq Nat

VARIABLES
    req,                                               \* host -> its request signals
    instr,                                             \* the fetch: {} or {address}
    rst,                                               \* "before", "active", "over"
    host_sel_resp, device_sel_resp, decode_err_resp,   \* registers of the bus
    rvalid,                                            \* device -> rvalid_o
    ram, ram_rdata, instr_rvalid, instr_rdata,         \* the RAM and its two ports
    timer_rdata, timer_err,                            \* rdata_q, error_q of the timer
    sim_finish, finished,                              \* simulator_ctrl; $finish called
    printed                                            \* what the last edge wrote to the log

busVars == <<host_sel_resp, device_sel_resp, decode_err_resp>>
ramVars == <<ram, ram_rdata, instr_rdata>>
vars == <<req, instr, rst, busVars, rvalid, instr_rvalid, ramVars, timerVars,
          timer_rdata, timer_err, sim_finish, finished, printed>>

NoReq == [addr |-> 0, we |-> FALSE, be |-> {}, wdata |-> Base]   \* host_req_i is 0
Asks == {NoReq} \cup UNION {Requests[h] : h \in Hosts}

Init ==
    /\ req = [h \in Hosts |-> NoReq] /\ instr = {} /\ rst = "before"
    /\ host_sel_resp = 0 /\ device_sel_resp = Ram /\ decode_err_resp = FALSE
    /\ rvalid = [d \in Devices |-> FALSE] /\ instr_rvalid = FALSE
    /\ ram = [w \in 0 .. (RamDepth - 1) |-> Bytes(0)]
    /\ ram_rdata = Bytes(0) /\ instr_rdata = Bytes(0)
    /\ Reset /\ timer_rdata = 0 /\ timer_err = FALSE
    /\ sim_finish = 0 /\ printed = {} /\ finished = FALSE
---------------------------------------------------------------------------
(* bus.sv, requests: the host with the lowest number, and the last device  *)
(* whose region the address is in.                                         *)
Requesting == {h \in Hosts : req[h] # NoReq}

host_sel_req_NotLast == IF Requesting \ {NrHosts - 1} = {} THEN 0 ELSE Min(Requesting \ {NrHosts - 1})

host_sel_valid == Requesting # {}
host_sel_req == IF Requesting = {} THEN 0 ELSE Min(Requesting)

Matching(addr) == {d \in Devices : addr - (addr % Regions[d].size) = Regions[d].base}

device_sel_valid(addr) == Matching(addr) # {}
device_sel_req(addr) == IF Matching(addr) = {} THEN Ram ELSE Max(Matching(addr))

(* The request that a device sees, as a set. *)
DeviceReq(d) ==
    LET r == req[host_sel_req]
    IN  IF r # NoReq /\ device_sel_valid(r.addr) /\ device_sel_req(r.addr) = d THEN {r} ELSE {}

(* What is selected for the responses.  The address lines of a host that   *)
(* makes no request carry anything.                                        *)
SelectResponse_NoHost ==
    /\ UNCHANGED host_sel_resp
    /\ decode_err_resp' = (host_sel_valid /\ ~device_sel_valid(req[host_sel_req].addr))
    /\ IF host_sel_valid THEN device_sel_resp' = device_sel_req(req[host_sel_req].addr)
                         ELSE device_sel_resp' \in Devices

SelectResponse ==
    /\ host_sel_resp' = host_sel_req
    /\ decode_err_resp' = (host_sel_valid /\ ~device_sel_valid(req[host_sel_req].addr))
    /\ IF host_sel_valid THEN device_sel_resp' = device_sel_req(req[host_sel_req].addr)
                         ELSE device_sel_resp' \in Devices

(* bus.sv, responses. *)
device_err(d) == d = TimerDev /\ timer_err
device_rdata(d) == <<ram_rdata, Bytes(0), Bytes(timer_rdata)>>[d]

host_rvalid(h) == h = host_sel_resp /\ (rvalid[device_sel_resp] \/ decode_err_resp)
host_err(h) == h = host_sel_resp /\ (device_err(device_sel_resp) \/ decode_err_resp)
host_rdata(h) == IF h = host_sel_resp THEN device_rdata(device_sel_resp) ELSE Bytes(0)
---------------------------------------------------------------------------
(* ram_2p.sv: the index wraps around; bytes are written under the mask.    *)
(* Both ports read what was there before the edge.                         *)
addr_idx(addr) == addr % RamDepth

Masked(old, r) == [b \in Lanes |-> IF b \in r.be THEN Byte(r.wdata, b) ELSE old[b]]

RamWrite(mem, r) ==
    IF ~r.we THEN mem ELSE [mem EXCEPT ![addr_idx(r.addr)] = Masked(@, r)]

RamEdge(reqs) ==
    /\ IF reqs = {} THEN UNCHANGED <<ram, ram_rdata>>
       ELSE \E r \in reqs :
               /\ ram' = RamWrite(ram, r)
               /\ ram_rdata' = IF r.we THEN ram_rdata ELSE ram[addr_idx(r.addr)]
    /\ IF instr = {} THEN UNCHANGED instr_rdata
       ELSE \E a \in instr : instr_rdata' = ram[addr_idx(a)]

(* timer.sv: the registers at the first four words, an error elsewhere. *)
Register(addr) ==
    LET off == addr - Regions[TimerDev].base
    IN  IF off < 4 THEN <<"MTIME_LOW", "MTIME_HIGH", "MTIMECMP_LOW", "MTIMECMP_HIGH">>[off + 1]
        ELSE "none"

TimerEdge(reqs) ==
    IF reqs = {} THEN ClockEdge(NoAccess) /\ UNCHANGED <<timer_rdata, timer_err>>
    ELSE \E r \in reqs :
            /\ ClockEdge([we |-> r.we, addr |-> Register(r.addr), wdata |-> r.wdata])
            /\ timer_rdata' = ReadData(Register(r.addr))
            /\ timer_err' = (Register(r.addr) = "none")

(* simulator_ctrl.sv: a character is printed, or the end is asked for. *)
ctrl_addr(r) == r.addr - Regions[SimCtrl].base

Char(r) == IF r.we /\ ctrl_addr(r) = 0 /\ 0 \in r.be THEN {Byte(r.wdata, 0)} ELSE {}
Halt(r) == r.we /\ ctrl_addr(r) = 2 /\ 0 \in r.be /\ r.wdata % 2 = 1

(* sim_finish counts on once it is set, in reset too: the increment comes  *)
(* after the two branches.                                                 *)
CountFinish_UnlessReset(asked) ==
    /\ sim_finish' = IF rst' = "active" THEN 0
                     ELSE IF sim_finish # 0 THEN (sim_finish + 1) % 8
                     ELSE IF asked THEN 1 ELSE 0
    /\ finished' = (sim_finish >= 2)

CountFinish(asked) ==
    /\ sim_finish' = IF sim_finish # 0 THEN (sim_finish + 1) % 8
                     ELSE IF asked THEN 1 ELSE 0
    /\ finished' = (sim_finish >= 2)

SimCtrlEdge(reqs) ==
    /\ CountFinish(\E r \in reqs : Halt(r))
    /\ printed' = UNION {Char(r) : r \in reqs}
---------------------------------------------------------------------------
(* External, the hosts: a request is kept until it is granted, then there  *)
(* is another one or none.                                                 *)
NextRequests ==
    /\ req' \in [Hosts -> Asks]
    /\ \A h \in Hosts : IF h \in Requesting \ {host_sel_req} THEN req'[h] = req[h]
                         ELSE req'[h] \in Requests[h] \cup {NoReq}
    /\ instr' \in {{}} \cup {{a} : a \in Fetches}

(* A rising clock edge out of reset. *)
Edge ==
    /\ ~finished /\ rst # "active"
    /\ UNCHANGED rst
    /\ SelectResponse
    /\ LET reqs == <<DeviceReq(Ram), DeviceReq(SimCtrl), DeviceReq(TimerDev)>>
       IN  /\ rvalid' = [d \in Devices |-> reqs[d] # {}]
           /\ RamEdge(reqs[Ram]) /\ SimCtrlEdge(reqs[SimCtrl]) /\ TimerEdge(reqs[TimerDev])
    /\ instr_rvalid' = (instr # {})
    /\ NextRequests

(* The registers that reset clears; the core makes no requests. *)
Cleared ==
    /\ host_sel_resp' = 0 /\ device_sel_resp' = Ram /\ decode_err_resp' = FALSE
    /\ rvalid' = [d \in Devices |-> FALSE] /\ instr_rvalid' = FALSE
    /\ mtime' = 0 /\ mtimecmp' = 0 /\ interrupt' = FALSE
    /\ CountFinish(FALSE) /\ printed' = {}
    /\ req' = [h \in Hosts |-> NoReq] /\ instr' = {}
    /\ UNCHANGED <<ramVars, timer_rdata, timer_err>>

(* The falling edge of the reset, and a clock edge during it.  The RAM is  *)
(* not reset.                                                              *)
AssertReset == ~finished /\ rst = "before" /\ rst' = "active" /\ Cleared

EdgeInReset == ~finished /\ rst = "active" /\ UNCHANGED rst /\ Cleared

ReleaseReset ==
    /\ ~finished /\ rst = "active" /\ rst' = "over"
    /\ UNCHANGED <<req, instr, busVars, rvalid, instr_rvalid, ramVars, timerVars,
                   timer_rdata, timer_err, sim_finish, finished, printed>>

Next == Edge \/ AssertReset \/ EdgeInReset \/ ReleaseReset

Spec == Init /\ [][Next]_vars

(* The main loop keeps toggling the clock until the end: WF_vars(Next),    *)
(* written out for a Next that is possible as long as ~finished.           *)
Clocked == []<>finished \/ []<><<TRUE>>_vars

FairSpec == Spec /\ Clocked
---------------------------------------------------------------------------
In(d, r) == r.addr \in Region(d)

(* A request fails where there is no device and where the timer has no     *)
(* register.                                                               *)
RequestFails(r) == (\A d \in Devices : ~In(d, r)) \/ (In(TimerDev, r) /\ Register(r.addr) = "none")

(* The parts of the abstract specification, in terms of this one. *)
ReadsRam(r) == In(Ram, r) /\ ~r.we
WordAt(mem, r) == mem[r.addr % RamDepth]
WriteBytes(mem, r) ==
    IF ~(In(Ram, r) /\ r.we) THEN mem
    ELSE [w \in 0 .. (RamDepth - 1) |-> [b \in Lanes |->
            IF Regions[Ram].base + w = r.addr /\ b \in r.be THEN Bytes(r.wdata)[b] ELSE mem[w][b]]]
Prints(r) == IF In(SimCtrl, r) THEN Char(r) ELSE {}

Abstract == INSTANCE AtomicBus WITH
    NoRequest <- NoReq, Fails <- RequestFails, ReadsMemory <- ReadsRam,
    Contents <- WordAt, Effect <- WriteBytes, Output <- Prints,
    waiting <- req,
    answer <- [h \in Hosts |-> IF host_rvalid(h)
                               THEN {[err |-> host_err(h), data |-> host_rdata(h)]} ELSE {}],
    fetch <- {[addr |-> a] : a \in instr},
    fetched <- IF instr_rvalid THEN {instr_rdata} ELSE {},
    memory <- ram

(* Arbitration, decoding, the devices and the selection of the response    *)
(* one cycle later amount to atomic accesses: every granted request is     *)
(* answered exactly once, to its own host, by the device of its address,   *)
(* whatever other requests are before, after and next to it.               *)
Atomic == Abstract!Spec

(* The software's request to end the simulation ends it, although other    *)
(* requests go on and a reset may come in between.                         *)
HaltEnds == (sim_finish # 0) ~> finished

(* With strict priorities a host that waits is served if those before it   *)
(* pause now and then, unless reset or the end of the simulation comes.    *)
Pauses(h) == \A g \in 0 .. (h - 1) : req[g] = NoReq

WaitersServed ==
    \A h \in Hosts : []<>Pauses(h) => ((req[h] # NoReq) ~> (host_sel_req = h \/ req[h] = NoReq \/ finished))
===========================================================================
