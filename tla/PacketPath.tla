----------------------------- MODULE PacketPath -----------------------------
(***************************************************************************)
(* One packet at a time through the program that Startup has set up: the   *)
(* installed filter of libpcap, Emitter::handler and dispatchPolicy, and   *)
(* the loop of UniversalHashFunction::Hash in a stage of the worker's      *)
(* filter.  Threads and queues are CaptureFarm's.                          *)
(*                                                                         *)
(* A frame is an IPv4 packet or not, and of a protocol without ports, or   *)
(* with the header that holds them, or cut: a fragment of such a packet    *)
(* that is not the first.  id is the flow id of the packet, as a key of    *)
(* bytes.                                                                  *)
(***************************************************************************)
EXTENDS Startup

CONSTANTS
  PortBytes,            \* the bytes of a key that hold the ports
  Seed                  \* boost::hash_combine over the fields of a flow id

Frame == [ip : BOOLEAN, ports : {"none", "header", "cut"}, id : Key]
NoFrame == [ip |-> FALSE, ports |-> "none", id |-> NoCoefficient]

ASSUME PathAssumption ==
  /\ PortBytes \subseteq KeyByte
  /\ Seed \in [Key -> Nat]

VARIABLES
  frame,                \* the packet in work, NoFrame between two
  fid,                  \* the flow id handler made of it
  victim,               \* the worker dispatchPolicy chose, from 0
  idx, hash             \* round and value of the loop of Hash

pathVars == <<frame, fid, victim, idx, hash>>
vars == <<startVars, pathVars>>

PathTypeOK ==
  /\ StartTypeOK
  /\ frame \in Frame /\ fid \in Key
  /\ victim \in Nat
  /\ idx \in 0..(KeySize + 1) /\ hash \in Int32

Init ==
  /\ StartInit
  /\ frame = NoFrame /\ fid = NoCoefficient /\ victim = 0
  /\ idx = 0 /\ hash = 0

(* The flow ids handler may make of a frame: protocols other than TCP and  *)
(* UDP have no ports, a fragment has whatever bytes of the payload lie     *)
(* where the ports would be, and so have all fields of what is no IPv4.    *)
FlowIds(f) ==
  {k \in Key : f.ip => \A b \in KeyByte :
     IF b \notin PortBytes \/ f.ports = "header" THEN k[b] = f.id[b]
     ELSE f.ports = "none" => k[b] = 0}

(* The worker a flow is sent to.                                           *)
dispatchPolicy(k) == Seed[k] % numWorkers

(* What the filter installed last lets through; a filter of the user may   *)
(* select packets of any kind.                                             *)
Accepted(f) == bpf = "ip" => f.ip

(* libpcap hands a packet to handler, which makes a task of it and chooses *)
(* the worker; the worker starts to hash the flow.                         *)
Handle(f) ==
  /\ process = "up" /\ at = "run" /\ idx = 0
  /\ Accepted(f)
  /\ frame' = f
  /\ fid' \in FlowIds(f)
  /\ victim' = dispatchPolicy(fid')
  /\ idx' = 1 /\ hash' = 0
  /\ UNCHANGED startVars

(* One round of Hash.                                                      *)
HashByte ==
  /\ process = "up" /\ idx \in KeyByte
  /\ hash' = HashStep(hash, fid[idx], coefficient[idx], workerTable)
  /\ idx' = idx + 1
  /\ UNCHANGED <<startVars, frame, fid, victim>>

(* check and conservativeUpdate use countArray[hash]; the task is over.    *)
UseIndex ==
  /\ process = "up" /\ idx = KeySize + 1
  /\ frame' = NoFrame /\ fid' = NoCoefficient /\ victim' = 0
  /\ idx' = 0 /\ hash' = 0
  /\ UNCHANGED startVars

(* The process is gone.                                                    *)
Gone == process # "up" /\ UNCHANGED vars

Next ==
  \/ StartNext /\ UNCHANGED pathVars
  \/ \E f \in Frame : Handle(f)
  \/ HashByte \/ UseIndex \/ Gone

Spec == Init /\ [][Next]_vars

-----------------------------------------------------------------------------
(* Workers and counters are found in place: the load balancer is given a   *)
(* worker that was built, although the emitter has its own copy of their   *)
(* number, and the index Hash returns is one of the table's, in a table of *)
(* at most 2^23 buckets, where the sum of a round never leaves int.        *)
AccessesInBounds ==
  idx > 0 =>
    /\ victim < built
    /\ idx = KeySize + 1 /\ NoOverflow(workerTable) => hash \in 0..(workerTable - 1)

(* Without a filter of the user, every packet the emitter counts is of     *)
(* IPv4, and its flow id is that of its headers; the ports of a fragment   *)
(* are no ports.                                                           *)
HeadersRead ==
  idx > 0 /\ opt.b = "none" =>
    frame.ip /\ \A b \in KeyByte :
      b \notin PortBytes \/ frame.ports = "header" => fid[b] = frame.id[b]

-----------------------------------------------------------------------------
(* The comment `Accepts only ipv4 traffic'.                                *)
OnlyIPv4 == idx > 0 => frame.ip
=============================================================================
