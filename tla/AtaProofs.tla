------------------------------ MODULE AtaProofs -------------------------------
(***************************************************************************)
(* Proofs about the ATA driver for a disk and requests of any size and any *)
(* retry limits: what a call that succeeds, or gives up, has read and      *)
(* written, whatever the device does and whenever power is lost.           *)
(***************************************************************************)
EXTENDS Ata, TLAPS

Identify == [op |-> "identify", lba |-> 0, count |-> 1]

Errors == {"IoError", "Timeout"}

(* A call of the block layer is in progress. *)
Busy == driver.pc \notin {"boot", "idle"} /\ driver.request.op # "identify"

DriverType ==
  [pc: {"boot", "idle", "issue", "poll_bsy", "poll_drq", "transfer",
        "poll_end", "flush", "poll_flush"} \cup Errors,
   request: Requests \cup {Identify, NoReply}, offset: Nat,
   attempt: 0 .. MaxRetries - 1, polls: 0 .. PollTimeout - 1, buf: Seq(Value)]

DeviceType ==
  [busy: BOOLEAN, drq: BOOLEAN, err: BOOLEAN,
   cmd: {"none", "RESET", "IDENTIFY", "READ", "WRITE", "END", "STORE", "FLUSH"},
   lba: 0 .. LbaModulus - 1, data: Value]

(* The driver's counters and buffer, and when there is a driver at all:    *)
(* calls are let through only once the device has been found.              *)
DriverInv ==
  /\ driver \in DriverType
  /\ ATA \in BOOLEAN
  /\ driver.pc = "boot" => ~ATA /\ driver.offset = 0 /\ reply = NoReply
  /\ driver.pc \notin {"boot", "idle"} =>
       /\ reply = NoReply
       /\ driver.request \in Requests \cup {Identify}
       /\ driver.request = Identify => ~ATA /\ driver.offset = 0
       /\ driver.pc = "poll_bsy" => driver.request = Identify
       /\ driver.pc \in {"flush", "poll_flush"} => driver.request.op = "write"
       /\ driver.pc \in Errors => driver.request # Identify
  /\ Busy =>
       /\ ATA /\ driver.request.op \in {"read", "write"}
       /\ driver.offset < driver.request.count
       /\ driver.request.count <= Len(driver.buf)
       /\ driver.request.op = "write" => driver.buf = driver.request.data

(* The device offers data exactly behind the first stage of a command, and *)
(* works on a sector it has.                                               *)
DeviceInv ==
  /\ device \in DeviceType
  /\ device.drq <=> ~device.busy /\ device.cmd # "none"
  /\ ~device.busy => device.cmd \in {"none", "IDENTIFY", "READ", "WRITE"}
  /\ device.cmd = "none" => ~device.busy
  /\ device.cmd = "STORE" => device.lba \in Sector
  /\ device.cmd \in {"READ", "WRITE"} /\ ~device.busy => device.lba \in Sector
  /\ device.cmd = "READ" /\ ~device.busy => device.data = Visible[device.lba]

DiskInv ==
  /\ medium \in [Sector -> Value]
  /\ DOMAIN cache \subseteq Sector /\ \A s \in DOMAIN cache : cache[s] \in Value

(* The commands the device may be at, or may have ended, when the driver   *)
(* is at pc with a call op.                                                *)
Commands(pc, op) ==
  IF op = "read"
    THEN CASE pc = "poll_drq" -> {"READ", "none", "RESET"}
           [] pc = "transfer" -> {"READ"}
           [] pc = "poll_end" -> {"END", "none"}
           [] pc \in Errors   -> {"READ", "END", "none", "RESET"}
           [] OTHER           -> {"none", "RESET"}
    ELSE CASE pc = "poll_drq"   -> {"WRITE", "none", "RESET"}
           [] pc = "transfer"   -> {"WRITE"}
           [] pc = "poll_end"   -> {"STORE", "none"}
           [] pc = "flush"      -> {"none"}
           [] pc = "poll_flush" -> {"FLUSH", "none"}
           [] pc \in Errors     -> {"WRITE", "STORE", "FLUSH", "none", "RESET"}
           [] OTHER             -> {"none", "RESET"}

(* The device is never at work for an earlier call or attempt: a reset     *)
(* comes between, or the command has ended.                                *)
CommandInv ==
  /\ ~ATA => device.cmd \in {"none", "RESET", "IDENTIFY", "END"}
  /\ ATA /\ driver.pc = "idle" => device.cmd \in {"none", "RESET"}
  /\ driver.pc = "poll_end" /\ ~Busy => device.cmd \in {"END", "none"}
  /\ Busy => device.cmd \in Commands(driver.pc, driver.request.op)
  /\ Busy /\ driver.pc = "transfer" => ~device.busy
  /\ Busy /\ device.cmd \in {"READ", "WRITE", "STORE"} => device.lba = sector_lba
  /\ Busy /\ device.cmd = "STORE" => device.data = driver.buf[driver.offset + 1]

(* How far the sector at the driver's offset has got. *)
SectorInv ==
  LET here == driver.buf[driver.offset + 1]
  IN  /\ Busy /\ driver.request.op = "read" /\ driver.pc = "poll_end" =>
           sector_lba \in Sector /\ here = Visible[sector_lba]
      /\ Busy /\ driver.request.op = "write" =>
           /\ (\/ driver.pc = "poll_end" /\ device.cmd = "none" /\ ~device.err
               \/ driver.pc \in {"flush", "poll_flush"})
                => sector_lba \in Sector /\ Visible[sector_lba] = here
           /\ driver.pc = "flush" => ~device.err
           /\ driver.pc = "poll_flush" /\ device.cmd = "none" /\ ~device.err
                => medium[sector_lba] = here

(* The first n sectors of call q are on the medium and will stay. *)
Stored(q, n) ==
  \A i \in 1 .. n :
    /\ q.lba + i - 1 \in Sector
    /\ medium[q.lba + i - 1] = q.data[i] /\ Visible[q.lba + i - 1] = q.data[i]

(* Call q has changed at most the first n sectors it names. *)
Touched(q, n) ==
  \A s \in Sector :
    Visible[s] = before[s] \/ (q.op = "write" /\ s \in q.lba .. q.lba + n - 1)

(* The first n sectors of call q are in buf as they were. *)
Fetched(q, n, buf) ==
  \A i \in 1 .. n : q.lba + i - 1 \in Sector /\ buf[i] = before[q.lba + i - 1]

(* The sectors before the driver's offset are done and no sector behind it *)
(* is touched.                                                             *)
CallInv ==
  Busy /\ InRange(driver.request) =>
    /\ driver.request.op = "write" => Stored(driver.request, driver.offset)
    /\ driver.request.op = "read" =>
         Fetched(driver.request, driver.offset, driver.buf)
    /\ Touched(driver.request, driver.offset + 1)

(* What the last call reported is still so. *)
ReplyInv ==
  reply.op \notin {"none", "identify"} =>
    /\ driver.pc = "idle" /\ reply.request \in Requests
    /\ reply.op = reply.request.op /\ reply.done \in Nat
    /\ InRange(reply.request) =>
         /\ reply.op = "write" => Stored(reply.request, reply.done)
         /\ Touched(reply.request, IF reply.result \in Errors THEN reply.done + 1
                                                              ELSE reply.done)
         /\ reply.result = "Ok" /\ reply.op = "write" =>
              reply.done = reply.request.count
         /\ reply.result = "Ok" /\ reply.op = "read" =>
              Fetched(reply.request, reply.request.count, reply.buf)

AtaInv == /\ DriverInv /\ DeviceInv /\ DiskInv /\ CommandInv
          /\ SectorInv /\ CallInv /\ ReplyInv

-----------------------------------------------------------------------------
LEMMA Modulo ==
  ASSUME NEW x \in Nat, NEW m \in Nat \ {0}
  PROVE  x % m \in 0 .. m - 1 /\ (x < m => x % m = x)
OBVIOUS

LEMMA SectorIs == 0 \in Sector /\ Sector \subseteq 0 .. LbaModulus - 1
BY AtaAssumption DEF Sector

LEMMA VisibleIs ==
  ASSUME DiskInv
  PROVE  Visible \in [Sector -> Value]
BY DEF DiskInv, Visible

LEMMA SettledIs ==
  ASSUME DiskInv
  PROVE  /\ Settled \in DeviceType /\ Settled.busy = FALSE /\ Settled.drq = FALSE
         /\ Settled.err = FALSE /\ Settled.cmd = "none"
<1>1. medium[0] \in Value
  BY SectorIs DEF DiskInv
<1>2. (CHOOSE v \in Value : TRUE) \in Value
  BY <1>1
<1> DEFINE w == CHOOSE v \in Value : TRUE
<1> HIDE DEF w
<1>3. Settled = [busy |-> FALSE, drq |-> FALSE, err |-> FALSE, cmd |-> "none",
                 lba |-> 0, data |-> w]
  BY DEF Settled, w
<1>4. w \in Value
  BY <1>2 DEF w
<1> QED BY <1>3, <1>4, AtaAssumption DEF DeviceType

LEMMA IdleIs ==
  ASSUME NEW pc \in {"boot", "idle"}
  PROVE  [Idle EXCEPT !.pc = pc] \in DriverType
<1>1. <<>> \in Seq(Value) /\ 0 \in 0 .. MaxRetries - 1 /\ 0 \in 0 .. PollTimeout - 1
  BY AtaAssumption
<1> QED BY <1>1 DEF Idle, DriverType

LEMMA IdleType == Idle \in DriverType /\ Idle.pc = "idle"
BY IdleIs DEF Idle

(* A call in progress. *)
LEMMA BusyIs ==
  ASSUME DriverInv, Busy
  PROVE  /\ driver.request \in Requests /\ driver.request.op \in {"read", "write"}
         /\ driver.request.lba \in Nat /\ driver.request.count \in Nat
         /\ driver.offset \in Nat /\ driver.buf \in Seq(Value)
         /\ driver.offset + 1 \in 1 .. Len(driver.buf)
         /\ sector_lba \in 0 .. LbaModulus - 1
         /\ InRange(driver.request) => sector_lba = driver.request.lba + driver.offset
<1>1. driver.request \in Requests /\ driver.offset \in Nat /\ driver.buf \in Seq(Value)
      /\ driver.offset < driver.request.count
      /\ driver.request.count <= Len(driver.buf)
  BY DEF DriverInv, Busy, DriverType, Identify
<1>2. driver.request.op \in {"read", "write"} /\ driver.request.lba \in Nat
      /\ driver.request.count \in Nat
  BY <1>1, AtaAssumption
<1>3. driver.request.lba + driver.offset \in Nat /\ LbaModulus \in Nat \ {0}
  BY <1>1, <1>2, AtaAssumption
<1>4. sector_lba \in 0 .. LbaModulus - 1
  BY <1>3, Modulo DEF sector_lba
<1>5. InRange(driver.request) => sector_lba = driver.request.lba + driver.offset
  <2> DEFINE x == driver.request.lba + driver.offset
  <2>1. InRange(driver.request) => x < LbaModulus
    BY <1>1, <1>2, AtaAssumption DEF InRange
  <2>2. sector_lba = x % LbaModulus /\ x \in Nat
    BY <1>3 DEF sector_lba
  <2> HIDE DEF x
  <2>3. x < LbaModulus => x % LbaModulus = x
    BY <1>3, <2>2, Modulo
  <2>4. InRange(driver.request) => sector_lba = x
    BY <2>1, <2>2, <2>3
  <2> QED BY <2>4 DEF x
<1> QED BY <1>1, <1>2, <1>4, <1>5

-----------------------------------------------------------------------------
LEMMA InitInv == Init => AtaInv
<1> SUFFICES ASSUME Init PROVE AtaInv
  OBVIOUS
<1>1. DiskInv
  BY DEF Init, DiskInv, Nothing
<1>2. DeviceInv
  BY <1>1, SettledIs DEF Init, DeviceInv
<1>3. driver.pc = "boot" /\ driver.request = NoReply /\ driver.offset = 0 /\ ~ATA
  BY DEF Init, Idle
<1>4. driver \in DriverType
  BY IdleIs DEF Init
<1>5. DriverInv /\ ~Busy
  BY <1>3, <1>4 DEF DriverInv, Busy, Init
<1>6. CommandInv
  BY <1>1, <1>3, <1>5, SettledIs DEF CommandInv, Init
<1>7. SectorInv /\ CallInv /\ ReplyInv
  BY <1>5 DEF SectorInv, CallInv, ReplyInv, Init, NoReply
<1> QED BY <1>1, <1>2, <1>5, <1>6, <1>7 DEF AtaInv

-----------------------------------------------------------------------------
(* Only a call of the block layer has the device at a sector of the disk,  *)
(* and only a write has it store one.                                      *)
LEMMA CommandIs ==
  ASSUME AtaInv, device.cmd \in {"READ", "WRITE", "STORE", "FLUSH"}
  PROVE  /\ Busy /\ driver.request.op \in {"read", "write"}
         /\ device.cmd \in {"WRITE", "STORE", "FLUSH"} => driver.request.op = "write"
         /\ device.cmd = "READ" => driver.request.op = "read"
         /\ device.cmd = "STORE" => driver.pc \in {"poll_end"} \cup Errors
         /\ device.cmd = "FLUSH" => driver.pc \in {"poll_flush"} \cup Errors
<1>1. ATA /\ driver.pc \notin {"boot", "idle"}
  BY DEF AtaInv, CommandInv, DriverInv
<1>2. Busy
  BY <1>1, AtaAssumption DEF AtaInv, DriverInv, Busy
<1>3. driver.request.op \in {"read", "write"}
  BY <1>2, BusyIs DEF AtaInv
<1>4. device.cmd \in Commands(driver.pc, driver.request.op)
  BY <1>2 DEF AtaInv, CommandInv
<1> QED BY <1>2, <1>3, <1>4 DEF Commands

(* The disk keeps what it shows; sectors may move from the cache.          *)
LEMMA CacheMoves ==
  ASSUME AtaInv, UNCHANGED <<ATA, driver, before, reply>>,
         Visible' = Visible, DiskInv',
         \A s \in Sector : medium'[s] \in {medium[s], Visible[s]}
  PROVE  /\ DriverInv' /\ CallInv' /\ ReplyInv' /\ Busy' = Busy
         /\ sector_lba' = sector_lba
<1> USE DEF AtaInv
<1>1. Busy' = Busy /\ sector_lba' = sector_lba
  BY DEF Busy, sector_lba
<1>2. DriverInv'
  BY <1>1 DEF DriverInv
<1>3. ASSUME NEW q, NEW n, Stored(q, n) PROVE Stored(q, n)'
  BY <1>3 DEF Stored
<1>4. ASSUME NEW q, NEW n, Touched(q, n) PROVE Touched(q, n)'
  BY <1>4 DEF Touched
<1>5. ASSUME NEW q, NEW n, NEW b, Fetched(q, n, b) PROVE Fetched(q, n, b)'
  BY <1>5 DEF Fetched
<1>6. CallInv'
  BY <1>1, <1>3, <1>4, <1>5 DEF CallInv
<1>7. ReplyInv'
  BY <1>3, <1>4, <1>5 DEF ReplyInv
<1> QED BY <1>1, <1>2, <1>6, <1>7

(* The sector of a write reaches the cache of the device. *)
LEMMA StoreIs ==
  ASSUME DiskInv, DeviceInv, device.cmd = "STORE", medium' = medium,
         cache' = [s \in DOMAIN cache \cup {device.lba} |->
                     IF s = device.lba THEN device.data ELSE cache[s]]
  PROVE  /\ DiskInv'
         /\ \A s \in Sector : Visible'[s] = IF s = device.lba THEN device.data
                                                              ELSE Visible[s]
<1>1. device.lba \in Sector /\ device.data \in Value
  BY DEF DeviceInv, DeviceType
<1>2. DiskInv'
  BY <1>1 DEF DiskInv
<1>3. ASSUME NEW s \in Sector
      PROVE  Visible'[s] = IF s = device.lba THEN device.data ELSE Visible[s]
  BY <1>1 DEF Visible
<1> QED BY <1>2, <1>3

LEMMA StoreKeeps ==
  ASSUME AtaInv, device.cmd = "STORE", UNCHANGED <<medium, before>>,
         \A s \in Sector : Visible'[s] = IF s = device.lba THEN device.data
                                                           ELSE Visible[s],
         NEW q, NEW n, q = driver.request, n = driver.offset, InRange(q)
  PROVE  Stored(q, n)' /\ Touched(q, n + 1)'
<1>1. Busy /\ q.op = "write"
  BY CommandIs
<1>2. Stored(q, n) /\ Touched(q, n + 1) /\ device.lba = sector_lba
  BY <1>1 DEF AtaInv, CallInv, CommandInv
<1>3. device.lba = q.lba + n /\ q.lba \in Nat /\ n \in Nat
  BY <1>1, <1>2, BusyIs DEF AtaInv
<1>4. Stored(q, n)'
  BY <1>2, <1>3 DEF Stored
<1>5. Touched(q, n + 1)'
  BY <1>1, <1>2, <1>3 DEF Touched
<1> QED BY <1>4, <1>5

-----------------------------------------------------------------------------
(***************************************************************************)
(* The steps of the device.                                                *)
(***************************************************************************)
LEMMA DestageKeeps ==
  ASSUME AtaInv, Destage
  PROVE  AtaInv'
<1> USE DEF AtaInv
<1> PICK s \in DOMAIN cache :
           /\ medium' = [medium EXCEPT ![s] = cache[s]]
           /\ cache' = [t \in DOMAIN cache \ {s} |-> cache[t]]
           /\ UNCHANGED <<ATA, driver, device, before, reply>>
  BY DEF Destage
<1>1. s \in Sector /\ Visible[s] = cache[s] /\ cache[s] \in Value
  BY DEF DiskInv, Visible
<1>2. DiskInv'
  BY <1>1 DEF DiskInv
<1>3. \A t \in Sector : medium'[t] \in {medium[t], Visible[t]}
  BY <1>1 DEF DiskInv
<1>4. Visible' = Visible
  <2>1. ASSUME NEW t \in Sector PROVE Visible'[t] = Visible[t]
    BY <1>1 DEF Visible, DiskInv
  <2> QED BY <2>1 DEF Visible
<1>5. /\ DriverInv' /\ CallInv' /\ ReplyInv' /\ Busy' = Busy
      /\ sector_lba' = sector_lba
  BY <1>2, <1>3, <1>4, CacheMoves
<1>6. DeviceInv'
  BY <1>4 DEF DeviceInv
<1>7. CommandInv'
  BY <1>5 DEF CommandInv
<1>8. SectorInv'
  BY <1>3, <1>4, <1>5 DEF SectorInv
<1> QED BY <1>2, <1>5, <1>6, <1>7, <1>8

LEMMA DeviceFailsKeeps ==
  ASSUME AtaInv, DeviceFails
  PROVE  AtaInv'
<1> USE DEF AtaInv
<1>1. device.busy /\ device.cmd \notin {"none", "RESET"}
      /\ device' = [Settled EXCEPT !.err = TRUE]
      /\ UNCHANGED <<ATA, driver, medium, cache, before, reply>>
  BY DEF DeviceFails
<1>2. device' \in DeviceType /\ ~device'.busy /\ ~device'.drq /\ device'.err
      /\ device'.cmd = "none"
  BY <1>1, SettledIs DEF DeviceType
<1>3. Visible' = Visible /\ DiskInv'
  BY <1>1 DEF Visible, DiskInv
<1>4. /\ DriverInv' /\ CallInv' /\ ReplyInv' /\ Busy' = Busy
      /\ sector_lba' = sector_lba
  BY <1>1, <1>3, CacheMoves
<1>5. DeviceInv'
  BY <1>2 DEF DeviceInv
<1>6. CommandInv'
  BY <1>1, <1>2, <1>4 DEF CommandInv, Commands, Errors
<1>7. SectorInv'
  <2>1. Busy => driver.pc # "flush"
    BY <1>1 DEF CommandInv, Commands, Errors
  <2> QED BY <1>1, <1>2, <1>3, <1>4, <2>1 DEF SectorInv
<1> QED BY <1>3, <1>4, <1>5, <1>6, <1>7

(* A stage of a command that leaves the disk as it is. *)
LEMMA ServesQuietly ==
  ASSUME AtaInv, device.busy, UNCHANGED <<ATA, driver, medium, cache, before, reply>>,
         device' \in DeviceType, ~device'.busy, ~device'.err \/ device.err,
         \/ device.cmd \in {"RESET", "END"} /\ device'.cmd = "none" /\ ~device'.drq
         \/ /\ device.cmd \in {"IDENTIFY", "READ", "WRITE"} /\ device'.cmd = device.cmd
            /\ device'.lba = device.lba /\ device'.drq
            /\ device.cmd # "IDENTIFY" => device.lba \in Sector
            /\ device.cmd = "READ" => device'.data = Visible[device.lba]
  PROVE  AtaInv'
<1> USE DEF AtaInv
<1>1. Visible' = Visible /\ DiskInv'
  BY DEF Visible, DiskInv
<1>2. /\ DriverInv' /\ CallInv' /\ ReplyInv' /\ Busy' = Busy
      /\ sector_lba' = sector_lba
  BY <1>1, CacheMoves
<1>3. DeviceInv'
  BY <1>1 DEF DeviceInv
<1>4. CommandInv'
  BY <1>2 DEF CommandInv, Commands, Errors
<1>5. SectorInv'
  <2>1. Busy /\ driver.request.op = "write" =>
          driver.pc \notin {"flush", "poll_end", "poll_flush"}
    BY DEF CommandInv, Commands, Errors
  <2> QED BY <1>1, <1>2, <2>1 DEF SectorInv
<1> QED BY <1>1, <1>2, <1>3, <1>4, <1>5

LEMMA StoreServed ==
  ASSUME AtaInv, device.cmd = "STORE", device' = Settled, medium' = medium,
         cache' = [s \in DOMAIN cache \cup {device.lba} |->
                     IF s = device.lba THEN device.data ELSE cache[s]],
         UNCHANGED <<ATA, driver, before, reply>>
  PROVE  AtaInv'
<1> USE DEF AtaInv
<1>1. /\ device' \in DeviceType /\ ~device'.busy /\ ~device'.drq
      /\ ~device'.err /\ device'.cmd = "none"
  BY SettledIs
<1>2. /\ DiskInv'
      /\ \A s \in Sector : Visible'[s] = IF s = device.lba THEN device.data
                                                           ELSE Visible[s]
  BY StoreIs
<1>3. Busy' = Busy /\ sector_lba' = sector_lba
  BY DEF Busy, sector_lba
<1>4. Busy /\ driver.request.op = "write" /\ driver.pc \in {"poll_end"} \cup Errors
  BY CommandIs
<1>5. DriverInv'
  BY <1>3 DEF DriverInv
<1>6. DeviceInv'
  BY <1>1 DEF DeviceInv
<1>7. CommandInv'
  BY <1>1, <1>3, <1>4 DEF CommandInv, Commands, Errors
<1>8. SectorInv'
  <2>1. device.lba = sector_lba /\ device.data = driver.buf[driver.offset + 1]
        /\ device.lba \in Sector
    BY <1>4 DEF CommandInv, DeviceInv
  <2>2. Visible'[sector_lba] = driver.buf[driver.offset + 1]
    BY <1>2, <2>1
  <2> QED BY <1>3, <1>4, <2>1, <2>2 DEF SectorInv, Errors
<1>9. CallInv'
  <2>1. ASSUME NEW q, NEW n, q = driver.request, n = driver.offset, InRange(q)
        PROVE  Stored(q, n)' /\ Touched(q, n + 1)'
    BY <1>2, <2>1, StoreKeeps
  <2> QED BY <1>3, <1>4, <2>1 DEF CallInv, InRange
<1>10. ReplyInv'
  BY <1>4 DEF DriverInv, ReplyInv, NoReply, Busy
<1> QED BY <1>2, <1>5, <1>6, <1>7, <1>8, <1>9, <1>10

LEMMA FlushServed ==
  ASSUME AtaInv, device.cmd = "FLUSH", device' = Settled,
         medium' = Visible, cache' = Nothing,
         UNCHANGED <<ATA, driver, before, reply>>
  PROVE  AtaInv'
<1> USE DEF AtaInv
<1>1. /\ device' \in DeviceType /\ ~device'.busy /\ ~device'.drq
      /\ ~device'.err /\ device'.cmd = "none"
  BY SettledIs
<1>2. DiskInv'
  BY VisibleIs DEF DiskInv, Nothing
<1>3. Visible' = Visible
  <2>1. ASSUME NEW s \in Sector PROVE Visible'[s] = Visible[s]
    BY VisibleIs DEF Visible, Nothing
  <2> QED BY <2>1 DEF Visible
<1>4. Busy /\ driver.request.op = "write" /\ driver.pc \in {"poll_flush"} \cup Errors
  BY CommandIs
<1>5. /\ DriverInv' /\ CallInv' /\ ReplyInv' /\ Busy' = Busy
      /\ sector_lba' = sector_lba
  BY <1>2, <1>3, CacheMoves
<1>6. DeviceInv'
  BY <1>1 DEF DeviceInv
<1>7. CommandInv'
  BY <1>1, <1>4, <1>5 DEF CommandInv, Commands, Errors
<1>8. SectorInv'
  BY <1>3, <1>4, <1>5 DEF SectorInv, Errors
<1> QED BY <1>2, <1>5, <1>6, <1>7, <1>8

LEMMA DeviceServesKeeps ==
  ASSUME AtaInv, DeviceServes
  PROVE  AtaInv'
<1>1. device.busy /\ device \in DeviceType /\ DiskInv
      /\ UNCHANGED <<ATA, driver, before, reply>>
  BY DEF DeviceServes, AtaInv, DeviceInv
<1>2. CASE device.cmd = "IDENTIFY"
  <2>1. device' = [device EXCEPT !.busy = FALSE, !.drq = TRUE]
        /\ UNCHANGED <<medium, cache>>
    BY <1>2 DEF DeviceServes
  <2> QED BY <1>1, <1>2, <2>1, ServesQuietly DEF DeviceType
<1>3. CASE device.cmd = "READ"
  <2>1. device' = [device EXCEPT !.busy = FALSE, !.drq = TRUE,
                                 !.data = Visible[device.lba]]
        /\ device.lba \in Sector /\ UNCHANGED <<medium, cache>>
    BY <1>3 DEF DeviceServes
  <2>2. Visible[device.lba] \in Value
    BY <1>1, <2>1, VisibleIs
  <2>3. device' \in DeviceType /\ device'.busy = FALSE /\ device'.drq = TRUE
        /\ device'.err = device.err /\ device'.cmd = "READ"
        /\ device'.lba = device.lba /\ device'.data = Visible[device.lba]
    BY <1>1, <1>3, <2>1, <2>2 DEF DeviceType
  <2> QED BY <1>1, <1>3, <2>1, <2>3, ServesQuietly
<1>4. CASE device.cmd = "WRITE"
  <2>1. device' = [device EXCEPT !.busy = FALSE, !.drq = TRUE]
        /\ device.lba \in Sector /\ UNCHANGED <<medium, cache>>
    BY <1>4 DEF DeviceServes
  <2> QED BY <1>1, <1>4, <2>1, ServesQuietly DEF DeviceType
<1>5. CASE device.cmd = "STORE"
  BY <1>1, <1>5, StoreServed DEF DeviceServes
<1>6. CASE device.cmd = "FLUSH"
  BY <1>1, <1>6, FlushServed DEF DeviceServes
<1>7. CASE device.cmd \in {"RESET", "END"}
  <2>1. device' = Settled /\ UNCHANGED <<medium, cache>>
    BY <1>7 DEF DeviceServes
  <2> QED BY <1>1, <1>7, <2>1, SettledIs, ServesQuietly
<1>8. device.cmd # "none"
  BY <1>1 DEF AtaInv, DeviceInv
<1> QED BY <1>1, <1>2, <1>3, <1>4, <1>5, <1>6, <1>7, <1>8 DEF DeviceType

-----------------------------------------------------------------------------
(***************************************************************************)
(* The steps of the driver.                                                *)
(***************************************************************************)
(* The driver goes on with its call; the part of the buffer it has filled  *)
(* stays.                                                                  *)
LEMMA DriverMoves ==
  ASSUME AtaInv, driver' \in DriverType,
         driver.pc \notin {"boot", "idle"}, driver'.pc \notin {"boot", "idle"},
         driver'.request = driver.request, driver'.offset = driver.offset,
         Len(driver'.buf) = Len(driver.buf),
         \A i \in 1 .. driver.offset : driver'.buf[i] = driver.buf[i],
         driver.request.op = "write" => driver'.buf = driver.buf,
         driver'.pc = "poll_bsy" => driver.request = Identify,
         driver'.pc \in {"flush", "poll_flush"} => driver.request.op = "write",
         driver'.pc \in Errors => driver.request # Identify,
         UNCHANGED <<ATA, medium, cache, before, reply>>
  PROVE  /\ DriverInv' /\ DiskInv' /\ CallInv' /\ ReplyInv'
         /\ Visible' = Visible /\ Busy' = Busy /\ sector_lba' = sector_lba
<1> USE DEF AtaInv
<1>1. Visible' = Visible /\ DiskInv' /\ Busy' = Busy /\ sector_lba' = sector_lba
  BY DEF Visible, DiskInv, Busy, sector_lba
<1>2. DriverInv'
  BY <1>1 DEF DriverInv
<1>3. ASSUME NEW q, NEW n, Stored(q, n) PROVE Stored(q, n)'
  BY <1>1, <1>3 DEF Stored
<1>4. ASSUME NEW q, NEW n, Touched(q, n) PROVE Touched(q, n)'
  BY <1>1, <1>4 DEF Touched
<1>5. CallInv'
  <2>1. Fetched(driver.request, driver.offset, driver.buf) =>
          Fetched(driver.request, driver.offset, driver.buf)'
    BY DEF Fetched
  <2> QED BY <1>1, <1>3, <1>4, <2>1 DEF CallInv, InRange
<1>6. ReplyInv'
  BY DEF ReplyInv, DriverInv, NoReply
<1> QED BY <1>1, <1>2, <1>5, <1>6

(* The call ends. *)
LEMMA CallEnds ==
  ASSUME AtaInv, driver' = Idle, ATA' \in BOOLEAN, DeviceInv', DiskInv', ReplyInv',
         ATA' => device'.cmd \in {"none", "RESET"},
         device'.cmd \in {"none", "RESET"} \/ (device'.cmd = device.cmd /\ ~ATA)
  PROVE  AtaInv'
<1>1. ~Busy' /\ driver' \in DriverType /\ driver'.pc = "idle"
  BY IdleType DEF Busy
<1>2. DriverInv'
  BY <1>1 DEF DriverInv
<1>3. CommandInv'
  BY <1>1 DEF CommandInv, AtaInv
<1>4. SectorInv' /\ CallInv'
  BY <1>1 DEF SectorInv, CallInv
<1> QED BY <1>2, <1>3, <1>4 DEF AtaInv

LEMMA FailKeeps ==
  ASSUME AtaInv, NEW error \in Errors, Fail(error), UNCHANGED <<ATA, before>>,
         driver.pc \in {"poll_bsy", "poll_drq", "poll_end", "poll_flush"}
  PROVE  AtaInv'
<1> USE DEF AtaInv
<1>1. CASE driver.request.op = "identify"
  <2>1. driver' = Idle /\ reply'.op = "identify" /\ UNCHANGED <<device, medium, cache>>
    BY <1>1 DEF Fail, Return
  <2>2. ~ATA
    BY <1>1, AtaAssumption DEF DriverInv
  <2>3. ReplyInv'
    BY <2>1 DEF ReplyInv
  <2>4. DeviceInv' /\ DiskInv'
    BY <2>1 DEF DeviceInv, DiskInv, Visible
  <2>5. ATA' \in BOOLEAN
    BY DEF DriverInv
  <2> QED BY <2>1, <2>2, <2>3, <2>4, <2>5, CallEnds
<1>2. CASE driver.request.op # "identify"
  <2>1. driver' = [driver EXCEPT !.pc = error]
        /\ UNCHANGED <<device, medium, cache, reply>>
    BY <1>2 DEF Fail
  <2>2. driver' \in DriverType /\ driver'.pc = error /\ driver'.request = driver.request
        /\ driver'.offset = driver.offset /\ driver'.buf = driver.buf
    BY <2>1 DEF DriverInv, DriverType
  <2>3. /\ DriverInv' /\ DiskInv' /\ CallInv' /\ ReplyInv'
        /\ Visible' = Visible /\ Busy' = Busy /\ sector_lba' = sector_lba
    BY <1>2, <2>1, <2>2, DriverMoves DEF Errors, Identify
  <2>4. DeviceInv'
    BY <2>1, <2>3 DEF DeviceInv
  <2>5. CommandInv'
    <3>1. Busy => driver.request.op \in {"read", "write"}
      BY BusyIs
    <3> QED BY <2>1, <2>2, <2>3, <3>1 DEF CommandInv, Commands, Errors
  <2>6. SectorInv'
    BY <2>1, <2>2, <2>3 DEF SectorInv, Errors
  <2> QED BY <2>3, <2>4, <2>5, <2>6
<1> QED BY <1>1, <1>2

LEMMA PollAgainKeeps ==
  ASSUME AtaInv, PollAgain, UNCHANGED <<ATA, before>>,
         driver.pc \in {"poll_bsy", "poll_drq", "poll_end", "poll_flush"}
  PROVE  AtaInv'
<1> USE DEF AtaInv
<1>1. CASE driver.polls + 1 < PollTimeout
  <2>1. driver' = [driver EXCEPT !.polls = @ + 1]
        /\ UNCHANGED <<device, medium, cache, reply>>
    BY <1>1 DEF PollAgain
  <2>2. driver' \in DriverType /\ driver'.pc = driver.pc
        /\ driver'.request = driver.request
        /\ driver'.offset = driver.offset /\ driver'.buf = driver.buf
    <3>1. driver \in DriverType /\ driver.polls \in 0 .. PollTimeout - 1
      BY DEF DriverInv, DriverType
    <3>2. driver.polls + 1 \in 0 .. PollTimeout - 1
      BY <1>1, <3>1, AtaAssumption
    <3> QED BY <2>1, <3>1, <3>2 DEF DriverType
  <2>3. /\ DriverInv' /\ DiskInv' /\ CallInv' /\ ReplyInv'
        /\ Visible' = Visible /\ Busy' = Busy /\ sector_lba' = sector_lba
    BY <2>1, <2>2, DriverMoves DEF DriverInv
  <2>4. DeviceInv'
    BY <2>1, <2>3 DEF DeviceInv
  <2>5. CommandInv'
    BY <2>1, <2>2, <2>3 DEF CommandInv
  <2>6. SectorInv'
    BY <2>1, <2>2, <2>3 DEF SectorInv
  <2> QED BY <2>3, <2>4, <2>5, <2>6
<1>2. CASE ~(driver.polls + 1 < PollTimeout)
  BY <1>2, FailKeeps DEF PollAgain, Errors
<1> QED BY <1>1, <1>2

LEMMA IssueKeeps ==
  ASSUME AtaInv, Issue
  PROVE  AtaInv'
<1> USE DEF AtaInv
<1> DEFINE op == driver.request.op
<1>1. /\ driver.pc = "issue" /\ device' = Accept(CommandOf(op), sector_lba)
      /\ driver' = [driver EXCEPT !.polls = 0,
                      !.pc = IF op = "identify" THEN "poll_bsy" ELSE "poll_drq"]
      /\ UNCHANGED <<ATA, medium, cache, before, reply>>
  BY DEF Issue
<1>2. driver \in DriverType /\ 0 \in 0 .. PollTimeout - 1
  BY AtaAssumption DEF DriverInv
<1>3. driver' \in DriverType /\ driver'.request = driver.request
      /\ driver'.offset = driver.offset /\ driver'.buf = driver.buf
      /\ driver'.pc = IF op = "identify" THEN "poll_bsy" ELSE "poll_drq"
  BY <1>1, <1>2 DEF DriverType
<1>4. op = "identify" => driver.request = Identify
  BY <1>1, AtaAssumption DEF DriverInv
<1>5. /\ DriverInv' /\ DiskInv' /\ CallInv' /\ ReplyInv'
      /\ Visible' = Visible /\ Busy' = Busy /\ sector_lba' = sector_lba
  BY <1>1, <1>3, <1>4, DriverMoves DEF Errors
<1>6. sector_lba \in 0 .. LbaModulus - 1 /\ op \in {"identify", "read", "write"}
  <2>1. CASE op = "identify"
    <3>1. driver.request.lba = 0 /\ driver.offset = 0
      BY <1>1, <1>4, <2>1 DEF DriverInv, Identify
    <3>2. sector_lba = 0 % LbaModulus
      BY <3>1 DEF sector_lba
    <3>3. 0 % LbaModulus \in 0 .. LbaModulus - 1
      BY Modulo, AtaAssumption
    <3> QED BY <2>1, <3>2, <3>3
  <2>2. CASE op # "identify"
    <3>1. Busy
      BY <1>1, <2>2 DEF Busy
    <3> QED BY <3>1, BusyIs
  <2> QED BY <2>1, <2>2
<1>7. CASE device.busy
  <2>1. device' = device
    BY <1>1, <1>7 DEF Accept
  <2>2. DeviceInv'
    BY <1>5, <2>1 DEF DeviceInv
  <2>3. CommandInv'
    BY <1>1, <1>3, <1>5, <2>1 DEF CommandInv, Commands, Busy, Errors
  <2>4. SectorInv'
    BY <1>3, <1>5 DEF SectorInv
  <2> QED BY <1>5, <2>2, <2>3, <2>4
<1>8. CASE ~device.busy
  <2>1. device' = [device EXCEPT !.busy = TRUE, !.drq = FALSE, !.err = FALSE,
                                 !.cmd = CommandOf(op), !.lba = sector_lba]
    BY <1>1, <1>8 DEF Accept
  <2>2. CommandOf(op) = IF op = "identify" THEN "IDENTIFY"
                        ELSE IF op = "read" THEN "READ" ELSE "WRITE"
    BY <1>6 DEF CommandOf
  <2>3. device' \in DeviceType /\ device'.busy = TRUE /\ device'.drq = FALSE
        /\ device'.cmd = CommandOf(op) /\ device'.lba = sector_lba
    BY <1>6, <2>1, <2>2 DEF DeviceInv, DeviceType
  <2>4. DeviceInv'
    BY <2>2, <2>3 DEF DeviceInv
  <2>5. CommandInv'
    <3>1. Busy <=> op # "identify"
      BY <1>1 DEF Busy
    <3>2. ~ATA => op = "identify"
      BY <3>1 DEF DriverInv
    <3> QED BY <1>1, <1>3, <1>5, <1>6, <2>2, <2>3, <3>1, <3>2
            DEF CommandInv, Commands, Errors
  <2>6. SectorInv'
    BY <1>3, <1>5 DEF SectorInv
  <2> QED BY <1>5, <2>4, <2>5, <2>6
<1> QED BY <1>7, <1>8

(* The driver has found what it polled for. *)
LEMMA ProceedIs ==
  ASSUME AtaInv, NEW pc \in {"poll_drq", "transfer", "flush"}, Proceed(pc),
         driver.pc \in {"poll_bsy", "poll_drq", "poll_end"},
         pc = "flush" => driver.request.op = "write",
         UNCHANGED <<ATA, before>>
  PROVE  /\ DriverInv' /\ DiskInv' /\ CallInv' /\ ReplyInv' /\ DeviceInv'
         /\ Visible' = Visible /\ Busy' = Busy /\ sector_lba' = sector_lba
         /\ driver'.pc = pc /\ driver'.request = driver.request
         /\ driver'.offset = driver.offset /\ driver'.buf = driver.buf
         /\ UNCHANGED <<device, medium>>
<1> USE DEF AtaInv
<1>1. driver' = [driver EXCEPT !.pc = pc, !.polls = 0]
      /\ UNCHANGED <<device, medium, cache, reply>>
  BY DEF Proceed
<1>2. driver \in DriverType /\ 0 \in 0 .. PollTimeout - 1
  BY AtaAssumption DEF DriverInv
<1>3. driver' \in DriverType /\ driver'.pc = pc /\ driver'.request = driver.request
      /\ driver'.offset = driver.offset /\ driver'.buf = driver.buf
  BY <1>1, <1>2 DEF DriverType
<1>4. /\ DriverInv' /\ DiskInv' /\ CallInv' /\ ReplyInv'
      /\ Visible' = Visible /\ Busy' = Busy /\ sector_lba' = sector_lba
  BY <1>1, <1>3, DriverMoves DEF Errors
<1>5. DeviceInv'
  BY <1>1, <1>4 DEF DeviceInv
<1> QED BY <1>1, <1>3, <1>4, <1>5

LEMMA PollBsyKeeps ==
  ASSUME AtaInv, poll_bsy
  PROVE  AtaInv'
<1>1. CASE device.busy
  BY <1>1, PollAgainKeeps DEF poll_bsy
<1>2. CASE ~device.busy
  <2>1. /\ DriverInv' /\ DiskInv' /\ CallInv' /\ ReplyInv' /\ DeviceInv'
        /\ Busy' = Busy /\ driver'.pc = "poll_drq" /\ UNCHANGED <<ATA, device>>
    BY <1>2, ProceedIs DEF poll_bsy
  <2>2. ~Busy
    BY DEF poll_bsy, AtaInv, DriverInv, Busy, Identify
  <2>3. CommandInv' /\ SectorInv'
    BY <2>1, <2>2 DEF CommandInv, SectorInv, AtaInv
  <2> QED BY <2>1, <2>3 DEF AtaInv
<1> QED BY <1>1, <1>2

LEMMA PollDrqKeeps ==
  ASSUME AtaInv, poll_drq
  PROVE  AtaInv'
<1> USE DEF AtaInv
<1>1. CASE ~device.busy /\ device.drq
  <2>1. /\ DriverInv' /\ DiskInv' /\ CallInv' /\ ReplyInv' /\ DeviceInv'
        /\ Visible' = Visible /\ Busy' = Busy /\ sector_lba' = sector_lba
        /\ driver'.pc = "transfer" /\ driver'.request = driver.request
        /\ driver'.offset = driver.offset /\ driver'.buf = driver.buf
        /\ UNCHANGED <<device, medium, ATA>>
    BY <1>1, ProceedIs DEF poll_drq
  <2>2. device.cmd \in {"IDENTIFY", "READ", "WRITE"}
    BY <1>1 DEF DeviceInv
  <2>3. driver.pc = "poll_drq"
    BY DEF poll_drq
  <2>4. CommandInv'
    BY <1>1, <2>1, <2>2, <2>3 DEF CommandInv, Commands, Errors
  <2>5. SectorInv'
    BY <2>1 DEF SectorInv
  <2> QED BY <2>1, <2>4, <2>5
<1>2. CASE ~(~device.busy /\ device.drq) /\ device.err
  BY <1>2, FailKeeps DEF poll_drq, Errors
<1>3. CASE ~(~device.busy /\ device.drq) /\ ~device.err
  BY <1>3, PollAgainKeeps DEF poll_drq
<1> QED BY <1>1, <1>2, <1>3

LEMMA TransferKeeps ==
  ASSUME AtaInv, Transfer
  PROVE  AtaInv'
<1> USE DEF AtaInv
<1> DEFINE op == driver.request.op
           i == driver.offset + 1
<1>1. /\ driver.pc = "transfer" /\ UNCHANGED <<ATA, medium, cache, before, reply>>
      /\ driver' = [driver EXCEPT !.pc = "poll_end", !.polls = 0,
                      !.buf = IF op = "read" THEN [@ EXCEPT ![i] = device.data]
                                             ELSE @]
  BY DEF Transfer
<1>2. driver \in DriverType /\ 0 \in 0 .. PollTimeout - 1 /\ device \in DeviceType
  BY AtaAssumption DEF DriverInv, DeviceInv
<1>3. CASE op = "read"
  <2>1. Busy
    BY <1>1, <1>3 DEF Busy
  <2>2. driver.buf \in Seq(Value) /\ i \in 1 .. Len(driver.buf) /\ driver.offset \in Nat
    BY <2>1, BusyIs
  <2>3. device.data \in Value
    BY <1>2 DEF DeviceType
  <2> DEFINE b == [driver.buf EXCEPT ![i] = device.data]
  <2>4. b \in Seq(Value) /\ Len(b) = Len(driver.buf) /\ b[i] = device.data
        /\ \A j \in 1 .. driver.offset : b[j] = driver.buf[j]
    BY <2>2, <2>3
  <2>5. driver' = [driver EXCEPT !.pc = "poll_end", !.polls = 0, !.buf = b]
    BY <1>1, <1>3
  <2> HIDE DEF b
  <2>6. driver' \in DriverType /\ driver'.pc = "poll_end"
        /\ driver'.request = driver.request
        /\ driver'.offset = driver.offset /\ driver'.buf = b
    BY <1>2, <2>4, <2>5 DEF DriverType
  <2>7. /\ DriverInv' /\ DiskInv' /\ CallInv' /\ ReplyInv'
        /\ Visible' = Visible /\ Busy' = Busy /\ sector_lba' = sector_lba
    BY <1>1, <1>3, <2>4, <2>6, DriverMoves DEF Errors
  <2>8. device' = [device EXCEPT !.busy = TRUE, !.drq = FALSE, !.cmd = "END"]
    BY <1>3 DEF Transfer
  <2>9. device' \in DeviceType /\ device'.busy = TRUE /\ device'.drq = FALSE
        /\ device'.cmd = "END"
    BY <1>2, <2>8 DEF DeviceType
  <2>10. DeviceInv'
    BY <2>9 DEF DeviceInv
  <2>11. CommandInv'
    BY <1>3, <2>1, <2>6, <2>7, <2>9 DEF CommandInv, Commands, Errors, DriverInv
  <2>12. device.cmd = "READ" /\ ~device.busy /\ device.lba = sector_lba
    BY <1>1, <1>3, <2>1 DEF CommandInv, Commands, Errors
  <2>13. sector_lba \in Sector /\ device.data = Visible[sector_lba]
    BY <2>12 DEF DeviceInv
  <2>14. SectorInv'
    BY <1>3, <2>4, <2>6, <2>7, <2>13 DEF SectorInv
  <2> QED BY <2>7, <2>10, <2>11, <2>14
<1>4. CASE op # "read"
  <2>1. driver' \in DriverType /\ driver'.pc = "poll_end"
        /\ driver'.request = driver.request
        /\ driver'.offset = driver.offset /\ driver'.buf = driver.buf
    BY <1>1, <1>2, <1>4 DEF DriverType
  <2>2. /\ DriverInv' /\ DiskInv' /\ CallInv' /\ ReplyInv'
        /\ Visible' = Visible /\ Busy' = Busy /\ sector_lba' = sector_lba
    BY <1>1, <2>1, DriverMoves DEF Errors
  <2>3. CASE op = "write"
    <3>1. Busy /\ device.cmd = "WRITE" /\ ~device.busy /\ device.lba = sector_lba
      BY <1>1, <2>3 DEF Busy, CommandInv, Commands, Errors
    <3>2. driver.buf[i] \in Value
      BY <3>1, BusyIs
    <3>3. device' = [device EXCEPT !.busy = TRUE, !.drq = FALSE, !.cmd = "STORE",
                                   !.data = driver.buf[i]]
      BY <2>3 DEF Transfer
    <3>4. device' \in DeviceType /\ device'.busy = TRUE /\ device'.drq = FALSE
          /\ device'.cmd = "STORE" /\ device'.lba = device.lba
          /\ device'.data = driver.buf[i]
      BY <1>2, <3>2, <3>3 DEF DeviceType
    <3>5. DeviceInv'
      BY <3>1, <3>4 DEF DeviceInv
    <3>6. CommandInv'
      BY <2>1, <2>2, <2>3, <3>1, <3>4 DEF CommandInv, Commands, Errors, DriverInv
    <3>7. SectorInv'
      BY <2>1, <2>2, <2>3, <3>4 DEF SectorInv
    <3> QED BY <2>2, <3>5, <3>6, <3>7
  <2>4. CASE op # "write"
    <3>1. ~Busy
      BY <1>4, <2>4, BusyIs
    <3>2. device' = [device EXCEPT !.busy = TRUE, !.drq = FALSE, !.cmd = "END"]
      BY <2>4 DEF Transfer
    <3>3. device' \in DeviceType /\ device'.busy = TRUE /\ device'.drq = FALSE
          /\ device'.cmd = "END"
      BY <1>2, <3>2 DEF DeviceType
    <3>4. DeviceInv'
      BY <3>3 DEF DeviceInv
    <3>5. CommandInv' /\ SectorInv'
      BY <2>1, <2>2, <3>1, <3>3 DEF CommandInv, SectorInv
    <3> QED BY <2>2, <3>4, <3>5
  <2> QED BY <2>3, <2>4
<1> QED BY <1>3, <1>4

(* The sector at the driver's offset is done. *)
LEMMA SectorDone ==
  ASSUME AtaInv, Busy, InRange(driver.request), device.cmd = "none", ~device.err,
         \/ driver.pc = "poll_end" /\ driver.request.op = "read"
         \/ driver.pc = "poll_flush"
  PROVE  /\ driver.request.op = "write" => Stored(driver.request, driver.offset + 1)
         /\ driver.request.op = "read" =>
              Fetched(driver.request, driver.offset + 1, driver.buf)
<1> USE DEF AtaInv
<1> DEFINE q == driver.request
           n == driver.offset
<1>1. q.lba \in Nat /\ n \in Nat /\ sector_lba = q.lba + n
  BY BusyIs
<1>2. ASSUME q.op = "write"
      PROVE  Stored(q, n + 1)
  <2>1. Stored(q, n) /\ driver.buf = q.data
    BY <1>2 DEF CallInv, DriverInv
  <2>2. sector_lba \in Sector /\ Visible[sector_lba] = q.data[n + 1]
        /\ medium[sector_lba] = q.data[n + 1]
    BY <1>2, <2>1 DEF SectorInv
  <2>3. ASSUME NEW i \in 1 .. n + 1
        PROVE  /\ q.lba + i - 1 \in Sector
               /\ medium[q.lba + i - 1] = q.data[i]
               /\ Visible[q.lba + i - 1] = q.data[i]
    <3>1. CASE i = n + 1
      BY <1>1, <2>2, <3>1
    <3>2. CASE i # n + 1
      BY <1>1, <2>1, <3>2 DEF Stored
    <3> QED BY <3>1, <3>2
  <2> QED BY <2>3 DEF Stored
<1>3. ASSUME q.op = "read"
      PROVE  Fetched(q, n + 1, driver.buf)
  <2>1. Fetched(q, n, driver.buf) /\ Touched(q, n + 1)
    BY <1>3 DEF CallInv
  <2>2. driver.pc = "poll_end"
    BY <1>3 DEF DriverInv, Busy
  <2>3. sector_lba \in Sector /\ driver.buf[n + 1] = Visible[sector_lba]
    BY <1>3, <2>2 DEF SectorInv
  <2>4. Visible[sector_lba] = before[sector_lba]
    BY <1>3, <2>1, <2>3 DEF Touched
  <2>5. ASSUME NEW i \in 1 .. n + 1
        PROVE  q.lba + i - 1 \in Sector /\ driver.buf[i] = before[q.lba + i - 1]
    <3>1. CASE i = n + 1
      BY <1>1, <2>3, <2>4, <3>1
    <3>2. CASE i # n + 1
      BY <1>1, <2>1, <3>2 DEF Fetched
    <3> QED BY <3>1, <3>2
  <2> QED BY <2>5 DEF Fetched
<1> QED BY <1>2, <1>3

LEMMA NextSectorKeeps ==
  ASSUME AtaInv, Busy, NextSector, ~device.busy, ~device.err,
         \/ driver.pc = "poll_end" /\ driver.request.op = "read"
         \/ driver.pc = "poll_flush",
         UNCHANGED <<ATA, before>>
  PROVE  AtaInv'
<1> USE DEF AtaInv
<1> PICK q, n, b : q = driver.request /\ n = driver.offset /\ b = driver.buf
  OBVIOUS
<1>1. /\ q \in Requests /\ q.op \in {"read", "write"} /\ q.lba \in Nat
      /\ q.count \in Nat /\ n \in Nat /\ driver \in DriverType /\ n < q.count
  BY BusyIs DEF DriverInv
<1>2. device.cmd = "none"
  BY DEF DeviceInv, CommandInv, Commands, Errors
<1>3. UNCHANGED <<device, medium, cache>>
  BY DEF NextSector
<1>4. Visible' = Visible
  BY <1>3 DEF Visible
<1>5. DeviceInv' /\ DiskInv'
  BY <1>3, <1>4 DEF DeviceInv, DiskInv
<1>6. ASSUME NEW m, NEW r, Stored(r, m) PROVE Stored(r, m)'
  BY <1>3, <1>4, <1>6 DEF Stored
<1>7. ASSUME NEW m, NEW r, Touched(r, m) PROVE Touched(r, m)'
  BY <1>4, <1>7 DEF Touched
<1>8. ASSUME NEW m, NEW r, NEW c, Fetched(r, m, c) PROVE Fetched(r, m, c)'
  BY <1>8 DEF Fetched
<1>9. ASSUME InRange(q)
      PROVE  /\ q.op = "write" => Stored(q, n + 1)
             /\ q.op = "read" => Fetched(q, n + 1, b)
             /\ Touched(q, n + 1)
  BY <1>2, <1>9, SectorDone DEF CallInv
<1>10. CASE n + 1 < q.count
  <2>1. driver' = [driver EXCEPT !.pc = "issue", !.attempt = 0, !.offset = @ + 1]
        /\ reply' = reply
    BY <1>10 DEF NextSector
  <2>2. 0 \in 0 .. MaxRetries - 1 /\ driver.offset + 1 \in Nat
    BY <1>1, AtaAssumption
  <2>3. driver' \in DriverType /\ driver'.pc = "issue" /\ driver'.request = q
        /\ driver'.offset = n + 1 /\ driver'.buf = b
    BY <1>1, <2>1, <2>2 DEF DriverType
  <2>4. Busy'
    BY <1>1, <2>3 DEF Busy
  <2>5. DriverInv'
    BY <1>1, <1>10, <2>1, <2>3, <2>4 DEF DriverInv, Errors, Busy
  <2>6. CommandInv'
    BY <1>1, <1>2, <1>3, <2>3, <2>4, <2>5 DEF CommandInv, Commands, Errors, DriverInv
  <2>7. SectorInv'
    BY <2>3 DEF SectorInv
  <2>8. ReplyInv'
    BY <2>1 DEF ReplyInv, DriverInv, NoReply, Busy
  <2>9. CallInv'
    <3>1. Touched(q, n + 1) => Touched(q, n + 1 + 1)
      BY <1>1 DEF Touched
    <3> QED BY <1>6, <1>7, <1>8, <1>9, <2>3, <3>1 DEF CallInv, InRange
  <2> QED BY <1>5, <2>5, <2>6, <2>7, <2>8, <2>9
<1>11. CASE ~(n + 1 < q.count)
  <2>1. driver' = Idle
        /\ reply' = [op |-> q.op, result |-> "Ok", request |-> q,
                     done |-> q.count, buf |-> b]
    BY <1>11 DEF NextSector
  <2>2. n + 1 = q.count
    BY <1>1, <1>11
  <2>3. reply'.op = q.op /\ reply'.result = "Ok" /\ reply'.request = q
        /\ reply'.done = q.count /\ reply'.buf = b /\ driver'.pc = "idle"
    BY <2>1, IdleType
  <2>4. ReplyInv'
    <3>1. InRange(q) => /\ q.op = "write" => Stored(q, q.count)'
                        /\ q.op = "read" => Fetched(q, q.count, b)'
                        /\ Touched(q, q.count)'
      BY <1>6, <1>7, <1>8, <1>9, <2>2
    <3> QED BY <1>1, <2>3, <3>1 DEF ReplyInv, Errors, InRange
  <2>5. ATA' \in BOOLEAN
    BY DEF DriverInv
  <2> QED BY <1>2, <1>3, <1>5, <2>1, <2>4, <2>5, CallEnds
<1> QED BY <1>10, <1>11

LEMMA PollEndKeeps ==
  ASSUME AtaInv, PollEnd
  PROVE  AtaInv'
<1> USE DEF AtaInv
<1>1. driver.pc = "poll_end" /\ before' = before /\ ATA \in BOOLEAN
      /\ (~Found => ATA' = ATA)
  BY DEF PollEnd, DriverInv
<1>2. CASE device.busy
  BY <1>1, <1>2, PollAgainKeeps DEF PollEnd, Found
<1>3. CASE ~device.busy /\ Found
  <2>1. NextSector /\ ATA' = TRUE
    BY <1>3 DEF PollEnd
  <2>2. driver.request = Identify
    BY <1>1, <1>3, AtaAssumption DEF DriverInv, Found
  <2>3. driver.offset = 0 /\ driver.request.count = 1 /\ driver.request.op = "identify"
    BY <1>1, <2>2 DEF DriverInv, Identify
  <2>4. driver' = Idle /\ reply'.op = "identify" /\ UNCHANGED <<device, medium, cache>>
    BY <2>1, <2>3 DEF NextSector
  <2>5. device.cmd = "none"
    BY <1>1, <1>3 DEF CommandInv, DeviceInv, Busy, Found
  <2>6. ReplyInv'
    BY <2>4 DEF ReplyInv
  <2>7. DeviceInv' /\ DiskInv'
    BY <2>4 DEF DeviceInv, DiskInv, Visible
  <2>8. ATA' \in BOOLEAN /\ device'.cmd \in {"none", "RESET"}
    BY <2>1, <2>4, <2>5
  <2> QED BY <2>4, <2>6, <2>7, <2>8, CallEnds
<1>4. CASE ~device.busy /\ ~Found /\ device.err
  BY <1>1, <1>4, FailKeeps DEF PollEnd, Errors
<1>5. CASE ~device.busy /\ ~Found /\ ~device.err /\ driver.request.op = "write"
  <2>1. Busy /\ device.cmd = "none"
    BY <1>1, <1>5 DEF Busy, Found, CommandInv, DeviceInv, Commands, Errors
  <2>2. /\ DriverInv' /\ DiskInv' /\ CallInv' /\ ReplyInv' /\ DeviceInv'
        /\ Visible' = Visible /\ Busy' = Busy /\ sector_lba' = sector_lba
        /\ driver'.pc = "flush" /\ driver'.request = driver.request
        /\ driver'.offset = driver.offset /\ driver'.buf = driver.buf
        /\ UNCHANGED <<device, medium>>
    BY <1>1, <1>5, ProceedIs DEF PollEnd
  <2>3. CommandInv'
    BY <1>1, <1>5, <2>1, <2>2 DEF CommandInv, Commands, Errors
  <2>4. sector_lba \in Sector /\ Visible[sector_lba] = driver.buf[driver.offset + 1]
    BY <1>1, <1>5, <2>1 DEF SectorInv
  <2>5. SectorInv'
    BY <1>5, <2>2, <2>4 DEF SectorInv
  <2> QED BY <2>2, <2>3, <2>5
<1>6. CASE ~device.busy /\ ~Found /\ ~device.err /\ driver.request.op # "write"
  <2>1. Busy
    BY <1>1, <1>6 DEF Busy, Found
  <2>2. driver.request.op = "read"
    BY <1>6, <2>1, BusyIs
  <2> QED BY <1>1, <1>6, <2>1, <2>2, NextSectorKeeps DEF PollEnd
<1> QED BY <1>2, <1>3, <1>4, <1>5, <1>6

LEMMA FlushKeeps ==
  ASSUME AtaInv, Flush
  PROVE  AtaInv'
<1> USE DEF AtaInv
<1>1. /\ driver.pc = "flush" /\ device' = Accept("FLUSH", 0)
      /\ driver' = [driver EXCEPT !.pc = "poll_flush", !.polls = 0]
      /\ UNCHANGED <<ATA, medium, cache, before, reply>>
  BY DEF Flush
<1>2. driver \in DriverType /\ 0 \in 0 .. PollTimeout - 1
      /\ driver.request.op = "write"
  BY <1>1, AtaAssumption DEF DriverInv
<1>3. driver' \in DriverType /\ driver'.pc = "poll_flush"
      /\ driver'.request = driver.request
      /\ driver'.offset = driver.offset /\ driver'.buf = driver.buf
  BY <1>1, <1>2 DEF DriverType
<1>4. /\ DriverInv' /\ DiskInv' /\ CallInv' /\ ReplyInv'
      /\ Visible' = Visible /\ Busy' = Busy /\ sector_lba' = sector_lba
  BY <1>1, <1>2, <1>3, DriverMoves DEF Errors
<1>5. Busy /\ device.cmd = "none" /\ ~device.busy
  BY <1>1, <1>2 DEF Busy, CommandInv, Commands, Errors, DeviceInv
<1>6. device' = [device EXCEPT !.busy = TRUE, !.drq = FALSE, !.err = FALSE,
                               !.cmd = "FLUSH", !.lba = 0]
  BY <1>1, <1>5 DEF Accept
<1>7. device' \in DeviceType /\ device'.busy = TRUE /\ device'.drq = FALSE
      /\ device'.cmd = "FLUSH"
  <2>1. device \in DeviceType /\ 0 \in 0 .. LbaModulus - 1
    BY AtaAssumption DEF DeviceInv
  <2> QED BY <1>6, <2>1 DEF DeviceType
<1>8. DeviceInv'
  BY <1>7 DEF DeviceInv
<1>9. CommandInv'
  BY <1>2, <1>3, <1>4, <1>5, <1>7 DEF CommandInv, Commands, Errors, DriverInv
<1>10. SectorInv'
  BY <1>1, <1>2, <1>3, <1>4, <1>5, <1>7 DEF SectorInv
<1> QED BY <1>4, <1>8, <1>9, <1>10

LEMMA PollFlushKeeps ==
  ASSUME AtaInv, PollFlush
  PROVE  AtaInv'
<1>1. driver.pc = "poll_flush" /\ UNCHANGED <<ATA, before>>
  BY DEF PollFlush
<1>2. CASE device.busy
  BY <1>1, <1>2, PollAgainKeeps DEF PollFlush
<1>3. CASE ~device.busy /\ device.err
  BY <1>1, <1>3, FailKeeps DEF PollFlush, Errors
<1>4. CASE ~device.busy /\ ~device.err
  <2>1. Busy
    BY <1>1 DEF AtaInv, DriverInv, Busy
  <2> QED BY <1>1, <1>4, <2>1, NextSectorKeeps DEF PollFlush
<1> QED BY <1>2, <1>3, <1>4

(* A reset cuts off what the device does; a write that is cut off has      *)
(* changed no sector but the one it was at.                                *)
LEMMA ResetIs ==
  ASSUME AtaInv, software_reset, before' = before
  PROVE  /\ device'.cmd = "RESET" /\ DeviceInv' /\ DiskInv' /\ medium' = medium
         /\ device.cmd # "STORE" => cache' = cache
         /\ \A q, n : /\ Busy /\ q = driver.request /\ n = driver.offset /\ InRange(q)
                      => /\ Touched(q, n + 1)'
                         /\ q.op = "write" => Stored(q, n)'
<1> USE DEF AtaInv
<1>1. /\ device' = [Settled EXCEPT !.busy = TRUE, !.cmd = "RESET"]
      /\ medium' = medium /\ (device.cmd # "STORE" => cache' = cache)
  BY DEF software_reset
<1>2. device' \in DeviceType /\ device'.busy = TRUE /\ device'.drq = FALSE
      /\ device'.cmd = "RESET"
  BY <1>1, SettledIs DEF DeviceType
<1>3. DeviceInv'
  BY <1>2 DEF DeviceInv
<1>4. CASE cache' = cache
  <2>1. Visible' = Visible /\ DiskInv'
    BY <1>1, <1>4 DEF Visible, DiskInv
  <2>2. ASSUME NEW q, NEW n, Busy, q = driver.request, n = driver.offset, InRange(q)
        PROVE  Touched(q, n + 1)' /\ (q.op = "write" => Stored(q, n)')
    <3>1. Touched(q, n + 1) /\ (q.op = "write" => Stored(q, n))
      BY <2>2 DEF CallInv
    <3> QED BY <1>1, <2>1, <3>1 DEF Touched, Stored
  <2> QED BY <1>1, <1>2, <1>3, <2>1, <2>2
<1>5. CASE cache' # cache
  <2>1. device.cmd = "STORE"
        /\ cache' = [s \in DOMAIN cache \cup {device.lba} |->
                       IF s = device.lba THEN device.data ELSE cache[s]]
    BY <1>5 DEF software_reset
  <2>2. /\ DiskInv'
        /\ \A s \in Sector : Visible'[s] = IF s = device.lba THEN device.data
                                                             ELSE Visible[s]
    BY <1>1, <2>1, StoreIs
  <2>3. ASSUME NEW q, NEW n, Busy, q = driver.request, n = driver.offset, InRange(q)
        PROVE  Touched(q, n + 1)' /\ (q.op = "write" => Stored(q, n)')
    BY <1>1, <2>1, <2>2, <2>3, StoreKeeps
  <2> QED BY <1>1, <1>2, <1>3, <2>1, <2>2, <2>3
<1> QED BY <1>4, <1>5

LEMMA RetryKeeps ==
  ASSUME AtaInv, Retry
  PROVE  AtaInv'
<1> USE DEF AtaInv
<1> PICK q, n, b : q = driver.request /\ n = driver.offset /\ b = driver.buf
  OBVIOUS
<1>1. driver.pc \in Errors /\ software_reset /\ UNCHANGED <<ATA, before>>
  BY DEF Retry, Errors
<1>2. Busy
  <2>1. driver.pc \notin {"boot", "idle"}
    BY <1>1 DEF Errors
  <2> QED BY <1>1, <2>1, AtaAssumption DEF DriverInv, Busy
<1>3. /\ q \in Requests /\ q.op \in {"read", "write"} /\ n \in Nat
      /\ driver \in DriverType
  BY <1>2, BusyIs DEF DriverInv
<1>4. /\ device'.cmd = "RESET" /\ DeviceInv' /\ DiskInv' /\ medium' = medium
      /\ InRange(q) => /\ Touched(q, n + 1)'
                       /\ q.op = "write" => Stored(q, n)'
  BY <1>1, <1>2, ResetIs
<1>5. CASE driver.attempt + 1 < MaxRetries
  <2>1. driver' = [driver EXCEPT !.pc = "issue", !.attempt = @ + 1]
        /\ reply' = reply
    BY <1>5 DEF Retry
  <2>2. driver.attempt + 1 \in 0 .. MaxRetries - 1
    BY <1>3, <1>5, AtaAssumption DEF DriverType
  <2>3. driver' \in DriverType /\ driver'.pc = "issue" /\ driver'.request = q
        /\ driver'.offset = n /\ driver'.buf = b
    BY <1>3, <2>1, <2>2 DEF DriverType
  <2>4. Busy'
    BY <1>3, <2>3 DEF Busy
  <2>5. DriverInv'
    BY <1>1, <1>2, <1>3, <2>1, <2>3, <2>4 DEF DriverInv, Errors, Busy
  <2>6. CommandInv'
    BY <1>3, <1>4, <2>3, <2>4, <2>5 DEF CommandInv, Commands, Errors, DriverInv
  <2>7. SectorInv'
    BY <2>3 DEF SectorInv
  <2>8. ReplyInv'
    BY <1>2, <2>1 DEF ReplyInv, DriverInv, NoReply, Busy
  <2>9. CallInv'
    <3>1. InRange(q) /\ q.op = "read" => Fetched(q, n, b)'
      BY <1>1, <1>2 DEF CallInv, Fetched
    <3> QED BY <1>4, <2>3, <3>1 DEF CallInv, InRange
  <2> QED BY <1>4, <2>5, <2>6, <2>7, <2>8, <2>9
<1>6. CASE ~(driver.attempt + 1 < MaxRetries)
  <2>1. driver' = Idle
        /\ reply' = [op |-> q.op, result |-> driver.pc, request |-> q,
                     done |-> n, buf |-> b]
    BY <1>6 DEF Retry, Return
  <2>2. reply'.op = q.op /\ reply'.result \in Errors /\ reply'.request = q
        /\ reply'.done = n /\ driver'.pc = "idle"
    BY <1>1, <2>1, IdleType
  <2>3. reply'.result # "Ok"
    BY <2>2 DEF Errors
  <2>4. ReplyInv'
    BY <1>3, <1>4, <2>2, <2>3 DEF ReplyInv, InRange
  <2>5. ATA' \in BOOLEAN
    BY <1>1 DEF DriverInv
  <2> QED BY <1>4, <2>1, <2>4, <2>5, CallEnds
<1> QED BY <1>5, <1>6

LEMMA BootKeeps ==
  ASSUME AtaInv, Boot
  PROVE  AtaInv'
<1> USE DEF AtaInv
<1>1. /\ driver.pc = "boot" /\ software_reset /\ UNCHANGED <<ATA, before, reply>>
      /\ driver' = [driver EXCEPT !.pc = "issue", !.request = Identify]
  BY DEF Boot, Identify
<1>2. ~ATA /\ driver.offset = 0 /\ reply = NoReply /\ driver \in DriverType
  BY <1>1 DEF DriverInv
<1>3. driver' \in DriverType /\ driver'.pc = "issue" /\ driver'.request = Identify
      /\ driver'.offset = 0
  BY <1>1, <1>2 DEF DriverType
<1>4. device'.cmd = "RESET" /\ DeviceInv' /\ DiskInv'
  BY <1>1, ResetIs
<1>5. ~Busy'
  BY <1>3 DEF Busy, Identify
<1>6. DriverInv'
  BY <1>1, <1>2, <1>3, <1>5 DEF DriverInv, Errors, Identify
<1>7. CommandInv' /\ SectorInv' /\ CallInv'
  BY <1>1, <1>2, <1>3, <1>4, <1>5 DEF CommandInv, SectorInv, CallInv
<1>8. ReplyInv'
  BY <1>1, <1>2 DEF ReplyInv, NoReply
<1> QED BY <1>4, <1>6, <1>7, <1>8

LEMMA CallKeeps ==
  ASSUME AtaInv, NEW q \in Requests, Call(q)
  PROVE  AtaInv'
<1> USE DEF AtaInv
<1> DEFINE refused == IF ATA THEN CheckOf(q) ELSE "DeviceNotFound"
<1>1. driver.pc = "idle" /\ before' = Visible
      /\ UNCHANGED <<ATA, device, medium, cache>>
  BY DEF Call
<1>2. /\ q.op \in {"read", "write"} /\ q.lba \in Nat /\ q.count \in Nat
      /\ q.room \in Nat /\ q.data \in [1 .. q.room -> Value]
  BY AtaAssumption
<1>3. Visible' = Visible
  BY <1>1 DEF Visible
<1>4. DeviceInv' /\ DiskInv'
  BY <1>1, <1>3 DEF DeviceInv, DiskInv
<1>5. ASSUME NEW n PROVE Touched(q, n)'
  BY <1>1, <1>3 DEF Touched
<1>6. ASSUME NEW b PROVE Stored(q, 0)' /\ Fetched(q, 0, b)'
  BY DEF Stored, Fetched
<1>7. CASE refused # "Ok" \/ q.count = 0
  <2>1. reply' = [op |-> q.op, result |-> refused, request |-> q, done |-> 0,
                  buf |-> <<>>] /\ driver' = driver
    BY <1>7 DEF Call
  <2>2. refused \notin Errors
    BY DEF CheckOf, Errors
  <2>3. reply'.op = q.op /\ reply'.result = refused /\ reply'.request = q
        /\ reply'.done = 0
    BY <2>1
  <2> HIDE DEF refused
  <2>4. ReplyInv'
    BY <1>1, <1>2, <1>5, <1>6, <1>7, <2>1, <2>2, <2>3 DEF ReplyInv
  <2>5. ~Busy /\ ~Busy'
    BY <1>1, <2>1 DEF Busy
  <2>6. DriverInv'
    BY <1>1, <2>1, <2>5 DEF DriverInv
  <2>7. CommandInv' /\ SectorInv' /\ CallInv'
    BY <1>1, <2>1, <2>5 DEF CommandInv, SectorInv, CallInv
  <2> QED BY <1>4, <2>4, <2>6, <2>7
<1>8. CASE refused = "Ok" /\ q.count # 0
  <2>1. driver' = [Idle EXCEPT !.pc = "issue", !.request = q, !.buf = q.data]
        /\ reply' = NoReply
    BY <1>8 DEF Call
  <2>2. ATA /\ q.count <= q.room
    BY <1>2, <1>8 DEF CheckOf
  <2>3. q.data \in Seq(Value) /\ Len(q.data) = q.room
    BY <1>2
  <2>4. driver' \in DriverType /\ driver'.pc = "issue" /\ driver'.request = q
        /\ driver'.offset = 0 /\ driver'.buf = q.data
    <3>1. 0 \in 0 .. MaxRetries - 1 /\ 0 \in 0 .. PollTimeout - 1
      BY AtaAssumption
    <3> QED BY <2>1, <2>3, <3>1 DEF Idle, DriverType
  <2>5. Busy' /\ q # Identify
    BY <1>2, <2>4 DEF Busy, Identify
  <2>6. DriverInv'
    BY <1>1, <1>2, <1>8, <2>1, <2>2, <2>3, <2>4, <2>5 DEF DriverInv, Errors
  <2>7. CommandInv'
    BY <1>1, <1>2, <2>2, <2>4, <2>5 DEF CommandInv, Commands, Errors
  <2>8. SectorInv'
    BY <2>4 DEF SectorInv
  <2>9. CallInv'
    BY <1>5, <1>6, <2>4 DEF CallInv
  <2>10. ReplyInv'
    BY <2>1 DEF ReplyInv, NoReply
  <2> QED BY <1>4, <2>6, <2>7, <2>8, <2>9, <2>10
<1> QED BY <1>7, <1>8

LEMMA PowerLossKeeps ==
  ASSUME AtaInv, PowerLoss
  PROVE  AtaInv'
<1>1. /\ ATA' = FALSE /\ driver' = [Idle EXCEPT !.pc = "boot"]
      /\ device' = Settled /\ cache' = Nothing /\ medium' = medium
      /\ reply' = NoReply
  BY DEF PowerLoss
<1>2. DiskInv /\ DiskInv'
  BY <1>1 DEF AtaInv, DiskInv, Nothing
<1>3. DeviceInv' /\ device'.cmd = "none"
  BY <1>1, <1>2, SettledIs DEF DeviceInv
<1>4. driver'.pc = "boot" /\ driver'.offset = 0
  BY <1>1 DEF Idle
<1>5. driver' \in DriverType
  BY <1>1, IdleIs
<1>6. DriverInv' /\ ~Busy'
  BY <1>1, <1>4, <1>5 DEF DriverInv, Busy
<1>7. CommandInv' /\ SectorInv' /\ CallInv'
  BY <1>1, <1>3, <1>4, <1>6 DEF CommandInv, SectorInv, CallInv
<1>8. ReplyInv'
  BY <1>1 DEF ReplyInv, NoReply
<1> QED BY <1>2, <1>3, <1>6, <1>7, <1>8 DEF AtaInv

-----------------------------------------------------------------------------
(* Every step keeps the invariant. *)
LEMMA StepInv == AtaInv /\ [Next]_vars => AtaInv'
<1> SUFFICES ASSUME AtaInv, [Next]_vars PROVE AtaInv'
  OBVIOUS
<1>1. CASE DriverStep
  BY <1>1, BootKeeps, IssueKeeps, PollBsyKeeps, PollDrqKeeps, TransferKeeps,
     PollEndKeeps, FlushKeeps, PollFlushKeeps, RetryKeeps DEF DriverStep
<1>2. ASSUME NEW q \in Requests, Call(q) PROVE AtaInv'
  BY <1>2, CallKeeps
<1>3. CASE DeviceServes \/ DeviceFails \/ Destage
  BY <1>3, DeviceServesKeeps, DeviceFailsKeeps, DestageKeeps
<1>4. CASE PowerLoss
  BY <1>4, PowerLossKeeps
<1>5. CASE UNCHANGED vars
  BY <1>5 DEF vars, AtaInv, DriverInv, DeviceInv, DiskInv, CommandInv, SectorInv,
     CallInv, ReplyInv, Busy, Visible, sector_lba, Stored, Touched, Fetched
<1> QED BY <1>1, <1>2, <1>3, <1>4, <1>5 DEF Next

LEMMA SpecInv == Spec => []AtaInv
BY InitInv, StepInv, PTL DEF Spec

-----------------------------------------------------------------------------
(* The retry and poll counters stay within MAX_RETRIES and POLL_TIMEOUT,   *)
(* and no step of the driver or the device leaves the registers' range.    *)
THEOREM AtaTypeCorrect == Spec => []TypeOK
<1>1. AtaInv => TypeOK
  BY DEF AtaInv, DriverInv, DriverType, DeviceInv, DeviceType, DiskInv, TypeOK, Errors
<1> QED BY <1>1, SpecInv, PTL

(* read_sectors: a read that succeeds returns what the disk held when it   *)
(* was called, after any number of failed attempts, resets and timeouts.   *)
THEOREM ReadsAreCorrect == Spec => []ReadReturnsDisk
<1>1. AtaInv => ReadReturnsDisk
  BY DEF AtaInv, ReplyInv, ReadReturnsDisk, Fetched
<1> QED BY <1>1, SpecInv, PTL

(* write_sectors: a write that succeeds has reached the medium, behind the *)
(* device's cache, in every sector.                                        *)
THEOREM WritesAreDurable == Spec => []WriteIsDurable
<1>1. AtaInv => WriteIsDurable
  BY DEF AtaInv, ReplyInv, WriteIsDurable, Stored
<1> QED BY <1>1, SpecInv, PTL

(* A write that gives up leaves a prefix on the medium, at most one sector *)
(* in doubt, and the rest of the disk as it was; a read and a call that is *)
(* refused change nothing.                                                 *)
THEOREM FailuresArePrefixes == Spec => []FailureIsPrefix
<1>1. AtaInv => FailureIsPrefix
  <2> SUFFICES ASSUME AtaInv, reply.op \notin {"none", "identify"},
                      InRange(reply.request)
               PROVE  LET q == reply.request
                          written == IF q.op = "write" THEN q.lba .. q.lba + reply.done - 1
                                                       ELSE {}
                          unsure == IF q.op = "write" /\ reply.result \in Errors
                                      THEN {q.lba + reply.done} ELSE {}
                      IN  /\ \A s \in written : medium[s] = q.data[s - q.lba + 1]
                          /\ \A s \in Sector \ (written \cup unsure) :
                               Visible[s] = before[s]
    BY DEF FailureIsPrefix, Errors
  <2> DEFINE q == reply.request
             n == reply.done
  <2>1. q \in Requests /\ q.lba \in Nat /\ n \in Nat /\ reply.op = q.op
    BY AtaAssumption DEF AtaInv, ReplyInv
  <2>2. /\ q.op = "write" => Stored(q, n)
        /\ Touched(q, IF reply.result \in Errors THEN n + 1 ELSE n)
    BY <2>1 DEF AtaInv, ReplyInv
  <2>3. ASSUME q.op = "write", NEW s \in q.lba .. q.lba + n - 1
        PROVE  medium[s] = q.data[s - q.lba + 1]
    <3>1. s - q.lba + 1 \in 1 .. n /\ q.lba + (s - q.lba + 1) - 1 = s
      BY <2>1
    <3>2. ASSUME NEW i \in 1 .. n PROVE medium[q.lba + i - 1] = q.data[i]
      BY <2>2, <2>3 DEF Stored
    <3>3. medium[q.lba + (s - q.lba + 1) - 1] = q.data[s - q.lba + 1]
      BY <3>1, <3>2
    <3> QED BY <3>1, <3>3
  <2>4. ASSUME NEW s \in Sector, Visible[s] # before[s]
        PROVE  /\ q.op = "write"
               /\ \/ s \in q.lba .. q.lba + n - 1
                  \/ reply.result \in Errors /\ s = q.lba + n
    <3>1. s \in Nat
      BY AtaAssumption DEF Sector
    <3> QED BY <2>1, <2>2, <2>4, <3>1 DEF Touched
  <2> QED BY <2>3, <2>4
<1> QED BY <1>1, SpecInv, PTL

==============================================================================
