-------------------------------- MODULE Ata ---------------------------------
(***************************************************************************)
(* The ATA driver of kernel/src/drivers/ata/mod.rs under the block layer   *)
(* (kernel/src/block/ata.rs): detection, read_sectors and write_sectors    *)
(* with their polling loops, attempts and software resets, against a       *)
(* device that works at its own speed, may fail a command, may never       *)
(* answer, and keeps written sectors in a volatile cache until FLUSH.      *)
(*                                                                         *)
(* One step for each command issued, each poll of the status register,     *)
(* each transfer of a sector and each reset.  A device that is not busy    *)
(* does nothing by itself, so the status checks behind poll_not_busy are   *)
(* part of the step in which it is found ready.  The device is the primary *)
(* master; the other three positions are handled by the same code.  It     *)
(* raises BSY before the driver can read the status that follows a         *)
(* command, and ignores commands while it is busy.                         *)
(***************************************************************************)
EXTENDS Integers, FiniteSets, Sequences

CONSTANTS
  Capacity,     \* sectors of the device
  LbaModulus,   \* 2^28: the bits of a sector number that the registers hold
  U32Modulus,   \* 2^32
  Value,        \* contents of a sector
  MaxRetries,   \* MAX_RETRIES
  PollTimeout,  \* POLL_TIMEOUT
  Requests      \* calls made: [op, lba, count, data, room], room in sectors

ASSUME AtaAssumption ==
  /\ LbaModulus \in Nat \ {0} /\ U32Modulus \in Nat
  /\ Capacity \in 1 .. LbaModulus /\ LbaModulus <= U32Modulus
  /\ MaxRetries \in Nat \ {0} /\ PollTimeout \in Nat \ {0}
  /\ \A q \in Requests :
       /\ q.op \in {"read", "write"} /\ q.lba \in 0 .. U32Modulus - 1
       /\ q.count \in Nat /\ q.room \in Nat /\ q.data \in [1 .. q.room -> Value]

VARIABLES
  ATA,       \* whether the static ATA holds a driver
  driver,    \* the call in progress: where it is, its counters and buffer
  device,    \* its status bits, command and registers
  medium,    \* what each sector holds
  cache,     \* written sectors that are not on the medium yet
  before,    \* history: what reads gave when the call began
  reply      \* history: the last call that returned

vars == <<ATA, driver, device, medium, cache, before, reply>>

Sector == 0 .. Capacity - 1

NoReply == [op |-> "none", result |-> "Ok"]

Nothing == [s \in {} |-> s]

(* What a read of each sector gives. *)
Visible == [s \in Sector |-> IF s \in DOMAIN cache THEN cache[s] ELSE medium[s]]

-----------------------------------------------------------------------------
(***************************************************************************)
(* The device.                                                             *)
(***************************************************************************)
Settled == [busy |-> FALSE, drq |-> FALSE, err |-> FALSE, cmd |-> "none",
            lba |-> 0, data |-> CHOOSE v \in Value : TRUE]

(* The command register is written. *)
Accept(cmd, lba) ==
  IF device.busy THEN device
  ELSE [device EXCEPT !.busy = TRUE, !.drq = FALSE, !.err = FALSE,
                      !.cmd = cmd, !.lba = lba]

(* Stages of a command: before its data, and, of a write, behind it. *)
DeviceServes ==
  /\ device.busy
  /\ CASE device.cmd = "IDENTIFY" ->
            device' = [device EXCEPT !.busy = FALSE, !.drq = TRUE]
            /\ UNCHANGED <<medium, cache>>
       [] device.cmd = "READ" ->
            /\ device.lba \in Sector
            /\ device' = [device EXCEPT !.busy = FALSE, !.drq = TRUE,
                                        !.data = Visible[device.lba]]
            /\ UNCHANGED <<medium, cache>>
       [] device.cmd = "WRITE" ->
            /\ device.lba \in Sector
            /\ device' = [device EXCEPT !.busy = FALSE, !.drq = TRUE]
            /\ UNCHANGED <<medium, cache>>
       [] device.cmd = "STORE" ->
            /\ device' = Settled
            /\ cache' = [s \in DOMAIN cache \cup {device.lba} |->
                           IF s = device.lba THEN device.data ELSE cache[s]]
            /\ UNCHANGED medium
       [] device.cmd = "FLUSH" ->
            /\ device' = Settled
            /\ medium' = Visible /\ cache' = Nothing
       [] OTHER -> device' = Settled /\ UNCHANGED <<medium, cache>>
  /\ UNCHANGED <<ATA, driver, before, reply>>

(* A sector of the cache is put on the medium; so a command that fails, or *)
(* that is cut off, may have done its work in part.                        *)
Destage ==
  \E s \in DOMAIN cache :
    /\ medium' = [medium EXCEPT ![s] = cache[s]]
    /\ cache' = [t \in DOMAIN cache \ {s} |-> cache[t]]
    /\ UNCHANGED <<ATA, driver, device, before, reply>>

DeviceFails ==
  /\ device.busy /\ device.cmd \notin {"none", "RESET"}
  /\ device' = [Settled EXCEPT !.err = TRUE]
  /\ UNCHANGED <<ATA, driver, medium, cache, before, reply>>

(* A write that is cut off by a reset has stored its sector or has not. *)
software_reset ==
  /\ device' = [Settled EXCEPT !.busy = TRUE, !.cmd = "RESET"]
  /\ \/ UNCHANGED cache
     \/ /\ device.cmd = "STORE"
        /\ cache' = [s \in DOMAIN cache \cup {device.lba} |->
                       IF s = device.lba THEN device.data ELSE cache[s]]
  /\ UNCHANGED medium

-----------------------------------------------------------------------------
(***************************************************************************)
(* The driver.                                                             *)
(***************************************************************************)
Idle == [pc |-> "idle", request |-> NoReply, offset |-> 0, attempt |-> 0,
         polls |-> 0, buf |-> <<>>]

Init == /\ ATA = FALSE /\ driver = [Idle EXCEPT !.pc = "boot"]
        /\ device = Settled
        /\ medium \in [Sector -> Value] /\ cache = Nothing
        /\ before = medium /\ reply = NoReply

Return(result) ==
  /\ driver' = Idle
  /\ reply' = [op |-> driver.request.op, result |-> result,
               request |-> driver.request, done |-> driver.offset,
               buf |-> driver.buf]

(* init_ata_driver: reset, then probe; no driver is kept without a device. *)
Boot ==
  /\ driver.pc = "boot"
  /\ software_reset
  /\ driver' = [driver EXCEPT !.pc = "issue", !.request =
                  [op |-> "identify", lba |-> 0, count |-> 1]]
  /\ UNCHANGED <<ATA, before, reply>>

(* The checks at the head of read_sectors and write_sectors. *)
CheckOf(q) ==
  CASE q.room < q.count -> "BufferTooSmall"
    [] q.count > 0 /\ q.lba + q.count - 1 >= U32Modulus -> "InvalidParam"
    [] OTHER -> "Ok"

(* read_sector, write_sector and the disk command. *)
Call(q) ==
  /\ driver.pc = "idle"
  /\ LET refused == IF ATA THEN CheckOf(q) ELSE "DeviceNotFound"
     IN  IF refused # "Ok" \/ q.count = 0
           THEN /\ reply' = [op |-> q.op, result |-> refused, request |-> q,
                             done |-> 0, buf |-> <<>>]
                /\ UNCHANGED driver
           ELSE /\ driver' = [Idle EXCEPT !.pc = "issue", !.request = q,
                                          !.buf = q.data]
                /\ reply' = NoReply
  /\ before' = Visible
  /\ UNCHANGED <<ATA, device, medium, cache>>

(* The bits of the sector number that reach the registers. *)
sector_lba == (driver.request.lba + driver.offset) % LbaModulus

CommandOf(op) ==
  CASE op = "identify" -> "IDENTIFY" [] op = "read" -> "READ"
    [] op = "write" -> "WRITE"

Issue ==
  /\ driver.pc = "issue"
  /\ device' = Accept(CommandOf(driver.request.op), sector_lba)
  /\ driver' = [driver EXCEPT !.polls = 0,
                  !.pc = IF driver.request.op = "identify" THEN "poll_bsy"
                                                           ELSE "poll_drq"]
  /\ UNCHANGED <<ATA, medium, cache, before, reply>>

(* An attempt has failed.  A probe that fails finds no device. *)
Fail(error) ==
  IF driver.request.op = "identify"
    THEN Return("DeviceNotFound") /\ UNCHANGED <<device, medium, cache>>
    ELSE /\ driver' = [driver EXCEPT !.pc = error]
         /\ UNCHANGED <<device, medium, cache, reply>>

(* Mutant: the loop does not count. *)
PollAgain_forever == UNCHANGED <<driver, device, medium, cache, reply>>

(* Mutant: one turn too many. *)
PollAgain_late ==
  IF driver.polls < PollTimeout
    THEN /\ driver' = [driver EXCEPT !.polls = @ + 1]
         /\ UNCHANGED <<device, medium, cache, reply>>
    ELSE Fail("Timeout")

(* One more turn of a polling loop, or its end. *)
PollAgain ==
  IF driver.polls + 1 < PollTimeout
    THEN /\ driver' = [driver EXCEPT !.polls = @ + 1]
         /\ UNCHANGED <<device, medium, cache, reply>>
    ELSE Fail("Timeout")

Proceed(pc) == /\ driver' = [driver EXCEPT !.pc = pc, !.polls = 0]
               /\ UNCHANGED <<device, medium, cache, reply>>

poll_bsy ==
  /\ driver.pc = "poll_bsy"
  /\ IF device.busy THEN PollAgain ELSE Proceed("poll_drq")
  /\ UNCHANGED <<ATA, before>>

poll_drq ==
  /\ driver.pc = "poll_drq"
  /\ IF ~device.busy /\ device.drq THEN Proceed("transfer")
     ELSE IF device.err THEN Fail("IoError")
     ELSE PollAgain
  /\ UNCHANGED <<ATA, before>>

(* The 256 words of a sector, to the device or from it. *)
Transfer ==
  /\ driver.pc = "transfer"
  /\ driver' = [driver EXCEPT !.pc = "poll_end", !.polls = 0,
                  !.buf = IF driver.request.op = "read"
                            THEN [@ EXCEPT ![driver.offset + 1] = device.data]
                            ELSE @]
  /\ device' = IF driver.request.op = "write"
                 THEN [device EXCEPT !.busy = TRUE, !.drq = FALSE,
                         !.cmd = "STORE",
                         !.data = driver.buf[driver.offset + 1]]
                 ELSE [device EXCEPT !.busy = TRUE, !.drq = FALSE,
                                     !.cmd = "END"]
  /\ UNCHANGED <<ATA, medium, cache, before, reply>>

(* A sector is done: the next one, or the end of the call. *)
NextSector ==
  /\ IF driver.offset + 1 < driver.request.count
       THEN /\ driver' = [driver EXCEPT !.pc = "issue", !.attempt = 0,
                                        !.offset = @ + 1]
            /\ UNCHANGED reply
       ELSE /\ driver' = Idle
            /\ reply' = [op |-> driver.request.op, result |-> "Ok",
                         request |-> driver.request,
                         done |-> driver.request.count, buf |-> driver.buf]
  /\ UNCHANGED <<device, medium, cache>>

(* probe_device has read the identification. *)
Found == driver.request.op = "identify" /\ ~device.busy

(* poll_not_busy behind the data, and the check of the status. *)
PollEnd ==
  /\ driver.pc = "poll_end"
  /\ IF device.busy THEN PollAgain
     ELSE IF Found THEN NextSector
     ELSE IF device.err THEN Fail("IoError")
     ELSE IF driver.request.op = "write" THEN Proceed("flush")
     ELSE NextSector
  /\ ATA' = (ATA \/ Found)
  /\ UNCHANGED before

Flush ==
  /\ driver.pc = "flush"
  /\ device' = Accept("FLUSH", 0)
  /\ driver' = [driver EXCEPT !.pc = "poll_flush", !.polls = 0]
  /\ UNCHANGED <<ATA, medium, cache, before, reply>>

(* Mutant: the status behind the flush is not looked at. *)
PollFlush_unchecked ==
  /\ driver.pc = "poll_flush"
  /\ IF device.busy THEN PollAgain ELSE NextSector
  /\ UNCHANGED <<ATA, before>>

PollFlush ==
  /\ driver.pc = "poll_flush"
  /\ IF device.busy THEN PollAgain
     ELSE IF device.err THEN Fail("IoError")
     ELSE NextSector
  /\ UNCHANGED <<ATA, before>>

(* Mutant: the channel is not reset after a failed attempt. *)
Retry_unreset ==
  /\ driver.pc \in {"IoError", "Timeout"}
  /\ UNCHANGED <<device, cache, medium>>
  /\ IF driver.attempt + 1 < MaxRetries
       THEN driver' = [driver EXCEPT !.pc = "issue", !.attempt = @ + 1]
            /\ UNCHANGED reply
       ELSE Return(driver.pc)
  /\ UNCHANGED <<ATA, before>>

(* Mutant: a sector that cannot be written is skipped. *)
Retry_skipping ==
  /\ driver.pc \in {"IoError", "Timeout"}
  /\ software_reset
  /\ IF driver.attempt + 1 < MaxRetries
       THEN driver' = [driver EXCEPT !.pc = "issue", !.attempt = @ + 1]
            /\ UNCHANGED reply
     ELSE IF driver.offset + 1 < driver.request.count
       THEN driver' = [driver EXCEPT !.pc = "issue", !.attempt = 0,
                                     !.offset = @ + 1] /\ UNCHANGED reply
       ELSE Return(driver.pc)
  /\ UNCHANGED <<ATA, before>>

(* The channel is reset, and the attempt repeated or given up. *)
Retry ==
  /\ driver.pc \in {"IoError", "Timeout"}
  /\ software_reset
  /\ IF driver.attempt + 1 < MaxRetries
       THEN driver' = [driver EXCEPT !.pc = "issue", !.attempt = @ + 1]
            /\ UNCHANGED reply
       ELSE Return(driver.pc)
  /\ UNCHANGED <<ATA, before>>

(* The machine loses power and starts again; the cache is lost. *)
PowerLoss ==
  /\ ATA' = FALSE /\ driver' = [Idle EXCEPT !.pc = "boot"]
  /\ device' = Settled /\ cache' = Nothing /\ UNCHANGED medium
  /\ before' = medium /\ reply' = NoReply

DriverStep == \/ Boot \/ Issue \/ poll_bsy \/ poll_drq \/ Transfer
              \/ PollEnd \/ Flush \/ PollFlush \/ Retry

Next == \/ DriverStep
        \/ \E q \in Requests : Call(q)
        \/ DeviceServes \/ DeviceFails \/ Destage
        \/ PowerLoss

(* The processor executes the driver; the device owes nothing. *)
Spec == Init /\ [][Next]_vars /\ WF_vars(DriverStep)

-----------------------------------------------------------------------------
(* The driver's counters stay within their loops and its buffer, the       *)
(* device's registers and the disk have their types.                       *)
TypeOK ==
  /\ ATA \in BOOLEAN
  /\ driver.pc \in {"boot", "idle", "issue", "poll_bsy", "poll_drq", "transfer",
                    "poll_end", "flush", "poll_flush", "IoError", "Timeout"}
  /\ driver.attempt \in 0 .. MaxRetries - 1
  /\ driver.polls \in 0 .. PollTimeout - 1
  /\ driver.offset \in Nat /\ driver.buf \in Seq(Value)
  /\ device.busy \in BOOLEAN /\ device.drq \in BOOLEAN /\ device.err \in BOOLEAN
  /\ device.lba \in 0 .. LbaModulus - 1 /\ device.data \in Value
  /\ medium \in [Sector -> Value]
  /\ DOMAIN cache \subseteq Sector /\ \A s \in DOMAIN cache : cache[s] \in Value

InRange(q) == q.lba + q.count <= LbaModulus

(* A read that succeeds (mod.rs:326) has put into the buffer what the disk *)
(* held when it was called, sector by sector, whatever attempts of this or *)
(* an earlier call were given up while the device was still at work.       *)
ReadReturnsDisk ==
  reply.op = "read" /\ reply.result = "Ok" /\ InRange(reply.request) =>
    \A i \in 1 .. reply.request.count :
      reply.buf[i] = before[reply.request.lba + i - 1]

(* A write that succeeds (mod.rs:422) is on the medium, not only in the    *)
(* cache of the device: a loss of power does not undo it.                  *)
WriteIsDurable ==
  reply.op = "write" /\ reply.result = "Ok" /\ InRange(reply.request) =>
    \A i \in 1 .. reply.request.count :
      medium[reply.request.lba + i - 1] = reply.request.data[i]

(* A write that fails (mod.rs:427) has written the sectors before the one  *)
(* it failed at, for good, and has touched none behind it and no other;    *)
(* no other call changes the disk.                                         *)
FailureIsPrefix ==
  reply.op # "none" /\ reply.op # "identify" =>
    LET q == reply.request
        written == IF q.op = "write" THEN q.lba .. q.lba + reply.done - 1 ELSE {}
        unsure  == IF q.op = "write" /\ reply.result \in {"IoError", "Timeout"}
                     THEN {q.lba + reply.done} ELSE {}
    IN  InRange(q) =>
          /\ \A s \in written : medium[s] = q.data[s - q.lba + 1]
          /\ \A s \in Sector \ (written \cup unsure) : Visible[s] = before[s]

(* Every call ends, whatever the device does: the loops are bounded        *)
(* (mod.rs:149, 159, 172, 279).                                            *)
CallsEnd == driver.pc \notin {"idle", "boot"} ~> driver.pc \in {"idle", "boot"}

=============================================================================
