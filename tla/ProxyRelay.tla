----------------------------- MODULE ProxyRelay -----------------------------
(***************************************************************************)
(* The relay of one CONNECT tunnel (porta-server/src/proxy/service.rs:     *)
(* relay_tunnel, copy_upload, copy_download, Activity): two copiers in one *)
(* task, a buffer of downloaded bytes that is written when it is full or   *)
(* its time has come, the count of usage, and the timer that ends a tunnel *)
(* nothing moves through.                                                  *)
(*                                                                         *)
(* A stream is known by how many of its bytes have gone how far.  A write  *)
(* takes what the other side's window has room for, and waits for more.    *)
(* Timers count down in ticks; one that is due fires before the next tick. *)
(***************************************************************************)
EXTENDS Integers

CONSTANTS ClientBytes, ServerBytes,  \* bound: what either side sends
          ReadSize,                  \* COPY_BUFFER_SIZE
          BufferSize,                \* RESPONSE_BUFFER_SIZE
          Window,                    \* what a side accepts before it reads
          FlushInterval, IdleTimeout, PollInterval,
          NoDeadline

ASSUME RelayAssumption ==
  /\ {ClientBytes, ServerBytes, ReadSize, Window, FlushInterval, IdleTimeout, PollInterval} \subseteq Nat
  /\ BufferSize \in Nat \ {0} /\ NoDeadline \notin Nat

VARIABLES up,      \* copy_upload and the stream from the client to the destination
          down,    \* copy_download and the stream from the destination to the client
          usage,   \* bytes counted for the account
          silent,  \* ticks since Activity.last_millis
          poll,    \* ticks until wait_until_idle looks again
          ended    \* how the relay ended

relay_vars == <<up, down, usage, silent, poll, ended>>
----------------------------------------------------------------------------
(* sent: bytes the sender has sent; closed: it has ended its stream; read:  *)
(* bytes the copier has read; out: bytes it has written; taken: bytes the   *)
(* receiver has read.  Of the download, pending bytes are in the buffer,    *)
(* and carry is the part of the last read that did not fit.                 *)
RelayInit ==
  /\ up = [sent |-> 0, closed |-> FALSE, read |-> 0, out |-> 0, taken |-> 0, pc |-> "read"]
  /\ down = [sent |-> 0, closed |-> FALSE, read |-> 0, out |-> 0, taken |-> 0, pc |-> "read",
             pending |-> 0, carry |-> 0, deadline |-> NoDeadline]
  /\ usage = [uploaded |-> 0, downloaded |-> 0]
  /\ silent = 0 /\ poll = PollInterval /\ ended = "no"

Smaller(a, b) == IF a < b THEN a ELSE b
Running == ended = "no"
Available(s) == 1..Smaller(ReadSize, s.sent - s.read)
Room(s) == Window - (s.out - s.taken)
AtEnd(s) == s.closed /\ s.read = s.sent
record == silent' = 0
----------------------------------------------------------------------------
(* copy_upload: what was read is written before more is read. *)
UploadRead ==
  /\ Running /\ up.pc = "read"
  /\ \E n \in Available(up) : up' = [up EXCEPT !.read = @ + n, !.pc = "write"]
  /\ record
  /\ UNCHANGED <<down, usage, poll, ended>>

UploadEnds ==
  /\ Running /\ up.pc = "read" /\ AtEnd(up)
  /\ up' = [up EXCEPT !.pc = "done"]
  /\ UNCHANGED <<down, usage, silent, poll, ended>>

(* write_metered: each part that is accepted is counted. *)
UploadWrite ==
  /\ Running /\ up.pc = "write"
  /\ \E k \in 1..Smaller(Room(up), up.read - up.out) :
       /\ up' = [up EXCEPT !.out = @ + k, !.pc = IF up.out + k = up.read THEN "read" ELSE "write"]
       /\ usage' = [usage EXCEPT !.uploaded = @ + k]
  /\ record
  /\ UNCHANGED <<down, poll, ended>>
----------------------------------------------------------------------------
(* A mutant: the deadline is set by the first read only. *)
AbsorbLate(d, n) ==
  LET take == Smaller(BufferSize - d.pending, n) IN
  [d EXCEPT !.pending = @ + take, !.carry = n - take,
            !.deadline = IF d.read = n THEN FlushInterval ELSE @,
            !.pc = IF d.pending + take = BufferSize THEN "full" ELSE "read"]

(* copy_download: the buffer takes n bytes, or as many as fit and is full.  *)
(* Its time begins with its first byte.                                     *)
Absorb(d, n) ==
  LET take == Smaller(BufferSize - d.pending, n) IN
  [d EXCEPT !.pending = @ + take, !.carry = n - take,
            !.deadline = IF d.pending = 0 THEN FlushInterval ELSE @,
            !.pc = IF d.pending + take = BufferSize THEN "full" ELSE "read"]

DownloadRead ==
  /\ Running /\ down.pc = "read"
  /\ \E n \in Available(down) :
       /\ down' = Absorb([down EXCEPT !.read = @ + n], n)
       /\ usage' = [usage EXCEPT !.downloaded = @ + n]
  /\ record
  /\ UNCHANGED <<up, poll, ended>>

FlushDue ==
  /\ Running /\ down.pc = "read" /\ down.deadline = 0
  /\ down' = [down EXCEPT !.pc = "due"]
  /\ UNCHANGED <<up, usage, silent, poll, ended>>

DownloadEnds ==
  /\ Running /\ down.pc = "read" /\ AtEnd(down)
  /\ down' = [down EXCEPT !.pc = IF down.pending > 0 THEN "last" ELSE "done"]
  /\ UNCHANGED <<up, usage, silent, poll, ended>>

(* flush_pending: written to the last byte; then the rest of the read is    *)
(* absorbed, or the next read is made, or the stream ended.                 *)
Flushed(d) ==
  LET e == [d EXCEPT !.deadline = NoDeadline] IN
  CASE d.pc = "last" -> [d EXCEPT !.pc = "done"]
    [] d.pc = "full" /\ d.carry > 0 -> Absorb(e, d.carry)
    [] OTHER -> [e EXCEPT !.pc = "read"]

FlushPending ==
  /\ Running /\ down.pc \in {"full", "due", "last"}
  /\ \E k \in 1..Smaller(Room(down), down.pending) :
       LET d == [down EXCEPT !.out = @ + k, !.pending = @ - k] IN
       /\ down' = IF d.pending = 0 THEN Flushed(d) ELSE d
       /\ IF d.pending = 0 /\ d.pc = "full" THEN record ELSE UNCHANGED silent
  /\ UNCHANGED <<up, usage, poll, ended>>
----------------------------------------------------------------------------
(* relay_tunnel: the transfers are over when both streams are; one error,   *)
(* the cancellation of the session or an idle tunnel ends both.             *)
Completes ==
  /\ Running /\ up.pc = "done" /\ down.pc = "done"
  /\ ended' = "completed"
  /\ UNCHANGED <<up, down, usage, silent, poll>>

Breaks ==
  /\ Running
  /\ ended' \in {"error", "cancelled"}
  /\ UNCHANGED <<up, down, usage, silent, poll>>

(* A mutant: to look at the timer starts it anew. *)
LooksAndRecords ==
  /\ Running /\ poll = 0
  /\ IF silent >= IdleTimeout THEN ended' = "idle" /\ UNCHANGED <<poll, silent>>
     ELSE poll' = PollInterval /\ record /\ UNCHANGED ended
  /\ UNCHANGED <<up, down, usage>>

wait_until_idle ==
  /\ Running /\ poll = 0
  /\ IF silent >= IdleTimeout THEN ended' = "idle" /\ UNCHANGED poll
     ELSE poll' = PollInterval /\ UNCHANGED ended
  /\ UNCHANGED <<up, down, usage, silent>>
----------------------------------------------------------------------------
(* The two ends, which may do as they please. *)
ClientSends ==
  /\ Running /\ ~up.closed
  /\ \/ up.sent < ClientBytes /\ up' = [up EXCEPT !.sent = @ + 1]
     \/ up' = [up EXCEPT !.closed = TRUE]
  /\ UNCHANGED <<down, usage, silent, poll, ended>>

ServerSends ==
  /\ Running /\ ~down.closed
  /\ \/ down.sent < ServerBytes /\ down' = [down EXCEPT !.sent = @ + 1]
     \/ down' = [down EXCEPT !.closed = TRUE]
  /\ UNCHANGED <<up, usage, silent, poll, ended>>

ServerReads ==
  /\ up.taken < up.out /\ up' = [up EXCEPT !.taken = @ + 1]
  /\ UNCHANGED <<down, usage, silent, poll, ended>>

ClientReads ==
  /\ down.taken < down.out /\ down' = [down EXCEPT !.taken = @ + 1]
  /\ UNCHANGED <<up, usage, silent, poll, ended>>

RelayTick ==
  /\ Running /\ poll # 0 /\ ~(down.pc = "read" /\ down.deadline = 0)
  /\ poll' = poll - 1 /\ silent' = Smaller(silent + 1, IdleTimeout)
  /\ down' = [down EXCEPT !.deadline = IF @ \in {NoDeadline, 0} THEN @ ELSE @ - 1]
  /\ UNCHANGED <<up, usage, ended>>

Upload == UploadRead \/ UploadEnds \/ UploadWrite
Download == DownloadRead \/ FlushDue \/ DownloadEnds \/ FlushPending

RelayNext == Upload \/ Download \/ Completes \/ Breaks \/ wait_until_idle
        \/ ClientSends \/ ServerSends \/ ServerReads \/ ClientReads \/ RelayTick

RelaySpec == RelayInit /\ [][RelayNext]_relay_vars

(* The task runs and the clock goes on; neither end has to do anything. *)
RelayTask(t) ==
  \/ t = "upload" /\ Upload
  \/ t = "download" /\ Download
  \/ t = "completes" /\ Completes
  \/ t = "idle" /\ wait_until_idle
  \/ t = "clock" /\ RelayTick

RelayTasks == {"upload", "download", "completes", "idle", "clock"}

RelayFairSpec == RelaySpec /\ \A t \in RelayTasks : WF_relay_vars(RelayTask(t))
----------------------------------------------------------------------------
(* The types of the variables. *)
RelayTypes ==
  /\ up \in [sent : Nat, closed : BOOLEAN, read : Nat, out : Nat, taken : Nat,
             pc : {"read", "write", "done"}]
  /\ down \in [sent : Nat, closed : BOOLEAN, read : Nat, out : Nat, taken : Nat,
               pc : {"read", "full", "due", "last", "done"},
               pending : Nat, carry : Nat, deadline : Nat \cup {NoDeadline}]
  /\ usage \in [uploaded : Nat, downloaded : Nat]
  /\ silent \in 0..IdleTimeout /\ poll \in 0..PollInterval
  /\ ended \in {"no", "completed", "error", "cancelled", "idle"}

(* However the streams are cut into reads and writes, no byte is lost or    *)
(* written twice, in either direction; bytes do not stay in the buffer      *)
(* without a deadline while the copier waits for more; the account is       *)
(* charged for what the destination accepted and for what it sent; and a    *)
(* relay that completes has carried both streams to their end, also when    *)
(* one of them ended long before the other.                                 *)
RelayIsExact ==
  /\ RelayTypes
  /\ up.taken <= up.out /\ up.out <= up.read /\ up.read <= up.sent
  /\ down.taken <= down.out /\ down.out + down.pending + down.carry = down.read /\ down.read <= down.sent
  /\ down.pending <= BufferSize
  /\ down.pc = "read" => down.carry = 0 /\ (down.pending > 0 <=> down.deadline # NoDeadline)
  /\ usage = [uploaded |-> up.out, downloaded |-> down.read]
  /\ ended = "completed" => /\ up.closed /\ up.out = up.sent
                            /\ down.closed /\ down.out = down.sent

(* What must come true: a relay whose ends neither send, nor read, nor      *)
(* close is over in the end; a write that waits for a window does not keep  *)
(* it.                                                                      *)
Over == ended # "no"
============================================================================
