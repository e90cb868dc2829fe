----------------------------- MODULE Accounting -----------------------------
(***************************************************************************)
(* What one synchroniser pass computes for one vpn_users row from one line *)
(* of "wg show <iface> dump" (internal/wireguard/syncer.go, syncOnce): the *)
(* usage totals across resets of the kernel's counters, the remaining days *)
(* and traffic, and whether the user stays enabled.                        *)
(*                                                                         *)
(* Columns that no decision here reads (endpoint, last_handshake,          *)
(* connected_at, the rates) are left out, as are the two directions of the *)
(* prev_* columns, which every UPDATE sets equal to bytes_*.               *)
(***************************************************************************)
EXTENDS Integers

CONSTANT NULL       \* SQL NULL in a nullable column

ASSUME NullAssumption == NULL \notin Int

\* A byte counter in the two directions of a peer, as the kernel counts it.
Counter    == [rx : Nat, tx : Nat]
Zero       == [rx |-> 0, tx |-> 0]
Plus(a, b) == [rx |-> a.rx + b.rx, tx |-> a.tx + b.tx]
Leq(a, b)  == a.rx <= b.rx /\ a.tx <= b.tx

(***************************************************************************)
(* The accounting columns of a row.  quota is remaining_traffic_bytes, days*)
(* remaining_days, ldc last_day_check in hours ("" is not a parsable time  *)
(* and acts like NULL), en is_enabled.                                     *)
(***************************************************************************)
Row == [bytes : Counter, total : Counter, quota : Nat \cup {NULL},
        days : Nat \cup {NULL}, ldc : Nat \cup {NULL}, en : BOOLEAN]

AtLeastZero(n) == IF n < 0 THEN 0 ELSE n

\* A plausible slip: a reset is assumed only when both directions went back.
NewTotalBothLower(row, p) ==
  IF p.rx < row.bytes.rx /\ p.tx < row.bytes.tx THEN Plus(row.total, row.bytes)
  ELSE row.total

\* A plausible slip: the new counter is banked in place of the lost one.
NewTotalBanksNew(row, p) ==
  IF Leq(row.bytes, p) THEN row.total ELSE Plus(row.total, p)

\* A counter that went back in either direction was reset: bank the old one.
NewTotal(row, p) ==
  IF p.rx < row.bytes.rx \/ p.tx < row.bytes.tx THEN Plus(row.total, row.bytes)
  ELSE row.total

\* Recorded usage: everything banked plus the current counter.
Usage(total, bytes) == total.rx + total.tx + bytes.rx + bytes.tx

UsageInc(row, p) == Usage(NewTotal(row, p), p) - Usage(row.total, row.bytes)

DayHours == 24

\* Whole days since last_day_check; none when it was never set.
DaysSince(row, t) == IF row.ldc = NULL THEN 0 ELSE (t - row.ldc) \div DayHours

NewDays(row, t) ==
  IF row.days = NULL THEN NULL ELSE AtLeastZero(row.days - DaysSince(row, t))

\* A plausible slip: the date of the last charge is not moved forward.
NewLdcFrozen(row, t) == IF row.ldc = NULL THEN t ELSE row.ldc

NewLdc(row, t) ==
  IF row.days \notin {NULL, 0} /\ (row.ldc = NULL \/ DaysSince(row, t) >= 1)
  THEN t ELSE row.ldc

\* A plausible slip: the remaining traffic may go below zero.
NewQuotaUnclamped(row, p) ==
  IF row.quota = NULL THEN NULL ELSE row.quota - UsageInc(row, p)

NewQuota(row, p) ==
  IF row.quota = NULL THEN NULL ELSE AtLeastZero(row.quota - UsageInc(row, p))

Exhausted(row) == row.quota = 0 \/ row.days = 0

\* A plausible slip: running out of days no longer disables.
SyncRowIgnoringDays(row, p, t) ==
  LET new == [row EXCEPT !.bytes = p, !.total = NewTotal(row, p),
                         !.quota = NewQuota(row, p), !.days = NewDays(row, t),
                         !.ldc = NewLdc(row, t)]
  IN  [new EXCEPT !.en = (row.en /\ new.quota # 0) \/ (~row.en /\ ~Exhausted(new))]

(***************************************************************************)
(* The row after a pass at time t that found its peer with counters p: an  *)
(* exhausted user is disabled, a disabled one that is not is enabled again.*)
(***************************************************************************)
SyncRow(row, p, t) ==
  LET new     == [row EXCEPT !.bytes = p, !.total = NewTotal(row, p),
                             !.quota = NewQuota(row, p), !.days = NewDays(row, t),
                             !.ldc = NewLdc(row, t)]
      disable == Exhausted(new)
      enable  == ~row.en /\ ~disable
  IN  [new EXCEPT !.en = (row.en /\ ~disable) \/ enable]
=============================================================================
