---------------------------- MODULE SerialNumbers ----------------------------
(***************************************************************************)
(* The 32-bit sequence numbers and timestamps of ikcp.c, and why module    *)
(* Arq may count with natural numbers instead.                             *)
(*                                                                         *)
(* ikcp.c keeps sn, una, snd_nxt, rcv_nxt and ts as IUINT32 and compares   *)
(* two of them only through _itimediff.  Here a number of the program is   *)
(* the image U32(n) of the number n that would never wrap.                 *)
(***************************************************************************)
EXTENDS Integers

TwoTo32 == 4294967296
TwoTo31 == 2147483648

(* Conversion to IUINT32.                                                  *)
U32(n) == n % TwoTo32

(* _itimediff: the unsigned difference read as IINT32.                     *)
itimediff(later, earlier) ==
    LET d == (later - earlier) % TwoTo32
    IN  IF d < TwoTo31 THEN d ELSE d - TwoTo32

(* The guard of ikcp_input and ikcp_parse_data that keeps sn below the end *)
(* of the receive window (ikcp.c:689, 827).                                *)
BelowWindowEnd(sn, rcv_nxt, rcv_wnd) ==
    itimediff(sn, U32(rcv_nxt + rcv_wnd)) < 0

(* The loop condition of ikcp_flush that moves segments to snd_buf.        *)
InsideSendWindow(snd_nxt, snd_una, cwnd) ==
    itimediff(snd_nxt, U32(snd_una + cwnd)) < 0

Near(a, b) == -TwoTo31 <= a - b /\ a - b < TwoTo31
=============================================================================
