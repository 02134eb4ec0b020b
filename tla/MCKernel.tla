------------------------------ MODULE MCKernel ------------------------------
(***************************************************************************)
(* Kernel on a small table: MAX_TASKS = 5 leaves the tids 1 to 4 usable,   *)
(* tid 0 is never created and tid 5 lies past the table.                   *)
(***************************************************************************)
EXTENDS KernelRendezvous

\* One event of each kind: the timer, a maskable UART source, one half of the
\* clear-to-send pair.
MCEvents == {"TIMER_TICK", "UART_TX", "UART_MARKLIN_CTS_LOW"}

\* Two valid priorities and one that is out of range.
MCPriorities == {0, 1, 2}
=============================================================================
