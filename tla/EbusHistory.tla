---------------------------- MODULE EbusHistory -----------------------------
(***************************************************************************)
(* The engine with two history variables that it does not have, which say  *)
(* what it has done for the command in hand and to the bus, and the proof  *)
(* obligation that its sending half implements CommandService.             *)
(***************************************************************************)
EXTENDS Ebus

VARIABLES
  requests_sent,   \* how often active_command_ was put on the bus
  quiet            \* SYNs of the NORMAL bus since a command was completed

historyVars == <<vars, requests_sent, quiet>>

\* Nothing has been sent before the start, so nothing is to be waited for.
HistoryInit == Init /\ requests_sent = 0 /\ quiet = MaxLockCounter

TakesCommand == is_finished(active_command_) /\ ~is_finished(active_command_')

CompletesCommand ==
  ~is_finished(active_command_) /\ active_command_'.state = "endCompleted"

RecordRequests ==
  requests_sent' = CASE TakesCommand         -> 0
                     [] cmd_tx' = "request"  -> requests_sent + 1
                     [] OTHER                -> requests_sent

\* Counted up to the number that is ever asked for.
RecordQuiet(received_byte) ==
  quiet' = CASE CompletesCommand -> 0
             [] ~CompletesCommand /\ IsSymbol(received_byte) /\ received_byte = SYN
                  /\ state_' = "NORMAL" /\ quiet < MaxLockCounter -> quiet + 1
             [] OTHER -> quiet

HistoryNext ==
  \E received_byte \in Alphabet, crcMatches \in BOOLEAN,
     dequeued \in Dequeuable, reply_size \in ReplySizes :
    /\ process_received_char(received_byte, crcMatches, dequeued, reply_size)
    /\ RecordRequests
    /\ RecordQuiet(received_byte)

HistorySpec == HistoryInit /\ [][HistoryNext]_historyVars

-----------------------------------------------------------------------------
(* The sending half as a CommandService.                                   *)

\* can_retry compares int8_t: a max_tries_ beyond 127 leaves one attempt.
Attempts == IF AsInt8(MaxTries) < 0 THEN 1 ELSE AsInt8(MaxTries) + 1

PhaseOf ==
  [waitForSend |-> "waiting",
   waitForArbitration |-> "contending", waitForArbitration2nd |-> "contending",
   waitForCommandAck |-> "sent", endCompleted |-> "idle", endSendFailed |-> "idle"]

OutcomeOf(c) ==
  CASE ~is_finished(c)                                        -> "pending"
    [] c.state = "endSendFailed"                              -> "failed"
    [] c.state = "endCompleted" /\ c.request = NoRequest      -> "none"
    [] c.state = "endCompleted" /\ c.request # NoRequest      -> "done"

Service == INSTANCE CommandService WITH
  NeedsNoAck <- {request \in Commands : ~is_ack_expected(request.zz)},
  phase      <- PhaseOf[active_command_.state],
  request    <- active_command_.request,
  failures   <- active_command_.tries_count,
  requests   <- requests_sent,
  outcome    <- OutcomeOf(active_command_)

-----------------------------------------------------------------------------
(* Properties.                                                             *)

\* The sending half does what CommandService promises: every byte is a step
\* of the service or changes nothing of it.
ImplementsService == Service!Spec

\* The bookkeeping of tries, across both arbitration rounds, acknowledgements
\* and timeouts: see CommandService.
TriesAccounted == Service!Accounted

\* After a completed command the node stays away from the bus for
\* max_lock_counter_ SYNs of the NORMAL bus, so that other primaries of lower
\* priority get their turn: in the second round too.
LockHonoured == cmd_tx = "qq" => quiet >= MaxLockCounter

=============================================================================
