----------------------------- MODULE SignalEvent -----------------------------
(***************************************************************************)
(* moon::signalevent: the signal handler writes the number to the pipe of  *)
(* the object in the static slot sigev_, and handle_read calls the user    *)
(* back on the loop thread for each byte.  The handler runs between any    *)
(* two steps of the loop thread or of its destructor.                      *)
(***************************************************************************)
EXTENDS Reactor

CONSTANTS
  Signos,   \* signal numbers
  PipeCap,  \* bytes that the pipe holds
  ReadMax   \* sizeof(signals) in handle_read

ASSUME SignalAssumption == ReadMax \in Nat \ {0}

VARIABLES
  slot,       \* sigev_
  installed,  \* signals whose action is handle_signal
  pipe,       \* bytes in each object's pipe
  hand,       \* handle_read: bytes read and not yet gone through
  written,    \* what the handler has written to each pipe
  called      \* what the callback of each object has been called with

sigvars == <<slot, installed, pipe, hand, written, called>>

SignalInit ==
  /\ slot = None /\ installed = {} /\ hand = <<>>
  /\ pipe = [s \in Sigs |-> <<>>]
  /\ written = pipe /\ called = pipe

(* The constructor puts the object into the slot, whatever was there.      *)
signalevent(s) ==
  \/ Create(s) /\ slot' = s
  \/ CreateFails(s) /\ UNCHANGED slot

(* The action of the signals is set for the whole process.                 *)
add_signal(signals) ==
  installed' = IF alive' THEN installed \cup signals ELSE installed

add_sev(s, signals) ==
  /\ signalevent(s)
  /\ add_signal(signals)
  /\ UNCHANGED <<pipe, hand, written, called>>

(* A non-blocking write: a full or closed pipe drops the signal.  The      *)
(* handler interrupts the loop thread, the only one here; on another       *)
(* thread the test of sigev_ and its use would be two steps.               *)
handle_signal(n) ==
  /\ Environment /\ n \in installed
  /\ IF slot # None /\ life[slot] = "live" /\ Len(pipe[slot]) < PipeCap
     THEN /\ pipe' = [pipe EXCEPT ![slot] = Append(@, n)]
          /\ written' = [written EXCEPT ![slot] = Append(@, n)]
          /\ Arrive(slot)
     ELSE UNCHANGED <<pipe, written, edge>>
  /\ UNCHANGED <<posvars, mask, registered, interest, evlist, objvars, ops,
                 alive, slot, installed, hand, called>>

sigUnchanged == <<epvars, objvars, env, ops, alive, slot, installed, written>>

(* Mutant: one byte is used of all that were read.                         *)
ReadPipe_one ==
  \E s \in Sigs :
    /\ Handling(s, "handle")
    /\ hand' = SubSeq(pipe[s], 1, 1)
    /\ pipe' = [pipe EXCEPT ![s] = <<>>]
    /\ at' = "bytes"
    /\ UNCHANGED <<batch, cur, called, sigUnchanged>>

ReadPipe ==
  \E s \in Sigs :
    LET n == Min({ReadMax, Len(pipe[s])}) IN
    /\ Handling(s, "handle")
    /\ hand' = SubSeq(pipe[s], 1, n)
    /\ pipe' = [pipe EXCEPT ![s] = SubSeq(@, n + 1, Len(@))]
    /\ at' = "bytes"
    /\ UNCHANGED <<batch, cur, called, sigUnchanged>>

(* cb_ is tested for every byte: a callback may have removed the event.    *)
NextByte ==
  \E s \in Sigs :
    /\ Handling(s, "bytes") /\ hand # <<>>
    /\ hand' = Tail(hand)
    /\ IF s \in cbset
       THEN /\ called' = [called EXCEPT ![s] = Append(@, Head(hand))]
            /\ at' = "cb"
       ELSE UNCHANGED <<called, at>>
    /\ UNCHANGED <<batch, cur, pipe, sigUnchanged>>

SignalReturn ==
  \E s \in Sigs :
    /\ Handling(s, "cb") /\ at' = "bytes"
    /\ UNCHANGED <<batch, cur, pipe, hand, called, sigUnchanged>>

ReadDone ==
  \E s \in Sigs :
    /\ Handling(s, "bytes") /\ hand = <<>>
    /\ HandlerReturns
    /\ UNCHANGED <<pipe, hand, called, sigUnchanged>>

handle_read == ReadPipe \/ NextByte \/ SignalReturn \/ ReadDone

(* ~signalevent deletes the event and closes the pipe ...                  *)
DestroySignal(s) ==
  /\ Sweeping /\ s \in delque
  /\ Destroy(s)
  /\ at' = "dtor" /\ cur' = s
  /\ UNCHANGED <<batch, env, ops, alive, sigvars>>

(* Mutant: the destructor leaves the slot alone.                           *)
ResetSlot_forgets ==
  \E s \in Sigs :
    /\ Handling(s, "dtor")
    /\ HandlerReturns
    /\ UNCHANGED <<epvars, objvars, env, ops, alive, sigvars>>

(* ... and then clears the slot, whichever object is in it.                *)
ResetSlot ==
  \E s \in Sigs :
    /\ Handling(s, "dtor")
    /\ slot' = None
    /\ HandlerReturns
    /\ UNCHANGED <<epvars, objvars, env, ops, alive, installed, pipe, hand,
                   written, called>>
=============================================================================
