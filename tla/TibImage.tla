------------------------------ MODULE TibImage ------------------------------
(***************************************************************************)
(* What a mounted sector-mode archive promises to the file-system layers   *)
(* above it (tibread/reader.py, class TibReader): a fixed partition image  *)
(* that any number of threads read concurrently.  A call is answered with  *)
(* the bytes of the image it asks for, clipped at the end of the image;    *)
(* only a call that touches bytes the archive can no longer supply may be  *)
(* answered with anything else.  No cache, no file handles, no blocks.     *)
(***************************************************************************)
EXTENDS Integers, Sequences

CONSTANTS Threads,        \* the threads that may call read
          Offsets,        \* the offsets they ask for
          Lengths,        \* the lengths they ask for
          PartitionSize,  \* bytes in the image
          ImageByte,      \* ImageByte[x]: byte x of the image
          Damaged         \* the bytes the archive cannot supply

VARIABLES call,    \* call[t]: the request of t's last call
          status,  \* status[t]: "idle", "busy" (call pending) or "done"
          result   \* result[t]: what t's last finished call returned

ivars == <<call, status, result>>

(* The clipped end of a request. *)
EndOf(r) == IF r.off + r.len < PartitionSize THEN r.off + r.len
                                             ELSE PartitionSize

(* The bytes a request is entitled to; none when it is empty or starts past *)
(* the end.                                                                 *)
SliceOf(r) ==
    [i \in 1..(IF r.len > 0 /\ EndOf(r) > r.off THEN EndOf(r) - r.off ELSE 0)
        |-> ImageByte[r.off + i - 1]]

Clean(r) == /\ r.off >= 0
            /\ \A x \in r.off..(EndOf(r) - 1) : x \notin Damaged

Init == /\ call   = [t \in Threads |-> [off |-> 0, len |-> 0]]
        /\ status = [t \in Threads |-> "idle"]
        /\ result = [t \in Threads |-> << >>]

Begin(t) ==
    /\ status[t] # "busy"
    /\ \E off \in Offsets, len \in Lengths :
          call' = [call EXCEPT ![t] = [off |-> off, len |-> len]]
    /\ status' = [status EXCEPT ![t] = "busy"]
    /\ result' = [result EXCEPT ![t] = << >>]

Answer(t) ==
    /\ status[t] = "busy"
    /\ status' = [status EXCEPT ![t] = "done"]
    /\ result' = [result EXCEPT ![t] = result'[t]]
    /\ Clean(call[t]) => result'[t] = SliceOf(call[t])
    /\ UNCHANGED call

Next == \E t \in Threads : Begin(t) \/ Answer(t)

Spec == Init /\ [][Next]_ivars
=============================================================================
