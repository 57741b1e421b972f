---------------------------- MODULE ReportBuffer ----------------------------
(***************************************************************************)
(* injection.py, InjectionEngine, as the report path sees it: it captures  *)
(* a whole report into report_buffer, works on it, and sends it out.  The  *)
(* states between capture and output are one, MUTATE, that lasts any       *)
(* number of cycles; what they compute is not modelled here.               *)
(*                                                                         *)
(* input_index and output_index have the width of the buffer's address.    *)
(* When the device is silent a layout's report is sent from a template: a  *)
(* copy of the last one committed (template_cache).  Of a template the     *)
(* length is kept; its bytes are Injected(k, i).                           *)
(***************************************************************************)
EXTENDS Naturals

CONSTANT
    BufferBytes,         \* LIMITS["report_bytes"], a power of two
    Endpoints            \* the endpoints reports come from

ASSUME BufferAssumption == BufferBytes \in Nat \ {0, 1}

VARIABLES
    istate, buffer, input_index, output_index, report_length,
    captured_endpoint,
    stationary,          \* transaction_stationary
    mapped,              \* transaction_mapped
    output_started,
    template             \* per endpoint: its template's length, 0 for none

bufferVars == <<istate, buffer, input_index, output_index, report_length,
                captured_endpoint, stationary, mapped, output_started, template>>

BufferStates == {"CAPTURE", "CAPTURE_REST", "MUTATE", "OUTPUT", "CACHE_COPY"}

Addresses == 0..(BufferBytes - 1)
Zero == <<>>
Empty == [a \in Addresses |-> Zero]
Injected(k, i) == <<k, 0, i>>

BufferInit ==
    /\ istate = "CAPTURE" /\ buffer = Empty /\ input_index = 0 /\ output_index = 0
    /\ report_length = 0 /\ stationary = FALSE /\ mapped = FALSE /\ output_started = FALSE
    /\ captured_endpoint \in Endpoints
    /\ template = [k \in Endpoints |-> 0]

\* What is left in a register nobody reads before it is written again is
\* dropped.
Forget ==
    /\ buffer' = Empty /\ input_index' = 0 /\ output_index' = 0
    /\ report_length' = 0 /\ stationary' = FALSE /\ mapped' = FALSE /\ output_started' = FALSE
    /\ UNCHANGED captured_endpoint

buffer_ready(valid, first) ==
    \/ istate = "CAPTURE" /\ valid /\ first
    \/ istate = "CAPTURE_REST"

output_last == output_index = report_length - 1

\* CAPTURE: the first byte of a report; a silent device's report, sent from its
\* template; or nothing.
CaptureFirst(k, byte, last) ==
    /\ istate = "CAPTURE"
    /\ istate' = IF last THEN "MUTATE" ELSE "CAPTURE_REST"
    /\ buffer' = [buffer EXCEPT ![0] = byte]
    /\ input_index' = 0 /\ report_length' = IF last THEN 1 ELSE 0
    /\ captured_endpoint' = k
    /\ UNCHANGED <<output_index, stationary, mapped, output_started, template>>

LoadTemplate(k) ==
    /\ istate = "CAPTURE" /\ template[k] # 0
    /\ istate' = "MUTATE"
    /\ buffer' = [a \in Addresses |-> IF a < template[k] THEN Injected(k, a + 1) ELSE Zero]
    /\ report_length' = template[k]
    /\ captured_endpoint' = k /\ stationary' = TRUE
    /\ UNCHANGED <<input_index, output_index, mapped, output_started, template>>

CaptureNothing == istate = "CAPTURE" /\ UNCHANGED bufferVars

CaptureRest(valid, byte, last) ==
    /\ istate = "CAPTURE_REST"
    /\ \/ ~valid /\ UNCHANGED bufferVars
       \/ /\ valid
          /\ buffer' = [buffer EXCEPT ![(input_index + 1) % BufferBytes] = byte]
          /\ IF last
             THEN istate' = "MUTATE" /\ input_index' = 0 /\ report_length' = input_index + 2
             ELSE /\ input_index' = (input_index + 1) % BufferBytes
                  /\ UNCHANGED <<istate, report_length>>
          /\ UNCHANGED <<output_index, captured_endpoint, stationary, mapped,
                         output_started, template>>

MutateWait == istate = "MUTATE" /\ UNCHANGED bufferVars

\* A stationary report that is aborted or suppressed is not sent; a native
\* one is sent mutated, or as it came.
MutateEnd ==
    /\ istate = "MUTATE"
    /\ \/ /\ istate' = "OUTPUT"
          /\ mapped' \in {TRUE, stationary}
          /\ UNCHANGED <<buffer, input_index, output_index, report_length,
                         captured_endpoint, stationary, output_started, template>>
       \/ stationary /\ istate' = "CAPTURE" /\ Forget /\ UNCHANGED template

\* OUTPUT: the map it was made for is lost before the first byte is out, and a
\* native report is sent as it came (ABORT_MUTATION, OUTPUT_PRIME), ...
OutputAbort ==
    /\ istate = "OUTPUT" /\ ~output_started /\ mapped
    /\ IF stationary
       THEN istate' = "CAPTURE" /\ Forget /\ UNCHANGED template
       ELSE /\ mapped' = FALSE
            /\ UNCHANGED <<istate, buffer, input_index, output_index, report_length,
                           captured_endpoint, stationary, output_started, template>>

\* ... or a byte goes out in each cycle.  A native report that was mutated,
\* with its map still there, is kept as its layout's template.
OutputByte ==
    /\ istate = "OUTPUT"
    /\ \/ /\ ~output_last
          /\ output_index' = (output_index + 1) % BufferBytes
          /\ output_started' = TRUE
          /\ UNCHANGED <<istate, buffer, input_index, report_length,
                         captured_endpoint, stationary, mapped, template>>
       \/ output_last /\ istate' = "CAPTURE" /\ Forget /\ UNCHANGED template
       \/ /\ output_last /\ mapped /\ ~stationary
          /\ istate' = "CACHE_COPY"
          /\ output_index' = 0 /\ output_started' = FALSE /\ mapped' = FALSE
          /\ UNCHANGED <<buffer, input_index, report_length, captured_endpoint,
                         stationary, template>>

CacheWait == istate = "CACHE_COPY" /\ UNCHANGED bufferVars

CacheEnd ==
    /\ istate = "CACHE_COPY"
    /\ istate' = "CAPTURE"
    /\ template' = [template EXCEPT ![captured_endpoint] = report_length]
    /\ Forget
=============================================================================
