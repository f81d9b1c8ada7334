---------------------------- MODULE Synchronizer ----------------------------
(***************************************************************************)
(* synchronizer.sv: a rising edge of async_sig, at whatever moment, becomes *)
(* a pulse of out_sync_sig in the domain of outclk.  FDC_A remembers the    *)
(* edge until FDC_1, two edges after the output rose, clears it.            *)
(***************************************************************************)
VARIABLES fdc_aq, fdc_bq, out_sync_sig, fdc_1q

flops == <<fdc_aq, fdc_bq, out_sync_sig, fdc_1q>>

Clear == fdc_aq = FALSE /\ fdc_bq = FALSE /\ out_sync_sig = FALSE /\ fdc_1q = FALSE

(* No trace of an earlier edge is left. *)
Quiet == ~fdc_aq /\ ~fdc_bq /\ ~out_sync_sig /\ ~fdc_1q

(* A rising edge of async_sig: lost while FDC_1 holds FDC_A clear. *)
AsyncEdge == fdc_aq' = ~fdc_1q /\ UNCHANGED <<fdc_bq, out_sync_sig, fdc_1q>>

(* Mutant: FDC_A is never cleared. *)
OutClock_NoClear ==
  /\ fdc_bq' = fdc_aq /\ out_sync_sig' = fdc_bq /\ fdc_1q' = out_sync_sig
  /\ fdc_aq' = fdc_aq

(* A rising edge of outclk; FDC_1 clears FDC_A as it rises. *)
OutClock ==
  /\ fdc_bq' = fdc_aq /\ out_sync_sig' = fdc_bq /\ fdc_1q' = out_sync_sig
  /\ fdc_aq' = (fdc_aq /\ ~out_sync_sig)

OutRises == out_sync_sig' /\ ~out_sync_sig

TypeOK == {fdc_aq, fdc_bq, out_sync_sig, fdc_1q} \subseteq BOOLEAN
=============================================================================
