----------------------------- MODULE GattWriter ------------------------------
(***************************************************************************)
(* The GATT layer of dbus-ble-sensors-py: AsyncGATTWriter of               *)
(* orion_tr_gatt.py with its single slot, the BLE loop of                  *)
(* ble_async_loop.py on which the sessions run, and the link of            *)
(* ble_gatt_link.py and ble_gatt_dbus.py.                                  *)
(*                                                                         *)
(* A session is a coroutine of the BLE thread.  Its stages are steps of    *)
(* their own; what the drivers do happens on the GLib thread.  The result  *)
(* crosses over as an idle callback, a stage of its own (settled).         *)
(***************************************************************************)
EXTENDS Naturals, Sequences, FiniteSets

CONSTANTS
  Device,     \* the peripherals, by address
  Free        \* no request: _busy is False

Stage == {"idle", "queued", "linked", "sent", "good", "bad"}

VARIABLES
  loop,      \* ble_async_loop: "down" before start(), "up", or "failed" for good
  job,       \* the request for which the writer is busy, or Free
  stage,     \* how far its coroutine has come; good and bad: settled, undelivered
  agent,     \* devices whose pairing agent is registered
  bonded     \* devices BlueZ has a bond for

gattVars == <<loop, job, stage, agent, bonded>>

GattInit ==
  /\ loop = "down"
  /\ job = Free /\ stage = "idle"
  /\ agent = {}
  /\ bonded \in SUBSET Device

(***************************************************************************)
(* A writer is what a handler sees and changes of the above while it runs: *)
(* start() and submit() answer at once, and a request the writer does not  *)
(* take is answered with failure before the call returns.                  *)
(***************************************************************************)
Writer == [loop |-> loop, job |-> job, stage |-> stage, agent |-> agent]

Busy(w) == w.job # Free

\* ble_async_loop.start is tried once: a failure is remembered.
Starts(w) ==
  IF w.loop = "down" THEN {[w EXCEPT !.loop = l] : l \in {"up", "failed"}} ELSE {w}

Accepts(w) == w.loop = "up"

\* A pairing agent answers for a missing bond.
AgentFor(d) == {d} \ bonded

Opened(w, r) == [w EXCEPT !.job = r, !.stage = "queued", !.agent = AgentFor(r.dev)]

\* _finish and _finish_read give the agent and the slot back first.
Finished(w) == [w EXCEPT !.job = Free, !.stage = "idle", !.agent = {}]

Become(w) ==
  loop' = w.loop /\ job' = w.job /\ stage' = w.stage /\ agent' = w.agent

(***************************************************************************)
(* The coroutine: resolve and connect, pair when BlueZ has no bond, write, *)
(* disconnect.  wait_for cancels it wherever it is, and every error ends   *)
(* it, also one of the disconnect after the write went out.                *)
(***************************************************************************)
Connect == stage = "queued" /\ stage' = "linked" /\ UNCHANGED <<loop, job, agent, bonded>>

SendRequest ==
  /\ stage = "linked" /\ stage' = "sent"
  /\ bonded' = bonded \cup {job.dev}
  /\ UNCHANGED <<loop, job, agent>>

Complete == stage = "sent" /\ stage' = "good" /\ UNCHANGED <<loop, job, agent, bonded>>

Fail ==
  /\ stage \in {"queued", "linked", "sent"} /\ stage' = "bad"
  /\ UNCHANGED <<loop, job, agent, bonded>>

Settled == stage \in {"good", "bad"}

\* The process ends; BlueZ keeps its bonds.
GattRestart ==
  /\ loop' = "down" /\ job' = Free /\ stage' = "idle" /\ agent' = {}
  /\ UNCHANGED bonded
==============================================================================
