------------------------------ MODULE Deferred ------------------------------
(***************************************************************************)
(* What both registries of the PipeWire thread promise (session.rs: "It's  *)
(* not safe to delete proxies and listeners during PipeWire callbacks, so  *)
(* registries defer cleanup"): an object a callback lets go of is parked,  *)
(* it leaves memory only in a collection the main loop was signalled to    *)
(* make, and it never comes back.                                          *)
(***************************************************************************)
VARIABLES
    live,       \* objects in use
    parked,     \* objects let go of, still in memory
    signalled   \* the main loop has been asked to collect

deferredVars == <<live, parked, signalled>>

DeferredInit == live = {} /\ parked = {} /\ signalled = FALSE

(* A callback: objects arrive, and others are let go of.                   *)
Callback ==
    /\ (live' \ live) \cap parked = {}
    /\ parked' = parked \cup (live \ live')
    /\ signalled' \in BOOLEAN
    /\ signalled \/ live \ live' # {} => signalled'

(* The main loop, outside every callback.                                  *)
Release ==
    /\ signalled /\ ~signalled'
    /\ parked' = {}
    /\ live' = live

DeferredNext == Callback \/ Release

DeferredSpec == DeferredInit /\ [][DeferredNext]_deferredVars

(* Nothing parked is forgotten, and nothing is both in use and parked.     *)
NothingForgotten ==
    /\ parked # {} => signalled
    /\ live \cap parked = {}
=============================================================================
