--------------------------- MODULE MCControlPipe ----------------------------
(***************************************************************************)
(* Instances of ControlPipe for TLC: one host that makes every sort of     *)
(* request, and one for the vendor request.                                *)
(***************************************************************************)
EXTENDS ControlPipe

Ask(kind, values) == {[kind |-> kind, value |-> v] : v \in values}

\* Every stage and every kind of effect, each by the request that adds least to the
\* state: halt is cleared, the rate set to 0, the vendor's word is 0.
ManyRequests ==
  Ask("setAddress", {1}) \union Ask("setConfiguration", {1, 2}) \union Ask("getDescriptor", {2})
    \union Ask("getStatus", {0}) \union Ask("halt", {0}) \union Ask("setCurrent", {0})
    \union Ask("setInterface", {1}) \union Ask("vendor", {0})

VendorRequests == Ask("vendor", {0, 1})

MCUndefined == -1
============================================================================
