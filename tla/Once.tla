-------------------------------- MODULE Once --------------------------------
(***************************************************************************)
(* What an async_cached_property promises its readers: the value comes to  *)
(* exist at most once, and whoever gets a value gets that one.  The values *)
(* are key pairs, guard connections and circuits: two of them would be     *)
(* two different handshakes, or a connection nobody closes.                *)
(***************************************************************************)
CONSTANTS Readers, Values, None

VARIABLES
  value,   \* the value of the property, None until it exists
  given    \* what each reader was given

Init ==
  /\ value = None
  /\ given = [r \in Readers |-> None]

Create(r) ==
  /\ value = None
  /\ value' \in Values
  /\ given' = [given EXCEPT ![r] = value']

Give(r) ==
  /\ value # None
  /\ given[r] = None
  /\ given' = [given EXCEPT ![r] = value]
  /\ UNCHANGED value

Next == \E r \in Readers : Create(r) \/ Give(r)

Spec == Init /\ [][Next]_<<value, given>>

=============================================================================
