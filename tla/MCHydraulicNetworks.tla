------------------------ MODULE MCHydraulicNetworks ------------------------
(* Two networks that can share two junctions, a pipe and a demand point.   *)
EXTENDS HydraulicNetworks, TLC

CONSTANTS n1, n2, j1, j2, p, d

MCUuid == {n1, n2, j1, j2, p, d}

MCKindOf == (n1 :> "network") @@ (n2 :> "network") @@ (j1 :> "junction")
                @@ (j2 :> "junction") @@ (p :> "pipe") @@ (d :> "demand_point")

NoRefs == [f \in {} |-> Null]

Object(refs, data) == [refs |-> refs, data |-> data, members |-> {}]

Root(listed) == [refs |-> NoRefs, data |-> 0, members |-> listed]

Junction(data) == Object(NoRefs, data)

Pipe(from, to) == Object([from |-> from, to |-> to], 0)

OnPipe(assigned, position) == Object([pipe |-> p, assigned |-> assigned], position)

MCEdits ==
    {\* one entity
     d :> OnPipe(j1, 0), d :> OnPipe(Null, OutOfRange), d :> Gone,
     p :> Pipe(j1, Null), p :> Pipe(j1, j1), j1 :> Junction(1), j2 :> Junction(0),
     j2 :> Gone,
     \* a pipe and the point on it
     (p :> Pipe(j1, j1)) @@ (d :> OnPipe(j1, 0)),
     \* roots that adopt, hand over and drop
     n2 :> Root({j2}), n2 :> Gone, (n2 :> Gone) @@ (j2 :> Gone),
     (n1 :> Root({j1, p, d})) @@ (n2 :> Root({j2})),
     (n1 :> Root({j1, p})) @@ (d :> Gone) @@ (p :> Pipe(j1, j1)),
     (n1 :> Root({j1, j2, p, d})) @@ (n2 :> Root({}))}

WholeRows(point) ==
    (n1 :> Root({j1, j2, p, d})) @@ (j1 :> Junction(0)) @@ (j2 :> Junction(0))
        @@ (p :> Pipe(j1, j2)) @@ (d :> point)

MCNetwork ==
    {[uuid |-> n1, rows |-> WholeRows(OnPipe(j2, 0))],
     [uuid |-> n1, rows |-> WholeRows(OnPipe(Null, OutOfRange))],
     [uuid |-> n1, rows |-> (n1 :> Root({j1, j2})) @@ (j1 :> Junction(1)) @@ (j2 :> Junction(0))],
     [uuid |-> n2, rows |-> (n2 :> Root({j2})) @@ (j2 :> Junction(0))]}

\* An empty project, and one whose network was imported.
MCImport ==
    LET nothing == [u \in MCUuid |-> Absent] IN
    {nothing, WholeRows(OnPipe(j2, 0)) @@ (n2 :> Root({})) @@ nothing}

=============================================================================
