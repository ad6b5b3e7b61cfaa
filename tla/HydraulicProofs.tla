-------------------------- MODULE HydraulicProofs --------------------------
(***************************************************************************)
(* Theorems about HydraulicNetworks: whatever shortcut accepts an edit, the*)
(* indexes it leaves are those a rebuild computes, and every network is    *)
(* valid.                                                                  *)
(***************************************************************************)
EXTENDS HydraulicNetworks, SequenceTheorems, TLAPS

-----------------------------------------------------------------------------
(* Types.                                                                  *)

\* What a row can hold: what callers write, what the branch started with, and
\* the tombstones that take it back.
Stored ==
    {Absent, Gone}
        \cup (UNION {{edits[u] : u \in DOMAIN edits} : edits \in Edits})
        \cup (UNION {{net.rows[u] : u \in DOMAIN net.rows} : net \in Network})
        \cup (UNION {{stored[u] : u \in Uuid} : stored \in Import})

Group == UNION {[D -> [from : Stored, to : Stored]] : D \in SUBSET Uuid}

TypeOK ==
    /\ rows \in [Uuid -> Stored]
    /\ applied \in Seq(Group)
    /\ undone \in Seq(Group)

\* Edits of a group, and of its undoing.
EditsOK(edits) ==
    /\ DOMAIN edits \subseteq Uuid
    /\ \A u \in DOMAIN edits : edits[u] \in Stored

\* Whatever is stored refers to UUIDs.
LEMMA StoredObjects ==
    ASSUME NEW content \in Stored \ {Absent, Gone}
    PROVE  IsObject(content)
  <1>1. ASSUME NEW edits \in Edits, NEW u \in DOMAIN edits, content = edits[u]
        PROVE  IsObject(content)
    BY <1>1, InputsAreObjects
  <1>2. ASSUME NEW net \in Network, NEW u \in DOMAIN net.rows, content = net.rows[u]
        PROVE  IsObject(content)
    BY <1>2, InputsAreObjects
  <1>3. ASSUME NEW stored \in Import, NEW u \in Uuid, content = stored[u]
        PROVE  IsObject(content)
    BY <1>3, InputsAreObjects DEF Live
  <1>4. \/ \E edits \in Edits : \E u \in DOMAIN edits : content = edits[u]
        \/ \E net \in Network : \E u \in DOMAIN net.rows : content = net.rows[u]
        \/ \E stored \in Import : \E u \in Uuid : content = stored[u]
    BY DEF Stored
  <1> QED
    BY <1>1, <1>2, <1>3, <1>4

LEMMA GivenEdits ==
    ASSUME NEW edits \in Edits
    PROVE  EditsOK(edits)
  <1>1. DOMAIN edits \subseteq Uuid
    BY InputsAreObjects
  <1>2. \A u \in DOMAIN edits : edits[u] \in Stored
    BY DEF Stored
  <1> QED
    BY <1>1, <1>2 DEF EditsOK

LEMMA GivenNetworks ==
    ASSUME NEW net \in Network
    PROVE  EditsOK(net.rows)
  <1>1. DOMAIN net.rows \subseteq Uuid
    BY InputsAreObjects
  <1>2. \A u \in DOMAIN net.rows : net.rows[u] \in Stored
    BY DEF Stored
  <1> QED
    BY <1>1, <1>2 DEF EditsOK

LEMMA WrittenRows ==
    ASSUME rows \in [Uuid -> Stored], NEW edits, EditsOK(edits)
    PROVE  /\ Written(edits) \in [Uuid -> Stored]
           /\ \A u \in Uuid \ DOMAIN edits : Written(edits)[u] = rows[u]
           /\ \A u \in DOMAIN edits : Written(edits)[u] = edits[u]
           /\ \A u \in DOMAIN edits : Journaled(edits)[u] = rows[u]
           /\ GroupOf(edits) \in Group
  <1>1. GroupOf(edits) \in [DOMAIN edits -> [from : Stored, to : Stored]]
    BY DEF GroupOf, EditsOK
  <1>2. GroupOf(edits) \in Group
    BY <1>1 DEF Group, EditsOK
  <1> QED
    BY <1>2 DEF Written, Journaled, EditsOK

LEMMA GroupEdits ==
    ASSUME NEW group \in Group
    PROVE  EditsOK(Undoing(group)) /\ EditsOK(Redoing(group))
  <1>1. PICK D \in SUBSET Uuid : group \in [D -> [from : Stored, to : Stored]]
    BY DEF Group
  <1>2. /\ DOMAIN Undoing(group) = D /\ DOMAIN Redoing(group) = D
        /\ \A u \in D : Undoing(group)[u] \in Stored /\ Redoing(group)[u] \in Stored
    BY <1>1 DEF Undoing, Redoing, Stored
  <1> QED
    BY <1>1, <1>2 DEF EditsOK

LEMMA StackTops ==
    ASSUME NEW stack \in Seq(Group), stack # <<>>
    PROVE  Last(stack) \in Group /\ Butlast(stack) \in Seq(Group)
  BY DEF Last, Butlast

-----------------------------------------------------------------------------
(* What the invariant says.                                                *)

\* The rows of a branch in order.
Sound(stored) ==
    /\ stored \in [Uuid -> Stored]
    /\ RebuildSucceeds(stored)
    /\ \A n \in LiveRoots(stored) : ValidateHydraulicNetwork(stored, n)

\* An index names the owner of each entity.
Tracks(owners, stored) ==
    /\ owners \in [Uuid -> Uuid \cup {Null}]
    /\ \A n \in LiveRoots(stored) : \A u \in stored[n].members : owners[u] = n
    /\ \A u \in Uuid : owners[u] # Null =>
          owners[u] \in LiveRoots(stored) /\ u \in stored[owners[u]].members

Consistent ==
    /\ Sound(rows)
    /\ Tracks(members, rows)
    /\ references = RebuiltReferences(rows)

\* Members have UUIDs, are live and are no roots.
LEMMA SoundMembers ==
    ASSUME NEW stored, Sound(stored), NEW n \in LiveRoots(stored)
    PROVE  /\ n \in Uuid /\ n # Null
           /\ Loads(stored, n)
           /\ \A u \in stored[n].members :
                 u \in Uuid /\ Live(stored, u) /\ u \notin Roots
           /\ \A m \in LiveRoots(stored) :
                 m # n => stored[m].members \cap stored[n].members = {}
  <1>1. n \in Uuid /\ n # Null /\ KindOf[n] = "network" /\ Live(stored, n)
    BY NullIsNoUuid DEF LiveRoots, Roots
  <1>2. IsObject(stored[n])
    BY <1>1, StoredObjects DEF Sound, Live
  <1>3. Loads(stored, n)
    BY DEF Sound, RebuildSucceeds
  <1>4. \A u \in stored[n].members :
           u \in Uuid /\ Live(stored, u) /\ u \notin Roots
    BY <1>2, <1>3 DEF Loads, IsObject, EntityKinds, Nodes, Roots
  <1> QED
    BY <1>1, <1>3, <1>4 DEF Sound, RebuildSucceeds

\* The rebuilt index tracks the rows, and it is the only one that does.
LEMMA RebuiltTracks ==
    ASSUME NEW stored, Sound(stored)
    PROVE  Tracks(RebuiltMembers(stored), stored)
  <1>1. ASSUME NEW n \in LiveRoots(stored), NEW u \in stored[n].members
        PROVE  RebuiltMembers(stored)[u] = n
    <2>1. u \in Uuid
      BY <1>1, SoundMembers
    <2>2. \A m \in LiveRoots(stored) : u \in stored[m].members => m = n
      BY <1>1, SoundMembers
    <2> QED
      BY <1>1, <2>1, <2>2 DEF RebuiltMembers
  <1>2. ASSUME NEW u \in Uuid, RebuiltMembers(stored)[u] # Null
        PROVE  /\ RebuiltMembers(stored)[u] \in LiveRoots(stored)
               /\ u \in stored[RebuiltMembers(stored)[u]].members
    BY <1>2 DEF RebuiltMembers
  <1>3. RebuiltMembers(stored) \in [Uuid -> Uuid \cup {Null}]
    BY DEF RebuiltMembers, LiveRoots, Roots
  <1> QED
    BY <1>1, <1>2, <1>3 DEF Tracks

LEMMA OnlyOneTracks ==
    ASSUME NEW stored, Sound(stored), NEW owners, Tracks(owners, stored)
    PROVE  owners = RebuiltMembers(stored)
  <1>1. PICK other : other = RebuiltMembers(stored)
    OBVIOUS
  <1>2. Tracks(other, stored)
    BY <1>1, RebuiltTracks
  <1>3. ASSUME NEW u \in Uuid
        PROVE  owners[u] = other[u]
    BY <1>2 DEF Tracks
  <1>4. owners \in [Uuid -> Uuid \cup {Null}] /\ other \in [Uuid -> Uuid \cup {Null}]
    BY <1>2 DEF Tracks
  <1> QED
    BY <1>1, <1>3, <1>4

\* The invariant is what the two properties say.
LEMMA ConsistentMeans ==
    ASSUME Consistent
    PROVE  IndexesMatchRows /\ NetworksStayValid
  <1>1. members = RebuiltMembers(rows)
    BY OnlyOneTracks DEF Consistent
  <1> QED
    BY <1>1 DEF Consistent, Sound, IndexesMatchRows, NetworksStayValid, RebuildSucceeds

-----------------------------------------------------------------------------
(* Networks whose rows are the same.                                       *)

\* Two sets of rows agree on a network.
Agree(old, new, n) == \A u \in old[n].members \cup {n} : new[u] = old[u]

LEMMA AgreeingReferences ==
    ASSUME NEW old, NEW new, NEW n, Agree(old, new, n)
    PROVE  /\ new[n].members = old[n].members
           /\ HydraulicReferences(new, n) = HydraulicReferences(old, n)
           /\ NetworkReferences(new, n) = NetworkReferences(old, n)
           /\ Loads(old, n) => Loads(new, n)
  <1>1. new[n] = old[n]
    BY DEF Agree
  <1>2. HydraulicReferences(new, n) = HydraulicReferences(old, n)
    <2> PICK all : all = old[n].members \cup {n}
      OBVIOUS
    <2>1. \A u \in all : OutgoingReferences(u, new[u]) = OutgoingReferences(u, old[u])
      BY DEF Agree
    <2>2. {OutgoingReferences(u, new[u]) : u \in all}
              = {OutgoingReferences(u, old[u]) : u \in all}
      BY <2>1
    <2> QED
      BY <1>1, <2>2 DEF HydraulicReferences
  <1> QED
    BY <1>1, <1>2 DEF NetworkReferences, Loads, Live, Agree

\* The reference that a field of a member makes is one of the network.
LEMMA FieldsAreReferences ==
    ASSUME NEW stored, NEW n, NEW u \in stored[n].members,
           NEW f \in DOMAIN stored[u].refs, stored[u].refs[f] # Null
    PROVE  <<u, f, stored[u].refs[f]>> \in HydraulicReferences(stored, n)
  BY DEF HydraulicReferences, OutgoingReferences

\* In a valid network the pipe a point is attached to is one of its pipes.
LEMMA AttachedToMembers ==
    ASSUME NEW stored, NEW n, ValidateHydraulicNetwork(stored, n),
           NEW u \in stored[n].members, "pipe" \in DOMAIN stored[u].refs,
           stored[u].refs.pipe # Null
    PROVE  /\ stored[u].refs.pipe \in stored[n].members
           /\ KindOf[stored[u].refs.pipe] = "pipe"
  <1>1. <<u, "pipe", stored[u].refs["pipe"]>> \in HydraulicReferences(stored, n)
    BY FieldsAreReferences
  <1> QED
    BY <1>1 DEF ValidateHydraulicNetwork, AllowedKinds

\* Rows that agree on a network are valid together.
LEMMA AgreeingValidity ==
    ASSUME NEW old, NEW new, NEW n, Agree(old, new, n),
           ValidateHydraulicNetwork(old, n)
    PROVE  ValidateHydraulicNetwork(new, n)
  <1>1. /\ new[n].members = old[n].members
        /\ HydraulicReferences(new, n) = HydraulicReferences(old, n)
    BY AgreeingReferences
  <1>2. ASSUME NEW u \in old[n].members, KindOf[u] = "demand_point",
               "pipe" \in DOMAIN new[u].refs
        PROVE  /\ new[u].data # OutOfRange
               /\ /\ "assigned" \in DOMAIN new[u].refs
                  /\ Null \notin {new[u].refs.pipe, new[u].refs.assigned}
                  => new[u].refs.assigned \in EndpointsOf(new[new[u].refs.pipe])
    <2>1. new[u] = old[u]
      BY DEF Agree
    <2>2. ASSUME old[u].refs.pipe # Null
          PROVE  new[old[u].refs.pipe] = old[old[u].refs.pipe]
      BY <1>2, <2>1, <2>2, AttachedToMembers DEF Agree
    <2> QED
      BY <1>2, <2>1, <2>2 DEF ValidateHydraulicNetwork
  <1> QED
    BY <1>1, <1>2 DEF ValidateHydraulicNetwork

-----------------------------------------------------------------------------
(* The full check.                                                         *)

\* What an edit may touch: what it does not write stays, and the networks of
\* what it writes are among those it affects.
Touches(stored, touched, affected, changed) ==
    /\ stored \in [Uuid -> Stored]
    /\ touched \subseteq Uuid
    /\ \A u \in Uuid \ touched : stored[u] = rows[u]
    /\ touched \cap Roots \subseteq changed
    /\ changed \subseteq affected
    /\ affected \subseteq Roots
    /\ \A u \in touched : members[u] # Null => members[u] \in affected

\* A network that is not affected is as it was.
LEMMA UnaffectedNetworks ==
    ASSUME Consistent, NEW stored, NEW touched, NEW affected, NEW changed,
           Touches(stored, touched, affected, changed),
           NEW n \in Roots \ affected
    PROVE  /\ n \in LiveRoots(rows) <=> n \in LiveRoots(stored)
           /\ n \in LiveRoots(rows) => Agree(rows, stored, n)
  <1>1. n \in Uuid \ touched /\ stored[n] = rows[n]
    BY DEF Touches, Roots
  <1>2. n \in LiveRoots(rows) <=> n \in LiveRoots(stored)
    BY <1>1 DEF LiveRoots, Live
  <1>3. ASSUME n \in LiveRoots(rows), NEW u \in rows[n].members
        PROVE  stored[u] = rows[u]
    <2>1. u \in Uuid /\ n # Null
      BY <1>3, SoundMembers DEF Consistent
    <2>2. members[u] = n
      BY <1>3 DEF Consistent, Tracks
    <2> QED
      BY <2>1, <2>2 DEF Touches
  <1> QED
    BY <1>1, <1>2, <1>3 DEF Agree

\* A root that is not changed lists what it did.
LEMMA UnchangedRoots ==
    ASSUME NEW stored, NEW touched, NEW affected, NEW changed,
           Touches(stored, touched, affected, changed),
           NEW n \in Roots \ changed
    PROVE  stored[n] = rows[n] /\ (n \in LiveRoots(rows) <=> n \in LiveRoots(stored))
  BY DEF Touches, Roots, LiveRoots, Live

\* Checking the affected networks in full, and the owners of what changed roots
\* list, is enough for all networks.
LEMMA FullCheckSuffices ==
    ASSUME Consistent, NEW stored, NEW touched, NEW affected, NEW changed,
           Touches(stored, touched, affected, changed),
           \A n \in affected \cap LiveRoots(stored) :
               Loads(stored, n) /\ ValidateHydraulicNetwork(stored, n),
           OneOwner(stored, changed)
    PROVE  Sound(stored)
  <1>1. ASSUME NEW n \in LiveRoots(stored)
        PROVE  Loads(stored, n) /\ ValidateHydraulicNetwork(stored, n)
    <2>1. CASE n \in affected
      BY <2>1
    <2>2. CASE n \notin affected
      <3>1. n \in LiveRoots(rows) /\ Agree(rows, stored, n)
        BY <2>2, UnaffectedNetworks DEF LiveRoots
      <3>2. Loads(rows, n) /\ ValidateHydraulicNetwork(rows, n)
        BY <3>1, SoundMembers DEF Consistent, Sound
      <3> QED
        BY <3>1, <3>2, AgreeingReferences, AgreeingValidity
    <2> QED
      BY <2>1, <2>2
  <1>2. ASSUME NEW n \in LiveRoots(stored) \ changed, NEW u \in stored[n].members
        PROVE  members[u] = n /\ n # Null
    <2>1. stored[n] = rows[n] /\ n \in LiveRoots(rows)
      BY UnchangedRoots DEF LiveRoots
    <2> QED
      BY <2>1, <1>2, SoundMembers DEF Consistent, Tracks
  <1>3. ASSUME NEW n \in LiveRoots(stored) \cap changed, NEW u \in stored[n].members
        PROVE  /\ members[u] \in changed \cup {Null}
               /\ \A m \in changed \cap LiveRoots(stored) :
                     m # n => u \notin stored[m].members
    BY <1>3 DEF OneOwner, NewMembers, LiveRoots
  <1>4. ASSUME NEW m \in LiveRoots(stored), NEW n \in LiveRoots(stored), m # n,
               NEW u \in stored[m].members \cap stored[n].members
        PROVE  FALSE
    <2>1. CASE m \in changed /\ n \in changed
      BY <1>3, <1>4, <2>1
    <2>2. CASE m \notin changed /\ n \notin changed
      BY <1>2, <1>4, <2>2
    <2>3. CASE m \in changed /\ n \notin changed
      BY <1>2, <1>3, <1>4, <2>3
    <2>4. CASE m \notin changed /\ n \in changed
      BY <1>2, <1>3, <1>4, <2>4
    <2> QED
      BY <2>1, <2>2, <2>3, <2>4
  <1>5. \A m, n \in LiveRoots(stored) :
            m # n => stored[m].members \cap stored[n].members = {}
    BY <1>4
  <1> QED
    BY <1>1, <1>5 DEF Sound, RebuildSucceeds, Touches

\* Then replaceNetworkMembership leaves what a rebuild computes.
LEMMA MembershipIsRebuilt ==
    ASSUME Consistent, NEW stored, NEW touched, NEW affected, NEW changed,
           Touches(stored, touched, affected, changed), Sound(stored),
           OneOwner(stored, changed)
    PROVE  ReplaceNetworkMembership(stored, changed) = RebuiltMembers(stored)
  <1> PICK owners : owners = ReplaceNetworkMembership(stored, changed)
    OBVIOUS
  <1>1. members \in [Uuid -> Uuid \cup {Null}] /\ changed \subseteq Uuid
    BY DEF Consistent, Tracks, Touches, Roots
  <1>2. ASSUME NEW u \in Uuid
        PROVE  \/ \E n \in changed : u \in NewMembers(stored, n) /\ owners[u] = n
               \/ /\ \A n \in changed : u \notin NewMembers(stored, n)
                  /\ owners[u] = IF members[u] \in changed THEN Null ELSE members[u]
    BY DEF ReplaceNetworkMembership
  <1>3. owners \in [Uuid -> Uuid \cup {Null}]
    <2>1. \A u \in Uuid : owners[u] \in Uuid \cup {Null}
      BY <1>1, <1>2
    <2> QED
      BY <2>1 DEF ReplaceNetworkMembership
  <1>4. \A n \in changed : \A u \in NewMembers(stored, n) :
            n \in LiveRoots(stored) /\ u \in stored[n].members
    BY DEF NewMembers, LiveRoots, Touches
  <1>5. ASSUME NEW n \in LiveRoots(stored), NEW u \in stored[n].members
        PROVE  owners[u] = n
    <2>1. u \in Uuid /\ n # Null
      BY <1>5, SoundMembers
    <2>2. CASE n \in changed
      <3>1. u \in NewMembers(stored, n)
        BY <1>5 DEF NewMembers, LiveRoots
      <3>2. PICK m \in changed : u \in NewMembers(stored, m) /\ owners[u] = m
        BY <1>2, <2>1, <2>2, <3>1
      <3> QED
        BY <1>4, <1>5, <3>2, SoundMembers
    <2>3. CASE n \notin changed
      <3>1. stored[n] = rows[n] /\ n \in LiveRoots(rows)
        BY <2>3, UnchangedRoots DEF LiveRoots
      <3>2. members[u] = n
        BY <1>5, <3>1 DEF Consistent, Tracks
      <3>3. \A m \in changed : u \notin NewMembers(stored, m)
        BY <1>4, <1>5, <2>3, SoundMembers
      <3> QED
        BY <1>2, <2>1, <2>3, <3>2, <3>3
    <2> QED
      BY <2>2, <2>3
  <1>6. ASSUME NEW u \in Uuid, owners[u] # Null
        PROVE  owners[u] \in LiveRoots(stored) /\ u \in stored[owners[u]].members
    <2>1. CASE \E n \in changed : u \in NewMembers(stored, n) /\ owners[u] = n
      BY <1>4, <2>1
    <2>2. CASE members[u] \notin changed /\ owners[u] = members[u]
      <3>1. members[u] \in LiveRoots(rows) /\ u \in rows[members[u]].members
        BY <1>6, <2>2 DEF Consistent, Tracks
      <3>2. PICK n : n = members[u]
        OBVIOUS
      <3>3. stored[n] = rows[n] /\ n \in LiveRoots(stored)
        BY <2>2, <3>1, <3>2, UnchangedRoots DEF LiveRoots
      <3> QED
        BY <2>2, <3>1, <3>2, <3>3
    <2> QED
      BY <1>2, <1>6, <2>1, <2>2
  <1>7. Tracks(owners, stored)
    BY <1>3, <1>5, <1>6 DEF Tracks
  <1> QED
    BY <1>7, OnlyOneTracks

\* And so does replacing the references of the affected networks.
LEMMA ReferencesAreRebuilt ==
    ASSUME Consistent, NEW stored, NEW touched, NEW affected, NEW changed,
           Touches(stored, touched, affected, changed)
    PROVE  ReplaceHydraulicReferences(stored, affected) = RebuiltReferences(stored)
  <1>1. ASSUME NEW n \in Roots \ affected
        PROVE  /\ n \in LiveRoots(rows) <=> n \in LiveRoots(stored)
               /\ n \in LiveRoots(rows) =>
                     NetworkReferences(rows, n) = NetworkReferences(stored, n)
    BY UnaffectedNetworks, AgreeingReferences
  <1>2. \A n : \A entry \in NetworkReferences(rows, n) \cup NetworkReferences(stored, n) :
            entry[1] = n
    BY DEF NetworkReferences
  <1>3. /\ LiveRoots(rows) \subseteq Roots
        /\ LiveRoots(stored) \subseteq Roots
        /\ affected \subseteq Roots
    BY DEF LiveRoots, Touches
  <1>4. \A entry : entry \in references <=>
            \E n \in LiveRoots(rows) : entry \in NetworkReferences(rows, n)
    BY DEF Consistent, RebuiltReferences
  <1>5. \A entry : entry \in RebuiltReferences(stored) <=>
            \E n \in LiveRoots(stored) : entry \in NetworkReferences(stored, n)
    BY DEF RebuiltReferences
  <1>6. \A entry : entry \in ReplaceHydraulicReferences(stored, affected) <=>
            \/ entry \in references /\ entry[1] \notin affected
            \/ \E n \in affected \cap LiveRoots(stored) :
                  entry \in NetworkReferences(stored, n)
    BY DEF ReplaceHydraulicReferences
  <1>7. ASSUME NEW entry
        PROVE  entry \in ReplaceHydraulicReferences(stored, affected)
                  <=> entry \in RebuiltReferences(stored)
    BY ONLY <1>1, <1>2, <1>3, <1>4, <1>5, <1>6
  <1> QED
    BY <1>7

-----------------------------------------------------------------------------
(* The shortcuts.                                                          *)

\* What an edit that takes a shortcut touches: entities that networks own.
EntitiesOnly(stored, touched) ==
    /\ stored \in [Uuid -> Stored]
    /\ touched \subseteq Uuid
    /\ touched \cap Roots = {}
    /\ \A u \in Uuid \ touched : stored[u] = rows[u]
    /\ \A u \in touched : Live(stored, u) /\ members[u] # Null

\* Such an edit leaves the roots, what they list and who owns it.
LEMMA EntityEditsKeepLists ==
    ASSUME Consistent, NEW stored, NEW touched, EntitiesOnly(stored, touched)
    PROVE  /\ LiveRoots(stored) = LiveRoots(rows)
           /\ \A n \in LiveRoots(rows) : stored[n] = rows[n] /\ Loads(stored, n)
           /\ RebuildSucceeds(stored)
           /\ Tracks(members, stored)
  <1>1. \A n \in Roots : n \in Uuid \ touched /\ stored[n] = rows[n]
    BY DEF EntitiesOnly, Roots
  <1>2. LiveRoots(stored) = LiveRoots(rows)
    BY <1>1 DEF LiveRoots, Live
  <1>3. ASSUME NEW n \in LiveRoots(rows)
        PROVE  stored[n] = rows[n] /\ Loads(stored, n)
    <2>1. stored[n] = rows[n] /\ Loads(rows, n)
      BY <1>1, SoundMembers DEF Consistent, LiveRoots
    <2>2. ASSUME NEW u \in rows[n].members
          PROVE  Live(stored, u) /\ KindOf[u] \in EntityKinds
      <3>1. u \in Uuid /\ Live(rows, u) /\ KindOf[u] \in EntityKinds
        BY <2>1, <2>2, SoundMembers DEF Consistent, Loads
      <3> QED
        BY <3>1 DEF EntitiesOnly, Live
    <2> QED
      BY <2>1, <2>2 DEF Loads, Live
  <1>4. RebuildSucceeds(stored)
    BY <1>2, <1>3 DEF Consistent, Sound, RebuildSucceeds
  <1>5. Tracks(members, stored)
    BY <1>2, <1>3 DEF Consistent, Tracks
  <1> QED
    BY <1>2, <1>3, <1>4, <1>5

\* Edits that are neutral for validation leave networks valid, and the indexes
\* need no change.
LEMMA NeutralEditsKeepAll ==
    ASSUME Consistent, NEW stored, NEW prior, NEW touched,
           EntitiesOnly(stored, touched),
           \A u \in touched : prior[u] = rows[u],
           Skips(stored, prior, touched)
    PROVE  /\ Sound(stored)
           /\ Tracks(members, stored)
           /\ RebuiltReferences(stored) = references
  <1>1. ASSUME NEW u \in Uuid
        PROVE  \/ stored[u] = rows[u]
               \/ /\ stored[u].refs = rows[u].refs
                  /\ KindOf[u] = "demand_point" /\ "pipe" \in DOMAIN stored[u].refs
                        => stored[u].data # OutOfRange
    BY DEF EntitiesOnly, Skips, CanSkipHydraulicRevalidation,
           ReferenceNeutralEntityEdit, SameOutgoingReferences
  <1>2. \A u \in Uuid : stored[u].refs = rows[u].refs
    BY <1>1
  <1>3. \A n \in LiveRoots(rows) :
            n \in Uuid /\ stored[n] = rows[n] /\ rows[n].members \subseteq Uuid
    BY EntityEditsKeepLists, SoundMembers DEF Consistent
  <1>4. ASSUME NEW n \in LiveRoots(rows)
        PROVE  HydraulicReferences(stored, n) = HydraulicReferences(rows, n)
    <2> PICK all : all = rows[n].members \cup {n}
      OBVIOUS
    <2>1. \A u \in all : OutgoingReferences(u, stored[u]) = OutgoingReferences(u, rows[u])
      <3>1. \A u \in all : stored[u].refs = rows[u].refs
        BY <1>2, <1>3
      <3> QED
        BY <3>1 DEF OutgoingReferences
    <2>2. {OutgoingReferences(u, stored[u]) : u \in all}
              = {OutgoingReferences(u, rows[u]) : u \in all}
      BY <2>1
    <2> QED
      BY <1>3, <2>2 DEF HydraulicReferences
  <1>5. ASSUME NEW n \in LiveRoots(rows)
        PROVE  ValidateHydraulicNetwork(stored, n)
    <2>1. ValidateHydraulicNetwork(rows, n) /\ stored[n].members = rows[n].members
      BY <1>3 DEF Consistent, Sound
    <2>2. ASSUME NEW u \in rows[n].members, KindOf[u] = "demand_point",
                 "pipe" \in DOMAIN stored[u].refs
          PROVE  /\ stored[u].data # OutOfRange
                 /\ /\ "assigned" \in DOMAIN stored[u].refs
                    /\ Null \notin {stored[u].refs.pipe, stored[u].refs.assigned}
                    => stored[u].refs.assigned
                          \in EndpointsOf(stored[stored[u].refs.pipe])
      <3>1. u \in Uuid /\ stored[u].refs = rows[u].refs
        BY <1>2, <1>3
      <3>2. stored[u].data # OutOfRange
        BY <1>1, <2>1, <2>2, <3>1 DEF ValidateHydraulicNetwork
      <3>3. ASSUME rows[u].refs.pipe # Null
            PROVE  EndpointsOf(stored[rows[u].refs.pipe])
                      = EndpointsOf(rows[rows[u].refs.pipe])
        <4> PICK pipe : pipe = rows[u].refs.pipe
          OBVIOUS
        <4>1. pipe \in Uuid
          BY <1>3, <2>1, <2>2, <3>1, <3>3, AttachedToMembers
        <4>2. stored[pipe].refs = rows[pipe].refs
          BY <1>2, <4>1
        <4> QED
          BY <4>2 DEF EndpointsOf
      <3> QED
        BY <2>1, <2>2, <3>1, <3>2, <3>3 DEF ValidateHydraulicNetwork
    <2> QED
      BY <1>4, <2>1, <2>2 DEF ValidateHydraulicNetwork
  <1>6. Sound(stored) /\ Tracks(members, stored)
    BY <1>5, EntityEditsKeepLists DEF Sound, EntitiesOnly
  <1>7. RebuiltReferences(stored) = references
    <2>1. \A n \in LiveRoots(rows) :
              NetworkReferences(stored, n) = NetworkReferences(rows, n)
      BY <1>4 DEF NetworkReferences
    <2> QED
      BY <2>1, EntityEditsKeepLists DEF Consistent, RebuiltReferences
  <1> QED
    BY <1>6, <1>7

\* What the indexes say is local is a member of an allowed kind.
LEMMA LocalTargetsAreMembers ==
    ASSUME Consistent, NEW stored, stored \in [Uuid -> Stored],
           NEW n \in LiveRoots(rows),
           NEW u \in Uuid, Live(stored, u), NEW fields,
           LocalTargets(stored, n, stored[u], fields),
           NEW f \in fields \cap DOMAIN stored[u].refs, stored[u].refs[f] # Null
    PROVE  /\ stored[u].refs[f] \in rows[n].members
           /\ KindOf[stored[u].refs[f]] \in AllowedKinds[f]
  <1> PICK target : target = stored[u].refs[f]
    OBVIOUS
  <1>1. target \in Uuid
    <2>1. IsObject(stored[u])
      BY StoredObjects DEF Live
    <2> QED
      BY <2>1 DEF IsObject
  <1>2. members[target] = n /\ KindOf[target] \in AllowedKinds[f]
    BY DEF LocalTargets, LocalTargetType, LocallyOwnedObject
  <1>3. n # Null
    BY SoundMembers DEF Consistent
  <1> QED
    BY <1>1, <1>2, <1>3 DEF Consistent, Tracks

\* What the local check has seen of a touched demand point, and of a point that
\* is attached to a touched pipe with new ends.
LEMMA LocallyCheckedPoints ==
    ASSUME Consistent, NEW stored, NEW prior, NEW touched,
           EntitiesOnly(stored, touched),
           \A u \in touched : prior[u] = rows[u],
           CheckLocalPipeAndAttachments(stored, prior, touched),
           NEW n \in LiveRoots(rows), NEW u \in rows[n].members,
           KindOf[u] = "demand_point", "pipe" \in DOMAIN stored[u].refs
    PROVE  \/ LocalDemandPointConstraints(stored, n, stored[u])
           \/ /\ stored[u] = rows[u]
              /\ stored[u].refs.pipe # Null =>
                    EndpointsOf(stored[stored[u].refs.pipe])
                       = EndpointsOf(rows[stored[u].refs.pipe])
  <1>1. u \in Uuid /\ members[u] = n
    BY SoundMembers DEF Consistent, Tracks
  <1>2. CASE u \in touched
    BY <1>1, <1>2 DEF CheckLocalPipeAndAttachments
  <1>3. CASE u \notin touched /\ stored[u].refs.pipe = Null
    BY <1>1, <1>3 DEF EntitiesOnly
  <1>4. CASE u \notin touched /\ stored[u].refs.pipe # Null
    <2>1. stored[u] = rows[u]
      BY <1>1, <1>4 DEF EntitiesOnly
    <2> PICK pipe : pipe = stored[u].refs.pipe
      OBVIOUS
    <2>2. pipe \in rows[n].members /\ KindOf[pipe] = "pipe"
      BY <1>4, <2>1, AttachedToMembers DEF Consistent, Sound
    <2>3. pipe \in Uuid
      BY <2>2, SoundMembers DEF Consistent
    <2>4. CASE EndpointsOf(stored[pipe]) = EndpointsOf(rows[pipe])
      BY <2>1, <2>4
    <2>5. CASE EndpointsOf(stored[pipe]) # EndpointsOf(rows[pipe])
      <3>1. pipe \in touched
        BY <2>3, <2>5 DEF EntitiesOnly
      <3>2. pipe \in ChangedPipes(stored, prior, touched)
        BY <2>2, <2>5, <3>1 DEF ChangedPipes
      <3> PICK entry : entry = <<n, <<u, "pipe", pipe>>>>
        OBVIOUS
      <3>3. entry \in references
        <4>1. <<u, "pipe", pipe>> \in HydraulicReferences(rows, n)
          <5>1. "pipe" \in DOMAIN rows[u].refs /\ rows[u].refs["pipe"] # Null
            BY <1>4, <2>1
          <5> QED
            BY <2>1, <5>1, FieldsAreReferences
        <4> QED
          BY <4>1 DEF Consistent, RebuiltReferences, NetworkReferences
      <3>4. entry \in AttachedTo(pipe) /\ entry[2][1] = u /\ entry[1] = n
        BY <3>3 DEF AttachedTo
      <3> QED
        BY <3>2, <3>4 DEF CheckLocalPipeAndAttachments
    <2> QED
      BY <2>4, <2>5
  <1> QED
    BY <1>2, <1>3, <1>4

\* Every reference of a network resolves after the local check.
LEMMA LocallyCheckedReferences ==
    ASSUME Consistent, NEW stored, NEW prior, NEW touched,
           EntitiesOnly(stored, touched),
           \A u \in touched : prior[u] = rows[u],
           CheckLocalPipeAndAttachments(stored, prior, touched),
           NEW n \in LiveRoots(rows), NEW ref \in HydraulicReferences(stored, n)
    PROVE  ref[3] \in rows[n].members /\ KindOf[ref[3]] \in AllowedKinds[ref[2]]
  <1>1. stored[n] = rows[n] /\ n \in Uuid \ touched
    <2>1. stored[n] = rows[n]
      BY EntityEditsKeepLists
    <2> QED
      BY <2>1 DEF EntitiesOnly, LiveRoots, Roots
  <1>2. PICK u \in rows[n].members \cup {n} : ref \in OutgoingReferences(u, stored[u])
    BY <1>1 DEF HydraulicReferences
  <1>3. PICK f \in DOMAIN stored[u].refs :
            stored[u].refs[f] # Null /\ ref = <<u, f, stored[u].refs[f]>>
    BY <1>2 DEF OutgoingReferences
  <1>4. u \in Uuid
    BY <1>1, SoundMembers DEF Consistent
  <1>5. ref \in OutgoingReferences(u, rows[u]) =>
            ref[3] \in rows[n].members /\ KindOf[ref[3]] \in AllowedKinds[ref[2]]
    <2>1. ref \in OutgoingReferences(u, rows[u]) => ref \in HydraulicReferences(rows, n)
      BY DEF HydraulicReferences
    <2> QED
      BY <2>1 DEF Consistent, Sound, ValidateHydraulicNetwork
  <1>6. CASE u \notin touched
    BY <1>2, <1>4, <1>5, <1>6 DEF EntitiesOnly
  <1>7. CASE u \in touched
    <2>1. u \in rows[n].members /\ Live(stored, u)
      BY <1>1, <1>7 DEF EntitiesOnly
    <2>2. members[u] = n
      BY <2>1 DEF Consistent, Tracks
    <2>3. CASE KindOf[u] # "demand_point"
      <3>1. LocalTargets(stored, n, stored[u], DOMAIN stored[u].refs)
        BY <1>7, <2>2, <2>3 DEF CheckLocalPipeAndAttachments
      <3> QED
        BY <1>3, <1>4, <2>1, <3>1, LocalTargetsAreMembers DEF EntitiesOnly
    <2>4. CASE KindOf[u] = "demand_point" /\ f \in AttachmentFields
      <3>1. LocalTargets(stored, n, stored[u], AttachmentFields)
        BY <1>7, <2>2, <2>4
           DEF CheckLocalPipeAndAttachments, LocalDemandPointConstraints
      <3> QED
        BY <1>3, <1>4, <2>1, <2>4, <3>1, LocalTargetsAreMembers DEF EntitiesOnly
    <2>5. CASE KindOf[u] = "demand_point" /\ f \notin AttachmentFields
      <3>1. {r \in OutgoingReferences(u, rows[u]) : r[2] \notin AttachmentFields}
                = {r \in OutgoingReferences(u, stored[u]) : r[2] \notin AttachmentFields}
        BY <1>7, <2>5 DEF CheckLocalPipeAndAttachments
      <3>2. ref[2] \notin AttachmentFields
        BY <1>3, <2>5
      <3>3. ref \in OutgoingReferences(u, rows[u])
        BY <1>2, <3>1, <3>2
      <3> QED
        BY <1>5, <3>3
    <2> QED
      BY <2>3, <2>4, <2>5
  <1> QED
    BY <1>6, <1>7

\* So every network stays valid.
LEMMA LocalCheckSuffices ==
    ASSUME Consistent, NEW stored, NEW prior, NEW touched,
           EntitiesOnly(stored, touched),
           \A u \in touched : prior[u] = rows[u],
           CheckLocalPipeAndAttachments(stored, prior, touched)
    PROVE  Sound(stored) /\ Tracks(members, stored)
  <1>1. ASSUME NEW n \in LiveRoots(rows)
        PROVE  ValidateHydraulicNetwork(stored, n)
    <2>1. stored[n] = rows[n] /\ ValidateHydraulicNetwork(rows, n)
      BY EntityEditsKeepLists DEF Consistent, Sound
    <2>2. ASSUME NEW u \in rows[n].members, KindOf[u] = "demand_point",
                 "pipe" \in DOMAIN stored[u].refs
          PROVE  /\ stored[u].data # OutOfRange
                 /\ /\ "assigned" \in DOMAIN stored[u].refs
                    /\ Null \notin {stored[u].refs.pipe, stored[u].refs.assigned}
                    => stored[u].refs.assigned
                          \in EndpointsOf(stored[stored[u].refs.pipe])
      <3>1. CASE LocalDemandPointConstraints(stored, n, stored[u])
        BY <2>2, <3>1 DEF LocalDemandPointConstraints
      <3>2. CASE /\ stored[u] = rows[u]
                 /\ stored[u].refs.pipe # Null =>
                       EndpointsOf(stored[stored[u].refs.pipe])
                          = EndpointsOf(rows[stored[u].refs.pipe])
        BY <2>1, <2>2, <3>2 DEF ValidateHydraulicNetwork
      <3> QED
        BY <2>2, <3>1, <3>2, LocallyCheckedPoints
    <2> QED
      BY <2>1, <2>2, LocallyCheckedReferences DEF ValidateHydraulicNetwork
  <1> QED
    BY <1>1, EntityEditsKeepLists DEF Sound, EntitiesOnly

\* Replacing the references of the touched sources alone leaves the whole index
\* as a rebuild would.
LEMMA SourcesAreRebuilt ==
    ASSUME Consistent, NEW stored, NEW touched, EntitiesOnly(stored, touched)
    PROVE  UpdateLocalReferenceSources(stored, touched) = RebuiltReferences(stored)
  <1> DEFINE Source(n, u) == n \in LiveRoots(rows) /\ u \in rows[n].members \cup {n}
             Out(content, n, u, entry) ==
                 \E ref \in OutgoingReferences(u, content[u]) : entry = <<n, ref>>
  <1>1. ASSUME NEW content, NEW n, NEW u, NEW entry, Out(content, n, u, entry)
        PROVE  entry[1] = n /\ entry[2][1] = u
    BY <1>1 DEF OutgoingReferences
  <1>2. \A entry : entry \in references <=>
            \E n, u : Source(n, u) /\ Out(rows, n, u, entry)
    BY DEF Consistent, RebuiltReferences, NetworkReferences, HydraulicReferences
  <1>3. \A entry : entry \in RebuiltReferences(stored) <=>
            \E n, u : Source(n, u) /\ Out(stored, n, u, entry)
    <2>1. /\ LiveRoots(stored) = LiveRoots(rows)
          /\ \A n \in LiveRoots(rows) : stored[n] = rows[n]
      BY EntityEditsKeepLists
    <2> QED
      BY <2>1 DEF RebuiltReferences, NetworkReferences, HydraulicReferences
  <1>4. \A entry : entry \in UpdateLocalReferenceSources(stored, touched) <=>
            \/ /\ entry \in references
               /\ ~(entry[2][1] \in touched /\ members[entry[2][1]] = entry[1])
            \/ \E u \in touched : Out(stored, members[u], u, entry)
    BY DEF UpdateLocalReferenceSources
  <1>5. ASSUME NEW n, NEW u, Source(n, u)
        PROVE  u \in touched <=> u \in touched /\ members[u] = n
    BY <1>5 DEF EntitiesOnly, Consistent, Tracks, LiveRoots
  <1>6. ASSUME NEW u \in touched
        PROVE  Source(members[u], u)
    BY DEF EntitiesOnly, Consistent, Tracks
  <1>7. ASSUME NEW n, NEW u, Source(n, u), u \notin touched
        PROVE  \A entry : Out(rows, n, u, entry) <=> Out(stored, n, u, entry)
    <2>1. u \in Uuid
      BY <1>7, SoundMembers DEF Consistent
    <2>2. stored[u] = rows[u]
      BY <1>7, <2>1 DEF EntitiesOnly
    <2> QED
      BY <2>2
  <1> HIDE DEF Source, Out
  <1>8. ASSUME NEW entry
        PROVE  entry \in UpdateLocalReferenceSources(stored, touched)
                  <=> entry \in RebuiltReferences(stored)
    <2>1. ASSUME entry \in UpdateLocalReferenceSources(stored, touched)
          PROVE  entry \in RebuiltReferences(stored)
      BY ONLY <1>1, <1>2, <1>3, <1>4, <1>5, <1>6, <1>7, <2>1
    <2>2. ASSUME NEW n, NEW u, Source(n, u), Out(stored, n, u, entry)
          PROVE  entry \in UpdateLocalReferenceSources(stored, touched)
      <3>1. CASE u \in touched
        BY ONLY <1>4, <1>5, <2>2, <3>1
      <3>2. CASE u \notin touched
        BY ONLY <1>1, <1>2, <1>4, <1>7, <2>2, <3>2
      <3> QED
        BY <3>1, <3>2
    <2> QED
      BY ONLY <1>3, <2>1, <2>2
  <1> QED
    BY <1>8

-----------------------------------------------------------------------------
(* The steps.                                                              *)

\* What is to be shown of a step that leaves the rows stored.
Kept(stored) ==
    /\ Sound(stored)
    /\ Tracks(members', stored)
    /\ references' = RebuiltReferences(stored)

LEMMA KeptIsConsistent ==
    ASSUME NEW stored, rows' = stored, Kept(stored)
    PROVE  Consistent'
  BY DEF Kept, Consistent

\* Whichever way validateTouchedHydraulicNetworks accepts an edit.
LEMMA AcceptedEdits ==
    ASSUME Consistent, NEW stored, NEW prior, NEW touched,
           stored \in [Uuid -> Stored], touched \subseteq Uuid,
           \A u \in Uuid \ touched : stored[u] = rows[u],
           \A u \in touched : prior[u] = rows[u],
           ValidateTouchedHydraulicNetworks(stored, prior, touched)
    PROVE  Kept(stored)
  <1>1. CASE /\ Incremental(touched) /\ Skips(stored, prior, touched)
             /\ UNCHANGED <<members, references>>
    <2>1. EntitiesOnly(stored, touched)
      BY <1>1 DEF EntitiesOnly, Incremental, ChangedRoots, Skips,
                  CanSkipHydraulicRevalidation
    <2>2. /\ Sound(stored)
          /\ Tracks(members, stored)
          /\ RebuiltReferences(stored) = references
      BY <1>1, <2>1, NeutralEditsKeepAll
    <2> QED
      BY <1>1, <2>2 DEF Kept
  <1>2. CASE /\ Incremental(touched)
             /\ CheckLocalPipeAndAttachments(stored, prior, touched)
             /\ references' = UpdateLocalReferenceSources(stored, touched)
             /\ UNCHANGED members
    <2>1. EntitiesOnly(stored, touched)
      BY <1>2 DEF EntitiesOnly, Incremental, ChangedRoots,
                  CheckLocalPipeAndAttachments
    <2>2. Sound(stored) /\ Tracks(members, stored)
      BY <1>2, <2>1, LocalCheckSuffices
    <2>3. UpdateLocalReferenceSources(stored, touched) = RebuiltReferences(stored)
      BY <2>1, SourcesAreRebuilt
    <2> QED
      BY <1>2, <2>2, <2>3 DEF Kept
  <1>3. CASE /\ ValidatesFully(stored, touched)
             /\ OneOwner(stored, ChangedRoots(touched))
             /\ references' = ReplaceHydraulicReferences(stored, Affected(touched))
             /\ members' = ReplaceNetworkMembership(stored, ChangedRoots(touched))
    <2> PICK changed : changed = ChangedRoots(touched)
      OBVIOUS
    <2> PICK affected : affected = Affected(touched)
      OBVIOUS
    <2>1. \A u \in Uuid : members[u] # Null => members[u] \in Roots
      BY DEF Consistent, Tracks, LiveRoots
    <2>2. Touches(stored, touched, affected, changed)
      BY <2>1 DEF Touches, Affected, ChangedRoots
    <2>3. \A n \in affected \cap LiveRoots(stored) :
              Loads(stored, n) /\ ValidateHydraulicNetwork(stored, n)
      BY <1>3 DEF ValidatesFully, LiveRoots
    <2>4. Sound(stored)
      BY <1>3, <2>2, <2>3, FullCheckSuffices
    <2>5. ReplaceNetworkMembership(stored, changed) = RebuiltMembers(stored)
      BY <1>3, <2>2, <2>4, MembershipIsRebuilt
    <2>6. ReplaceHydraulicReferences(stored, affected) = RebuiltReferences(stored)
      BY <2>2, ReferencesAreRebuilt
    <2>7. Tracks(RebuiltMembers(stored), stored)
      BY <2>4, RebuiltTracks
    <2> QED
      BY <1>3, <2>4, <2>5, <2>6, <2>7 DEF Kept
  <1> QED
    BY <1>1, <1>2, <1>3 DEF ValidateTouchedHydraulicNetworks

\* Commits, undo and redo of groups.
LEMMA WritesKeepConsistent ==
    ASSUME Consistent, TypeOK, NEW edits, EditsOK(edits), WriteEdits(edits)
    PROVE  Consistent' /\ rows' \in [Uuid -> Stored]
  <1> PICK stored : stored = Written(edits)
    OBVIOUS
  <1> PICK prior : prior = Journaled(edits)
    OBVIOUS
  <1> PICK touched : touched = DOMAIN edits
    OBVIOUS
  <1>1. /\ ValidateTouchedHydraulicNetworks(stored, prior, touched)
        /\ rows' = stored
    BY DEF WriteEdits
  <1>2. /\ stored \in [Uuid -> Stored]
        /\ \A u \in Uuid \ touched : stored[u] = rows[u]
        /\ \A u \in touched : prior[u] = rows[u]
        /\ touched \subseteq Uuid
    BY WrittenRows DEF TypeOK, EditsOK
  <1>3. Kept(stored)
    BY <1>1, <1>2, AcceptedEdits
  <1> QED
    BY <1>1, <1>2, <1>3, KeptIsConsistent

\* The rows a save leaves: the network as it was given, and of the others none.
Saves(net, stored, touched) ==
    /\ Touches(stored, touched, {net.uuid}, {net.uuid})
    /\ \A u \in DOMAIN net.rows : stored[u] = net.rows[u]

\* Ownership is checked of every incoming UUID, by the index or by the join.
LEMMA IncomingOwners ==
    ASSUME NEW net,
           \A u \in OwnershipToCheck(net.uuid, DOMAIN net.rows) :
               members[u] \in {net.uuid, Null}
    PROVE  \A u \in DOMAIN net.rows : members[u] \in {net.uuid, Null}
  <1> PICK n : n = net.uuid
    OBVIOUS
  <1> SUFFICES ASSUME NEW u \in DOMAIN net.rows
               PROVE  members[u] \in {n, Null}
    OBVIOUS
  <1>1. CASE u \in OldIds(n) /\ members[u] = n
    BY <1>1
  <1>2. CASE ~(u \in OldIds(n) /\ members[u] = n)
    <2>1. u \in OwnershipToCheck(n, DOMAIN net.rows)
      BY <1>2 DEF OwnershipToCheck
    <2> QED
      BY <2>1
  <1> QED
    BY <1>1, <1>2

\* What a well-formed network consists of.
LEMMA IncomingRows ==
    ASSUME NEW net \in Network, WellFormed(net)
    PROVE  /\ net.uuid \in DOMAIN net.rows /\ net.uuid \in Roots
           /\ net.rows[net.uuid].members = DOMAIN net.rows \ {net.uuid}
           /\ \A u \in DOMAIN net.rows : u \in Roots => u = net.uuid
           /\ Loads(net.rows, net.uuid)
           /\ ValidateHydraulicNetwork(net.rows, net.uuid)
  <1> PICK n : n = net.uuid
    OBVIOUS
  <1> PICK given : given = net.rows
    OBVIOUS
  <1>1. /\ KindOf[n] = "network"
        /\ DOMAIN given = given[n].members \cup {n}
        /\ n \notin given[n].members
        /\ \A u \in given[n].members : KindOf[u] \in EntityKinds
        /\ ValidateHydraulicNetwork(given, n)
    BY DEF WellFormed
  <1>2. DOMAIN given \subseteq Uuid /\ \A u \in DOMAIN given : Live(given, u)
    BY InputsAreObjects
  <1>3. n \in DOMAIN given /\ n \in Roots /\ given[n].members = DOMAIN given \ {n}
    BY <1>1, <1>2 DEF Roots
  <1>4. \A u \in DOMAIN given : u \in Roots => u = n
    BY <1>1 DEF Roots, EntityKinds, Nodes
  <1>5. Loads(given, n)
    BY <1>1, <1>2 DEF Loads
  <1> QED
    BY <1>1, <1>3, <1>4, <1>5

\* A save leaves sound rows, and it is enough to replace what the indexes say of
\* the network.
LEMMA SavedNetworks ==
    ASSUME Consistent, NEW net \in Network, WellFormed(net),
           \A u \in DOMAIN net.rows : members[u] \in {net.uuid, Null},
           NEW stored, NEW touched, Saves(net, stored, touched)
    PROVE  /\ Sound(stored)
           /\ net.uuid \in LiveRoots(stored)
           /\ stored[net.uuid].members = DOMAIN net.rows \ {net.uuid}
           /\ OneOwner(stored, {net.uuid})
           /\ NetworkReferences(stored, net.uuid) = NetworkReferences(net.rows, net.uuid)
           /\ Tracks(ReplaceNetworkMembership(stored, {net.uuid}), stored)
           /\ ReplaceHydraulicReferences(stored, {net.uuid}) = RebuiltReferences(stored)
  <1> PICK n : n = net.uuid
    OBVIOUS
  <1> PICK given : given = net.rows
    OBVIOUS
  <1>1. /\ n \in DOMAIN given /\ n \in Roots
        /\ given[n].members = DOMAIN given \ {n}
        /\ Loads(given, n) /\ ValidateHydraulicNetwork(given, n)
    BY IncomingRows
  <1>2. Agree(given, stored, n)
    BY <1>1 DEF Agree, Saves
  <1>3. /\ Loads(stored, n) /\ ValidateHydraulicNetwork(stored, n)
        /\ stored[n].members = given[n].members
        /\ NetworkReferences(stored, n) = NetworkReferences(given, n)
    BY <1>1, <1>2, AgreeingReferences, AgreeingValidity
  <1>4. n \in LiveRoots(stored)
    BY <1>1, <1>3 DEF LiveRoots, Loads
  <1>5. NewMembers(stored, n) = DOMAIN given \ {n}
    BY <1>1, <1>3 DEF NewMembers, Loads
  <1> PICK changed : changed = {n}
    OBVIOUS
  <1>6. OneOwner(stored, changed)
    BY <1>5 DEF OneOwner
  <1>7. Touches(stored, touched, changed, changed)
    BY DEF Saves
  <1>8. Sound(stored)
    BY <1>3, <1>6, <1>7, FullCheckSuffices
  <1>9. ReplaceNetworkMembership(stored, changed) = RebuiltMembers(stored)
    BY <1>6, <1>7, <1>8, MembershipIsRebuilt
  <1>10. Tracks(ReplaceNetworkMembership(stored, changed), stored)
    BY <1>8, <1>9, RebuiltTracks
  <1>11. ReplaceHydraulicReferences(stored, changed) = RebuiltReferences(stored)
    BY <1>7, ReferencesAreRebuilt
  <1> QED
    BY <1>1, <1>3, <1>4, <1>6, <1>8, <1>10, <1>11

\* A network under whose UUIDs nothing is stored.
LEMMA FreshSaves ==
    ASSUME Consistent, TypeOK, NEW net \in Network, WellFormed(net),
           \A u \in DOMAIN net.rows : members[u] \in {net.uuid, Null},
           FreshNetwork(net),
           InsertFreshNetworkObjects(net),
           InsertFreshNetworkMembership(net),
           InsertFreshHydraulicReferences(net)
    PROVE  Consistent' /\ rows' \in [Uuid -> Stored]
  <1> PICK n : n = net.uuid
    OBVIOUS
  <1> PICK given : given = net.rows
    OBVIOUS
  <1> PICK stored : stored = Written(given)
    OBVIOUS
  <1>1. EditsOK(given)
    BY GivenNetworks
  <1>2. /\ stored \in [Uuid -> Stored]
        /\ \A u \in Uuid \ DOMAIN given : stored[u] = rows[u]
        /\ \A u \in DOMAIN given : stored[u] = given[u]
        /\ DOMAIN given \subseteq Uuid
    BY <1>1, WrittenRows DEF TypeOK, EditsOK
  <1>3. /\ n \in DOMAIN given /\ n \in Roots
        /\ \A u \in DOMAIN given : u \in Roots => u = n
    BY IncomingRows
  <1>4. Saves(net, stored, DOMAIN given)
    <2>1. Touches(stored, DOMAIN given, {n}, {n})
      BY <1>2, <1>3 DEF Touches
    <2> QED
      BY <1>2, <2>1 DEF Saves
  <1>5. /\ Sound(stored)
        /\ n \in LiveRoots(stored)
        /\ stored[n].members = DOMAIN given \ {n}
        /\ NetworkReferences(stored, n) = NetworkReferences(given, n)
        /\ Tracks(ReplaceNetworkMembership(stored, {n}), stored)
        /\ ReplaceHydraulicReferences(stored, {n}) = RebuiltReferences(stored)
    BY <1>4, SavedNetworks
  <1>6. n \notin LiveRoots(rows)
    <2>1. n \notin Existing(DOMAIN given)
      BY DEF FreshNetwork
    <2> QED
      BY <1>3, <2>1 DEF Existing, LiveRoots, Live
  <1>7. members' = ReplaceNetworkMembership(stored, {n})
    <2>1. members' = [u \in Uuid |-> IF u \in DOMAIN given \ {n} THEN n ELSE members[u]]
      BY DEF InsertFreshNetworkMembership
    <2>2. NewMembers(stored, n) = DOMAIN given \ {n}
      BY <1>5 DEF NewMembers, LiveRoots
    <2>3. \A u \in Uuid : members[u] # n
      <3>1. n # Null
        BY <1>2, <1>3, NullIsNoUuid
      <3> QED
        BY <1>6, <3>1 DEF Consistent, Tracks
    <2>4. ASSUME NEW u \in Uuid
          PROVE  (IF \E m \in {n} : u \in NewMembers(stored, m)
                  THEN CHOOSE m \in {n} : u \in NewMembers(stored, m)
                  ELSE IF members[u] \in {n} THEN Null ELSE members[u])
                     = (IF u \in DOMAIN given \ {n} THEN n ELSE members[u])
      <3>1. CASE u \in DOMAIN given \ {n}
        BY <2>2, <3>1
      <3>2. CASE u \notin DOMAIN given \ {n}
        BY <2>2, <2>3, <3>2
      <3> QED
        BY <3>1, <3>2
    <2> QED
      BY <2>1, <2>4 DEF ReplaceNetworkMembership
  <1>8. references' = ReplaceHydraulicReferences(stored, {n})
    <2>1. references' = references \cup NetworkReferences(stored, n)
      BY <1>5 DEF InsertFreshHydraulicReferences
    <2>2. \A entry \in references : entry[1] # n
      <3>1. \A entry \in references : entry[1] \in LiveRoots(rows)
        BY DEF Consistent, RebuiltReferences, NetworkReferences
      <3> QED
        BY <1>6, <3>1
    <2>3. {n} \cap LiveRoots(stored) = {n}
      BY <1>5
    <2> QED
      BY <2>1, <2>2, <2>3 DEF ReplaceHydraulicReferences
  <1>9. rows' = stored
    BY DEF InsertFreshNetworkObjects
  <1>10. Kept(stored)
    BY <1>5, <1>7, <1>8 DEF Kept
  <1> QED
    BY <1>2, <1>9, <1>10, KeptIsConsistent

\* What an update edits.
LEMMA SavingEditsOK ==
    ASSUME Consistent, NEW net \in Network, WellFormed(net)
    PROVE  /\ EditsOK(SavingEdits(net))
           /\ DOMAIN SavingEdits(net) \subseteq DOMAIN net.rows \cup OldIds(net.uuid)
           /\ \A u \in DOMAIN net.rows : Written(SavingEdits(net))[u] = net.rows[u]
  <1> PICK n : n = net.uuid
    OBVIOUS
  <1> PICK given : given = net.rows
    OBVIOUS
  <1> PICK edits : edits = SavingEdits(net)
    OBVIOUS
  <1>1. /\ DOMAIN edits = {v \in DOMAIN given : rows[v] # given[v]}
                             \cup (OldIds(n) \ DOMAIN given)
        /\ \A u \in DOMAIN edits :
              edits[u] = IF u \in DOMAIN given THEN given[u] ELSE Gone
    BY DEF SavingEdits
  <1>2. n \in Roots
    BY IncomingRows
  <1>3. OldIds(n) \subseteq Uuid
    BY <1>2, SoundMembers DEF OldIds, NewMembers, LiveRoots, Consistent
  <1>4. DOMAIN given \subseteq Uuid /\ \A u \in DOMAIN given : given[u] \in Stored
    BY GivenNetworks DEF EditsOK
  <1>5. EditsOK(edits)
    BY <1>1, <1>3, <1>4 DEF EditsOK, Stored
  <1>6. \A u \in DOMAIN given : Written(edits)[u] = given[u]
    BY <1>1, <1>4 DEF Written
  <1> QED
    BY <1>1, <1>5, <1>6

\* A network of which something is stored.
LEMMA UpdatingSaves ==
    ASSUME Consistent, TypeOK, NEW net \in Network, WellFormed(net),
           \A u \in DOMAIN net.rows : members[u] \in {net.uuid, Null},
           UpdateNetwork(net)
    PROVE  Consistent' /\ rows' \in [Uuid -> Stored]
  <1> PICK n : n = net.uuid
    OBVIOUS
  <1> PICK given : given = net.rows
    OBVIOUS
  <1> PICK edits : edits = SavingEdits(net)
    OBVIOUS
  <1> PICK stored : stored = Written(edits)
    OBVIOUS
  <1>1. /\ EditsOK(edits)
        /\ DOMAIN edits \subseteq DOMAIN given \cup OldIds(n)
        /\ \A u \in DOMAIN given : stored[u] = given[u]
    BY SavingEditsOK
  <1>2. /\ stored \in [Uuid -> Stored]
        /\ \A u \in Uuid \ DOMAIN edits : stored[u] = rows[u]
        /\ DOMAIN edits \subseteq Uuid
    BY <1>1, WrittenRows DEF TypeOK, EditsOK
  <1>3. /\ n \in DOMAIN given /\ n \in Roots
        /\ \A u \in DOMAIN given : u \in Roots => u = n
    BY IncomingRows
  <1>4. \A u \in OldIds(n) : u \in Uuid /\ u \notin Roots /\ members[u] = n
    <2>1. \A u \in OldIds(n) : n \in LiveRoots(rows) /\ u \in rows[n].members
      BY <1>3 DEF OldIds, NewMembers, LiveRoots
    <2> QED
      BY <2>1, SoundMembers DEF Consistent, Tracks
  <1>5. Saves(net, stored, DOMAIN edits)
    <2>1. Touches(stored, DOMAIN edits, {n}, {n})
      BY <1>1, <1>2, <1>3, <1>4 DEF Touches
    <2> QED
      BY <1>1, <2>1 DEF Saves
  <1>6. /\ Sound(stored)
        /\ n \in LiveRoots(stored)
        /\ Tracks(ReplaceNetworkMembership(stored, {n}), stored)
        /\ ReplaceHydraulicReferences(stored, {n}) = RebuiltReferences(stored)
    BY <1>5, SavedNetworks
  <1>7. /\ rows' = stored
        /\ references' = ReplaceHydraulicReferences(stored, {n})
        /\ \/ OldIds(n) = stored[n].members /\ UNCHANGED members
           \/ members' = ReplaceNetworkMembership(stored, {n})
    BY DEF UpdateNetwork
  <1>8. ASSUME OldIds(n) = stored[n].members
        PROVE  Tracks(members, stored)
    <2>1. NewMembers(stored, n) = OldIds(n)
      BY <1>6, <1>8 DEF NewMembers, LiveRoots
    <2>2. \A u \in Uuid : members[u] = n => u \in OldIds(n)
      <3>1. n # Null
        BY <1>3, NullIsNoUuid DEF Roots
      <3> QED
        BY <3>1 DEF Consistent, Tracks, OldIds, NewMembers, LiveRoots
    <2>3. ASSUME NEW u \in Uuid
          PROVE  (IF \E m \in {n} : u \in NewMembers(stored, m)
                  THEN CHOOSE m \in {n} : u \in NewMembers(stored, m)
                  ELSE IF members[u] \in {n} THEN Null ELSE members[u]) = members[u]
      <3>1. CASE u \in OldIds(n)
        BY <1>4, <2>1, <3>1
      <3>2. CASE u \notin OldIds(n)
        BY <2>1, <2>2, <3>2
      <3> QED
        BY <3>1, <3>2
    <2>4. members \in [Uuid -> Uuid \cup {Null}]
      BY DEF Consistent, Tracks
    <2>5. ReplaceNetworkMembership(stored, {n}) = members
      BY <2>3, <2>4 DEF ReplaceNetworkMembership
    <2> QED
      BY <1>6, <2>5
  <1>9. Kept(stored)
    BY <1>6, <1>7, <1>8 DEF Kept
  <1> QED
    BY <1>2, <1>7, <1>9, KeptIsConsistent

-----------------------------------------------------------------------------
(* The invariant.                                                          *)

\* The two properties are inductive together: the shortcuts trust the indexes,
\* and what the indexes record is only worth trusting of valid networks.  The
\* types say that the groups on the stacks restore what was stored.
NetworkInvariant == TypeOK /\ Consistent

LEMMA InitNetworkInvariant == Init => NetworkInvariant
  <1> SUFFICES ASSUME Init
               PROVE  NetworkInvariant
    OBVIOUS
  <1>1. rows \in [Uuid -> Stored]
    <2>1. \A u \in Uuid : rows[u] \in Stored
      BY DEF Init, Stored
    <2>2. rows = [u \in Uuid |-> rows[u]]
      BY InputsAreObjects DEF Init
    <2> QED
      BY <2>1, <2>2
  <1>2. TypeOK
    BY <1>1 DEF Init, TypeOK
  <1>3. Sound(rows)
    BY <1>1, ImportsAreValid DEF Init, Sound
  <1> QED
    BY <1>2, <1>3, RebuiltTracks DEF Init, Consistent, NetworkInvariant

\* The stacks keep groups of stored rows.
LEMMA StacksKeepTypes ==
    ASSUME NetworkInvariant, [Next]_hydraulicVars
    PROVE  applied' \in Seq(Group) /\ undone' \in Seq(Group)
  <1> USE DEF NetworkInvariant, TypeOK
  <1>1. ASSUME NEW net \in Network, SaveHydraulicNetwork(net)
        PROVE  applied' \in Seq(Group) /\ undone' \in Seq(Group)
    <2>1. EditsOK(net.rows) /\ EditsOK(SavingEdits(net))
      BY <1>1, GivenNetworks, SavingEditsOK DEF SaveHydraulicNetwork
    <2>2. GroupOf(net.rows) \in Group /\ GroupOf(SavingEdits(net)) \in Group
      BY <2>1, WrittenRows
    <2>3. /\ \/ applied' = Append(applied, GroupOf(net.rows))
             \/ applied' = Append(applied, GroupOf(SavingEdits(net)))
          /\ undone' = <<>>
      BY <1>1 DEF SaveHydraulicNetwork, InsertFreshNetworkObjects, UpdateNetwork
    <2>4. applied \in Seq(Group) /\ <<>> \in Seq(Group)
      OBVIOUS
    <2> QED
      BY ONLY <2>2, <2>3, <2>4
  <1>2. ASSUME NEW edits \in Edits, CommitObjectGroup(edits)
        PROVE  applied' \in Seq(Group) /\ undone' \in Seq(Group)
    <2>1. GroupOf(edits) \in Group
      BY GivenEdits, WrittenRows
    <2> QED
      BY <1>2, <2>1 DEF CommitObjectGroup
  <1>3. CASE UndoObjectGroup
    <2>1. Last(applied) \in Group /\ Butlast(applied) \in Seq(Group)
      BY <1>3, StackTops DEF UndoObjectGroup
    <2> QED
      BY <1>3, <2>1 DEF UndoObjectGroup
  <1>4. CASE RedoObjectGroup
    <2>1. Last(undone) \in Group /\ Butlast(undone) \in Seq(Group)
      BY <1>4, StackTops DEF RedoObjectGroup
    <2> QED
      BY <1>4, <2>1 DEF RedoObjectGroup
  <1>5. CASE Finalize \/ CreateBranch \/ UNCHANGED hydraulicVars
    <2>1. \/ applied' = <<>> /\ undone' = <<>>
          \/ applied' = applied /\ undone' = undone
      BY <1>5 DEF Finalize, CreateBranch, hydraulicVars
    <2>2. /\ <<>> \in Seq(Group)
          /\ applied \in Seq(Group) /\ undone \in Seq(Group)
      OBVIOUS
    <2> QED
      BY ONLY <2>1, <2>2
  <1> QED
    <2> DEFINE Conclusion == applied' \in Seq(Group) /\ undone' \in Seq(Group)
    <2>1. /\ \A net \in Network : SaveHydraulicNetwork(net) => Conclusion
          /\ \A edits \in Edits : CommitObjectGroup(edits) => Conclusion
      BY <1>1, <1>2
    <2> HIDE DEF Conclusion
    <2>2. \/ \E net \in Network : SaveHydraulicNetwork(net)
          \/ \E edits \in Edits : CommitObjectGroup(edits)
          \/ UndoObjectGroup \/ RedoObjectGroup
          \/ Finalize \/ CreateBranch \/ UNCHANGED hydraulicVars
      BY DEF Next
    <2>3. Conclusion
      BY <1>3, <1>4, <1>5, <2>1, <2>2 DEF Conclusion
    <2> QED
      BY <2>3 DEF Conclusion

\* Every step keeps the indexes and the networks.
LEMMA StepsKeepConsistent ==
    ASSUME NetworkInvariant, [Next]_hydraulicVars
    PROVE  Consistent' /\ rows' \in [Uuid -> Stored]
  <1>1. Consistent /\ TypeOK
    BY DEF NetworkInvariant
  <1>2. ASSUME NEW net \in Network, SaveHydraulicNetwork(net)
        PROVE  Consistent' /\ rows' \in [Uuid -> Stored]
    <2>1. WellFormed(net)
      BY <1>2 DEF SaveHydraulicNetwork
    <2>2. \A u \in DOMAIN net.rows : members[u] \in {net.uuid, Null}
      BY <1>2, IncomingOwners DEF SaveHydraulicNetwork
    <2>3. CASE UpdateNetwork(net)
      BY <1>1, <2>1, <2>2, <2>3, UpdatingSaves
    <2>4. CASE /\ FreshNetwork(net)
               /\ InsertFreshNetworkObjects(net)
               /\ InsertFreshNetworkMembership(net)
               /\ InsertFreshHydraulicReferences(net)
      BY <1>1, <2>1, <2>2, <2>4, FreshSaves
    <2> QED
      BY <1>2, <2>3, <2>4 DEF SaveHydraulicNetwork
  <1>3. ASSUME NEW edits \in Edits, CommitObjectGroup(edits)
        PROVE  Consistent' /\ rows' \in [Uuid -> Stored]
    BY <1>1, <1>3, GivenEdits, WritesKeepConsistent DEF CommitObjectGroup
  <1>4. CASE UndoObjectGroup
    <2>1. Last(applied) \in Group
      BY <1>1, <1>4, StackTops DEF TypeOK, UndoObjectGroup
    <2> QED
      BY <1>1, <1>4, <2>1, GroupEdits, WritesKeepConsistent DEF UndoObjectGroup
  <1>5. CASE RedoObjectGroup
    <2>1. Last(undone) \in Group
      BY <1>1, <1>5, StackTops DEF TypeOK, RedoObjectGroup
    <2> QED
      BY <1>1, <1>5, <2>1, GroupEdits, WritesKeepConsistent DEF RedoObjectGroup
  <1>6. CASE Finalize \/ CreateBranch \/ UNCHANGED hydraulicVars
    <2>1. UNCHANGED rows
      BY <1>6 DEF Finalize, CreateBranch, hydraulicVars
    <2>2. members = RebuiltMembers(rows)
      BY <1>1, OnlyOneTracks DEF Consistent
    <2>3. UNCHANGED <<members, references>>
      BY <1>1, <1>6, <2>2 DEF Finalize, CreateBranch, hydraulicVars, Consistent
    <2>4. Kept(rows)
      BY <1>1, <2>3 DEF Consistent, Kept
    <2> QED
      BY <1>1, <2>1, <2>4, KeptIsConsistent DEF TypeOK
  <1> QED
    BY <1>2, <1>3, <1>4, <1>5, <1>6 DEF Next

LEMMA NetworkInvariantHolds == Spec => []NetworkInvariant
  <1>1. NetworkInvariant /\ [Next]_hydraulicVars => NetworkInvariant'
    BY StacksKeepTypes, StepsKeepConsistent DEF NetworkInvariant, TypeOK
  <1> QED
    BY <1>1, InitNetworkInvariant, PTL DEF Spec

\* Edit by edit the indexes are kept as a new branch would compute them from the
\* same rows, and no entity is listed by two networks, for all networks, kinds
\* and references: updateLocalReferenceSource, replaceNetworkMembership and the
\* inserts of a fresh network miss nothing (model_persistence.cpp).
THEOREM IndexesAlwaysMatchRows == Spec => []IndexesMatchRows
  <1>1. NetworkInvariant => IndexesMatchRows
    BY ConsistentMeans DEF NetworkInvariant
  <1> QED
    BY <1>1, NetworkInvariantHolds, PTL

\* Whichever shortcut accepts an edit, a save, an undo or a redo, every network
\* would pass the full validation: canSkipHydraulicRevalidation and
\* checkLocalPipeAndAttachments skip nothing that matters.
THEOREM ShortcutsKeepNetworksValid == Spec => []NetworksStayValid
  <1>1. NetworkInvariant => NetworksStayValid
    BY ConsistentMeans DEF NetworkInvariant
  <1> QED
    BY <1>1, NetworkInvariantHolds, PTL
=============================================================================
