-------------------------- MODULE MCCommandReplay --------------------------
EXTENDS CommandReplay, FiniteSetsExt

CONSTANTS
    Other,      \* a second spelling, valid in exactly one of the zones
    OtherZone   \* that zone

MCFits(v, z) == v = z \/ (v = Other /\ z = OtherZone)

\* The leaves a client issues; those with a restoration come from an inverse.
IssuedLeaf == {leaf \in Leaf : leaf.op = "settings" => leaf.restored = <<>>}

DomainLeaf == {leaf \in Leaf : IsDomain(leaf)}

EntityLeaf == {leaf \in IssuedLeaf : leaf.key \in Record \cup Shift \cup Setting}

\* Batches of up to three leaves, batches nested at either end, and runs of
\* four domain commands on a record, which ChunkLimit and InverseLimit cut three times.
MCCommand ==
    IssuedLeaf \cup {Batch(s) : s \in SeqOf(IssuedLeaf, 3)}
         \cup {Batch(<<Batch(<<a, b>>), c>>) : a, b, c \in EntityLeaf}
         \cup {Batch(<<a, Batch(<<b, c>>)>>) : a, b, c \in EntityLeaf}
         \cup {Batch(<<a, b, c, d>>) : a, b, c, d \in {leaf \in DomainLeaf : leaf.key \in Record}}

MCDraft == IssuedLeaf \cup {Batch(<<a, b>>) : a, b \in IssuedLeaf}

MCDerived == {<<a>> : a \in DomainLeaf}

=============================================================================
