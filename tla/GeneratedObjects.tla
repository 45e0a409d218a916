-------------------------- MODULE GeneratedObjects --------------------------
(***************************************************************************)
(* The objects that the parser of Doxygen's XML makes, as their users see  *)
(* them: the methods of index.py and compound.py that look something up.   *)
(***************************************************************************)
EXTENDS Naturals, Sequences, SequencesExt

(***************************************************************************)
(* Reading an object: the characters of a string field, '' when the        *)
(* element is absent.                                                      *)
(***************************************************************************)
StringField(object, tag) ==
    LET values == object.fields[tag] IN IF values = <<>> THEN <<>> ELSE values[1].words

(***************************************************************************)
(* find: what a file holds under an id, the compound itself or the first   *)
(* member that has it; nothing when there is none.                         *)
(***************************************************************************)
HasId(object, id) == "id" \in DOMAIN object.attrs /\ object.attrs["id"] = id

FirstOf(found) == IF found = <<>> THEN <<>> ELSE <<found[1]>>

FindInSection(section, id) ==
    FirstOf(SelectSeq(section.fields["memberdef"], LAMBDA m : HasId(m, id)))

\* A mutant: what is not in the first section is not found.
Find_FirstSection(compounddef, id) ==
    LET sections == compounddef.fields["sectiondef"]
    IN  IF HasId(compounddef, id) THEN <<compounddef>>
        ELSE IF sections = <<>> THEN <<>> ELSE FindInSection(sections[1], id)

Find(compounddef, id) ==
    LET sections == compounddef.fields["sectiondef"]
    IN  IF HasId(compounddef, id) THEN <<compounddef>>
        ELSE FirstOf(FlattenSeq([i \in 1..Len(sections) |-> FindInSection(sections[i], id)]))

(***************************************************************************)
(* find_compounds_and_members: the entries of the index that match, or     *)
(* that have members that match, with these.  What matches is left to the  *)
(* caller: here, an element that has all the attributes in details.        *)
(***************************************************************************)
Matches(details, node) ==
    \A a \in DOMAIN details : a \in DOMAIN node.attrs /\ node.attrs[a] = details[a]

find_members(compound, details) ==
    SelectSeq(compound.fields["member"], LAMBDA m : Matches(details, m))

find_compounds_and_members(index, details) ==
    LET kept == SelectSeq(index.fields["compound"],
                          LAMBDA c : find_members(c, details) # <<>> \/ Matches(details, c))
    IN  [i \in 1..Len(kept) |->
           [compound |-> kept[i], members |-> find_members(kept[i], details)]]

=============================================================================
