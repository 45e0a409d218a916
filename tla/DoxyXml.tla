------------------------------- MODULE DoxyXml -------------------------------
(***************************************************************************)
(* The package doxyxml: the objects of base.py and doxyindex.py that stand *)
(* for the contents of Doxygen's XML and read it when they are first asked.*)
(*                                                                         *)
(* The objects live in a heap, since each method may make and change       *)
(* others: reading the index reads the headers and the namespaces, a group *)
(* makes the objects of what is in it.  A method is an operator from a     *)
(* heap to a result, which holds the new heap, what is returned and the    *)
(* exception raised, "" for none.  Then runs the next step with what was   *)
(* returned, AndThen without, Do with all that was returned under a name   *)
(* before; after an exception they do not, and what was done to the heap   *)
(* before it stays.                                                        *)
(*                                                                         *)
(* A name is a sequence of words with the separators "::", "_" and " "     *)
(* among them, so that it can be split as the code splits it.              *)
(***************************************************************************)
EXTENDS GeneratedObjects, Integers, FiniteSets

CONSTANTS
    Projects,  \* what parse makes of the outputs of Doxygen, records of:
               \*   index: the object for index.xml
               \*   files: from a refid to the object for its file
               \*   malformed: the refids of files that are not well-formed
               \* a refid that is in neither has no file
    Wanted,    \* the names a client looks up
    Cats,      \* the categories it asks for
    MaxCalls   \* the calls it makes at most

(***************************************************************************)
(* What the parser and Doxygen see to: no file is well-formed and not; the *)
(* fields that collect are lists; in the index each compound has a refid   *)
(* of its own; what is a group in one group is not a class in another.     *)
(***************************************************************************)
ASSUME ProjectsAssumption ==
    \A p \in Projects :
      LET entries      == p.index.fields["compound"]
          Field(r, tag) == p.files[r].fields["compounddef"][1].fields[tag]
      IN  /\ p.malformed \cap DOMAIN p.files = {}
          /\ Len(entries) \in Nat
          /\ \A i, j \in 1..Len(entries) :
                entries[i].attrs["refid"] = entries[j].attrs["refid"] => i = j
          /\ \A r \in DOMAIN p.files :
                /\ Len(Field(r, "sectiondef")) \in Nat
                /\ \A i \in 1..Len(Field(r, "sectiondef")) :
                      LET memberdefs == Field(r, "sectiondef")[i].fields["memberdef"]
                      IN  memberdefs \in Seq({memberdefs[j] : j \in DOMAIN memberdefs})
                /\ Len(Field(r, "innergroup")) \in Nat
                /\ Len(Field(r, "innerclass")) \in Nat
          /\ \A r, s \in DOMAIN p.files :
                \A i \in 1..Len(Field(r, "innergroup")), j \in 1..Len(Field(s, "innerclass")) :
                  Field(r, "innergroup")[i].attrs["refid"]
                    # Field(s, "innerclass")[j].attrs["refid"]

ASSUME WantedAssumption == Wanted \subseteq Seq(STRING)

VARIABLES
    project,   \* the output that is read
    heap,      \* the objects of the process that reads it
    asked      \* the calls a client has made

docVars == <<project, heap, asked>>

(***************************************************************************)
(* The compounds of the index, what a file is about, and its memberdefs.   *)
(***************************************************************************)
IndexEntries == project.index.fields["compound"]

FileOf(refid) == project.files[refid].fields["compounddef"][1]

RefidOf(element) == element.attrs["refid"]

MemberdefsIn(sections) ==
    FlattenSeq([i \in 1..Len(sections) |-> sections[i].fields["memberdef"]])

MemberdefsOf(refid) == MemberdefsIn(FileOf(refid).fields["sectiondef"])

(***************************************************************************)
(* An object.  source says which element it was made from: an entry of the *)
(* index, a memberdef of a file, or none when it was made from a refid.    *)
(* data holds the keys of _data, whose values are drawn from the element   *)
(* when they are used; cats and dicts are the caches _in_category and      *)
(* _dict_members.                                                          *)
(***************************************************************************)
NoSource == [kind |-> "none", refid |-> "", k |-> 0]
FromIndex(i) == [kind |-> "index", refid |-> "", k |-> i]
FromFile(refid, k) == [kind |-> "memberdef", refid |-> refid, k |-> k]

BaseInit(cls, source, refid) ==
    [cls |-> cls, source |-> source, refid |-> refid,
     parsed |-> FALSE, error |-> FALSE, retrieved |-> FALSE,
     members |-> <<>>, data |-> {},
     cats |-> [c \in {} |-> <<>>], dicts |-> [c \in {} |-> <<>>]]

Top == 1
NONE == 0
DUPLICATE == -1

(***************************************************************************)
(* A process begins with a DoxyIndex of the directory, not yet read.       *)
(***************************************************************************)
NewHeap ==
    [objs |-> <<BaseInit("DoxyIndex", NoSource, "")>>, refs |-> [r \in {} |-> NONE]]

Return(h, ret) == [heap |-> h, ret |-> ret, exc |-> ""]
Raise(h, exc)  == [heap |-> h, ret |-> NONE, exc |-> exc]

Then(result, Step(_, _)) ==
    IF result.exc = "" THEN Step(result.heap, result.ret) ELSE result

AndThen(result, Step(_)) ==
    IF result.exc = "" THEN Step(result.heap) ELSE result

(***************************************************************************)
(* Statements that assign local variables, one after the other:            *)
(* Do2(NoLocals(h), LAMBDA g, v : Let("x", ...), LAMBDA g, v : ...), where *)
(* v holds the variables assigned before.                                  *)
(***************************************************************************)
NoLocals(h) == Return(h, [n \in {} |-> NONE])

Let(n, result) == [result EXCEPT !.ret = n :> @]

Merge(result, v) == [result EXCEPT !.ret = @ @@ v]

Also(result, Step(_, _)) ==
    IF result.exc = "" THEN Merge(Step(result.heap, result.ret), result.ret) ELSE result

Do2(result, A(_, _), B(_, _)) == Also(Also(result, A), B)

Do4(result, A(_, _), B(_, _), C(_, _), D(_, _)) == Do2(Do2(result, A, B), C, D)

(***************************************************************************)
(* for x in list: acc = Body(heap, acc, x).  An exception ends the loop.   *)
(***************************************************************************)
Loop(h, list, acc, Body(_, _, _)) ==
    LET run[n \in 0..Len(list)] ==
          IF n = 0 THEN Return(h, acc)
          ELSE LET before == run[n - 1]
               IN  IF before.exc = "" THEN Body(before.heap, before.ret, list[n])
                   ELSE before
    IN  run[Len(list)]

\* dict[key] = value
Assign(dict, key, value) ==
    [k \in DOMAIN dict \cup {key} |-> IF k = key THEN value ELSE dict[k]]

(***************************************************************************)
(* The element an object was made from, and the one it read.               *)
(***************************************************************************)
ParseData(h, o) ==
    LET source == h.objs[o].source
    IN  IF source.kind = "index" THEN IndexEntries[source.k]
        ELSE MemberdefsOf(source.refid)[source.k]

RetrievedData(h, o) == FileOf(h.objs[o].refid)

(***************************************************************************)
(* Text: split and join, as Python's.                                      *)
(***************************************************************************)
Split(text, sep) ==
    LET bits[n \in 0..Len(text)] ==
          IF n = 0 THEN <<<<>>>>
          ELSE IF text[n] = sep THEN Append(bits[n - 1], <<>>)
          ELSE [bits[n - 1] EXCEPT ![Len(bits[n - 1])] = Append(@, text[n])]
    IN  bits[Len(text)]

Join(bits, sep) ==
    IF bits = <<>> THEN <<>>
    ELSE FoldLeft(LAMBDA text, bit : text \o <<sep>> \o bit, Head(bits), Tail(bits))

(***************************************************************************)
(* mem_classes and can_parse: the class for an element of a kind, in the   *)
(* order in which the classes are tried.  "" when there is none.           *)
(***************************************************************************)
ClassOfKind ==
    [function |-> "DoxyFunction", class |-> "DoxyClass", file |-> "DoxyFile",
     namespace |-> "DoxyNamespace", group |-> "DoxyGroup", friend |-> "DoxyFriend"]

OtherKinds ==
    {"variable", "struct", "union", "define", "typedef", "enum", "dir", "page",
     "signal", "slot", "property"}

get_cls(element) ==
    LET kind == element.attrs["kind"]
    IN  CASE kind \in DOMAIN ClassOfKind -> ClassOfKind[kind]
          [] kind \in OtherKinds         -> "DoxyOther"
          [] OTHER                       -> ""

(***************************************************************************)
(* from_refid and from_parse_data: the object that is known by the refid,  *)
(* whatever its class, or a new one that is known from then on.  A         *)
(* memberdef has an id and no refid, so each gets an object of its own.    *)
(***************************************************************************)
Allocate(h, object) ==
    [h EXCEPT !.objs = Append(@, object)]

add_ref(h, refid) == [h EXCEPT !.refs = Assign(@, refid, Len(h.objs))]

from_refid(h, cls, refid) ==
    IF refid \in DOMAIN h.refs THEN Return(h, h.refs[refid])
    ELSE LET g == add_ref(Allocate(h, BaseInit(cls, NoSource, refid)), refid)
         IN  Return(g, Len(g.objs))

from_parse_data(h, cls, element, source) ==
    IF source.kind = "index"
    THEN LET refid == RefidOf(element)
         IN  IF refid \in DOMAIN h.refs THEN Return(h, h.refs[refid])
             ELSE LET g == add_ref(Allocate(h, BaseInit(cls, source, refid)), refid)
                  IN  Return(g, Len(g.objs))
    ELSE LET g == Allocate(h, BaseInit(cls, source, ""))
         IN  Return(g, Len(g.objs))

(***************************************************************************)
(* convert_mem: an element of a kind that no class takes is reported and   *)
(* becomes None.                                                           *)
(***************************************************************************)
convert_mem(h, element, source) ==
    IF get_cls(element) = "" THEN Return(h, NONE)
    ELSE from_parse_data(h, get_cls(element), element, source)

AddMember(h, o, m) == [h EXCEPT !.objs[o].members = Append(@, m)]

AddConverted(result, o) == Return(AddMember(result.heap, o, result.ret), NONE)

(***************************************************************************)
(* retrieve_data: malformed XML sets _error; a file that is not there is   *)
(* an exception that nobody handles.                                       *)
(***************************************************************************)
retrieve_data(h, o) ==
    LET refid == h.objs[o].refid
    IN  CASE refid \in DOMAIN project.files ->
               Return([h EXCEPT !.objs[o].retrieved = TRUE], NONE)
          [] refid \in project.malformed ->
               Return([h EXCEPT !.objs[o].error = TRUE], NONE)
          [] OTHER -> Raise(h, "FileNotFoundError")

(***************************************************************************)
(* process_memberdefs: all sections in one list, and of several members    *)
(* of one name the first only, so that of overloaded functions one is      *)
(* kept.  (The object of a member that is not kept is not made here: a     *)
(* memberdef has no refid, so that nothing would refer to it.)             *)
(***************************************************************************)
AddMemberdef(h, o, seen, k) ==
    LET refid == h.objs[o].refid
        def   == MemberdefsOf(refid)[k]
        n     == StringField(def, "name")
    IN  IF n \in seen THEN Return(h, seen)
        ELSE Return(AddConverted(convert_mem(h, def, FromFile(refid, k)), o).heap,
                    seen \cup {n})

process_memberdefs(h, o) ==
    AndThen(Loop(h, [k \in 1..Len(MemberdefsOf(h.objs[o].refid)) |-> k], {},
                 LAMBDA g, seen, k : AddMemberdef(g, o, seen, k)),
            LAMBDA g : Return(g, NONE))

(***************************************************************************)
(* _parse of each class but the index.  _parsed is set first: what an      *)
(* exception interrupts is never done again.  The file of a header or of a *)
(* namespace is used before _error is tested, the file of a class or of a  *)
(* group after it.                                                         *)
(***************************************************************************)
Descriptions == {"brief_description", "detailed_description"}

SetData(h, o, keys) == [h EXCEPT !.objs[o].data = @ \cup keys]

ParseFunction(h, o) == Return(SetData(h, o, Descriptions \cup {"params"}), NONE)

ParseClass(h, o) ==
    AndThen(retrieve_data(h, o), LAMBDA g :
      IF g.objs[o].error THEN Return(g, NONE)
      ELSE process_memberdefs(SetData(g, o, Descriptions \cup {"params"}), o))

ParseFile(h, o) ==
    AndThen(retrieve_data(h, o), LAMBDA g :
      IF g.objs[o].error THEN Raise(g, "AttributeError")
      ELSE process_memberdefs(SetData(g, o, Descriptions), o))

ParseNamespace(h, o) ==
    AndThen(retrieve_data(h, o), LAMBDA g :
      IF g.objs[o].error THEN Raise(g, "AttributeError")
      ELSE process_memberdefs(SetData(g, o, Descriptions), o))

InnerObjects(h, o, tag, cls) ==
    Loop(h, RetrievedData(h, o).fields[tag], NONE, LAMBDA g, none, ref :
      AddConverted(from_refid(g, cls, RefidOf(ref)), o))

GroupMembers(h, o) ==
    AndThen(AndThen(InnerObjects(h, o, "innergroup", "DoxyGroup"),
                    LAMBDA g : InnerObjects(g, o, "innerclass", "DoxyClass")),
            LAMBDA g : process_memberdefs(g, o))

ParseGroup(h, o) ==
    AndThen(retrieve_data(h, o), LAMBDA g :
      IF g.objs[o].error THEN Return(g, NONE)
      ELSE GroupMembers(SetData(g, o, {"title"}), o))

ParseCompound(h, o) ==
    LET g == [h EXCEPT !.objs[o].parsed = TRUE]
    IN  CASE h.objs[o].cls = "DoxyFunction"  -> ParseFunction(g, o)
          [] h.objs[o].cls = "DoxyClass"     -> ParseClass(g, o)
          [] h.objs[o].cls = "DoxyFile"      -> ParseFile(g, o)
          [] h.objs[o].cls = "DoxyNamespace" -> ParseNamespace(g, o)
          [] h.objs[o].cls = "DoxyGroup"     -> ParseGroup(g, o)
          [] OTHER                           -> Return(g, NONE)

(***************************************************************************)
(* check_parsed, confirm_no_error and members of an object that is not the *)
(* index.                                                                  *)
(***************************************************************************)
CheckCompound(h, o) ==
    IF h.objs[o].parsed THEN Return(h, NONE) ELSE ParseCompound(h, o)

Confirmed(result, o) ==
    AndThen(result, LAMBDA g :
      IF g.objs[o].error THEN Raise(g, "ParsingError") ELSE Return(g, NONE))

MembersOf(result, o) ==
    AndThen(Confirmed(result, o), LAMBDA g : Return(g, g.objs[o].members))

(***************************************************************************)
(* DoxyIndex._parse: an object for each entry; of the header files and     *)
(* the namespaces the members come with it, of other files nothing.  The   *)
(* index counts as parsed from the beginning, so that none of this comes   *)
(* back to it.                                                             *)
(***************************************************************************)
WithMembers(h, m) ==
    Then(MembersOf(CheckCompound(h, m), m), LAMBDA g, mems :
      Return([g EXCEPT !.objs[Top].members = @ \o mems \o <<m>>], NONE))

IsHeaderFile(element) ==
    get_cls(element) = "DoxyFile" /\ Last(StringField(element, "name")) = ".h"

ReadAtOnce(element) == get_cls(element) = "DoxyNamespace" \/ IsHeaderFile(element)

AddEntry(h, m, element) ==
    CASE get_cls(element) = "" -> Raise(h, "Exception")
      [] get_cls(element) = "DoxyFile" /\ ~IsHeaderFile(element) -> Return(h, NONE)
      [] ReadAtOnce(element) -> WithMembers(h, m)
      [] OTHER -> Return(AddMember(h, Top, m), NONE)

IndexEntry(h, none, i) ==
    Then(convert_mem(h, IndexEntries[i], FromIndex(i)), LAMBDA g, converted :
      AddEntry(g, converted, IndexEntries[i]))

ParseTop(h) ==
    Loop([h EXCEPT !.objs[Top].parsed = TRUE],
         [i \in 1..Len(IndexEntries) |-> i], NONE, IndexEntry)

check_parsed(h, o) ==
    IF o = Top /\ ~h.objs[Top].parsed THEN ParseTop(h) ELSE CheckCompound(h, o)

(***************************************************************************)
(* The methods of Base.                                                    *)
(***************************************************************************)
\* A mutant: whoever asks an object does not have it read first.
confirm_no_error_Unread(h, o) == Confirmed(Return(h, NONE), o)

confirm_no_error(h, o) == Confirmed(check_parsed(h, o), o)

error(h, o) ==
    AndThen(check_parsed(h, o), LAMBDA g : Return(g, g.objs[o].error))

members(h, o) == MembersOf(check_parsed(h, o), o)

\* A key that _parse did not come to set is a KeyError.
data(h, o, key) ==
    AndThen(confirm_no_error(h, o), LAMBDA g :
      IF key \in g.objs[o].data THEN Return(g, NONE) ELSE Raise(g, "KeyError"))

(***************************************************************************)
(* name: that of the element the object was made from.  An object made     *)
(* from a refid reads its file and looks for an attribute that the         *)
(* generated class does not have.                                          *)
(***************************************************************************)
name(h, o) ==
    CASE o = NONE -> Raise(h, "AttributeError")
      [] OTHER ->
         IF h.objs[o].source.kind # "none"
         THEN Return(h, StringField(ParseData(h, o), "name"))
         ELSE AndThen(check_parsed(h, o), LAMBDA g : Raise(g, "AttributeError"))

(***************************************************************************)
(* in_category: the members that Includes takes, looked up once.  The      *)
(* categories of this package are its classes, and ALL for cat=None.       *)
(***************************************************************************)
ALL == "None"

TakeIf(result, found, m) ==
    Then(result, LAMBDA h, included :
      Return(h, IF included THEN Append(found, m) ELSE found))

Category(h, o, cat, Includes(_, _)) ==
    Then(Loop(h, h.objs[o].members, <<>>, LAMBDA g, found, m :
           TakeIf(Includes(g, m), found, m)),
         LAMBDA g, found :
           Return([g EXCEPT !.objs[o].cats = Assign(@, cat, found)], found))

InCategoryBy(h, o, cat, Includes(_, _)) ==
    AndThen(confirm_no_error(h, o), LAMBDA g :
      CASE cat = ALL -> Return(g, g.objs[o].members)
        [] cat # ALL /\ cat \in DOMAIN g.objs[o].cats -> Return(g, g.objs[o].cats[cat])
        [] OTHER -> Category(g, o, cat, Includes))

in_category(h, o, cat) ==
    InCategoryBy(h, o, cat, LAMBDA g, m :
      Return(g, IF m = NONE THEN FALSE ELSE g.objs[m].cls = cat))

(***************************************************************************)
(* _get_dict_members: from each name to the member, or to Duplicate.       *)
(***************************************************************************)
Entered(result, dict, m) ==
    Then(result, LAMBDA h, n :
      Return(h, Assign(dict, n, IF n \in DOMAIN dict THEN DUPLICATE ELSE m)))

DictOf(h, mems) ==
    Loop(h, mems, [n \in {} |-> NONE], LAMBDA g, dict, m : Entered(name(g, m), dict, m))

MakeDict(h, o, cat) ==
    Then(Then(in_category(h, o, cat), DictOf), LAMBDA g, dict :
      Return([g EXCEPT !.objs[o].dicts = Assign(@, cat, dict)], dict))

get_dict_members(h, o, cat) ==
    AndThen(confirm_no_error(h, o), LAMBDA g :
      IF cat \in DOMAIN g.objs[o].dicts THEN Return(g, g.objs[o].dicts[cat])
      ELSE MakeDict(g, o, cat))

(***************************************************************************)
(* get_member: the name up to the first "::" is looked up here, the rest   *)
(* in the member found, if anything is left; the rest is split again where *)
(* the name was split.                                                     *)
(***************************************************************************)
LookUp(h, dict, bit) ==
    CASE bit \notin DOMAIN dict -> Raise(h, "NoSuchMember")
      [] bit \in DOMAIN dict ->
           IF dict[bit] = DUPLICATE THEN Raise(h, "Duplicate") ELSE Return(h, dict[bit])

MemberNamed(h, o, bit, cat) ==
    Then(AndThen(confirm_no_error(h, o), LAMBDA g : get_dict_members(g, o, cat)),
         LAMBDA g, dict : LookUp(g, dict, bit))

get_member(h, o, wanted, cat) ==
    LET bits == Split(wanted, "::")
    IN  Loop(h, [k \in 1..Len(bits) |-> k], o, LAMBDA g, m, k :
          IF k > 1 /\ Join(SubSeq(bits, k, Len(bits)), "::") = <<>> THEN Return(g, m)
          ELSE MemberNamed(g, m, bits[k], cat))

IsFound(result) ==
    CASE result.exc = ""             -> Return(result.heap, TRUE)
      [] result.exc = "NoSuchMember" -> Return(result.heap, FALSE)
      [] OTHER                       -> result

has_member(h, o, wanted, cat) == IsFound(get_member(h, o, wanted, cat))

(***************************************************************************)
(* A client that calls the methods of the objects it has come by, in any   *)
(* order, and goes on after an exception.  A call that only reads is not a *)
(* step.                                                                   *)
(***************************************************************************)
ClientInit ==
    /\ project \in Projects
    /\ heap = NewHeap
    /\ asked = 0

Call(result) ==
    /\ asked < MaxCalls
    /\ asked' = asked + 1
    /\ result.heap # heap
    /\ heap' = result.heap
    /\ UNCHANGED project

Objects == DOMAIN heap.objs

CallError      == \E o \in Objects : Call(error(heap, o))
CallName       == \E o \in Objects : Call(name(heap, o))
CallMembers    == \E o \in Objects : Call(members(heap, o))
CallData       == \E o \in Objects : Call(data(heap, o, "brief_description"))
CallInCategory == \E o \in Objects, cat \in Cats : Call(in_category(heap, o, cat))
CallHasMember  == \E o \in Objects, cat \in Cats, wanted \in Wanted :
                    Call(has_member(heap, o, wanted, cat))

ClientNext ==
    \/ CallError
    \/ CallName
    \/ CallMembers
    \/ CallData
    \/ CallInCategory
    \/ CallHasMember

ClientSpec == ClientInit /\ [][ClientNext]_docVars

-----------------------------------------------------------------------------
(***************************************************************************)
(* The members that an element stands for, as name and class; one of a     *)
(* kind that no class takes stands for None.                               *)
(***************************************************************************)
NoMember == [name |-> <<>>, cls |-> ""]

MemberFor(element) ==
    IF get_cls(element) = "" THEN NoMember
    ELSE [name |-> StringField(element, "name"), cls |-> get_cls(element)]

(***************************************************************************)
(* The members of a compound with a file: of each name the first.          *)
(***************************************************************************)
DefMembers(refid) ==
    LET defs     == MemberdefsOf(refid)
        First(k) == \A j \in 1..(k - 1) :
                      StringField(defs[j], "name") # StringField(defs[k], "name")
    IN  FlattenSeq([k \in 1..Len(defs) |->
          IF First(k) THEN <<MemberFor(defs[k])>> ELSE <<>>])

(***************************************************************************)
(* The entries of the index that a reader comes to: those before which     *)
(* there is none of unknown kind and no header and no namespace without a  *)
(* file.                                                                   *)
(***************************************************************************)
ClassAt(i) == get_cls(IndexEntries[i])
RefidAt(i) == RefidOf(IndexEntries[i])

Passes(i) ==
    /\ ClassAt(i) # ""
    /\ ReadAtOnce(IndexEntries[i]) => RefidAt(i) \in DOMAIN project.files

Indexed ==
    {i \in 1..Len(IndexEntries) : ClassAt(i) # "" /\ \A j \in 1..(i - 1) : Passes(j)}

(***************************************************************************)
(* What is in a group: of a compound that the index knows its name and     *)
(* class, of another no more than that it is a group or a class.           *)
(***************************************************************************)
InnerMember(refid, cls) ==
    IF \E i \in Indexed : RefidAt(i) = refid
    THEN MemberFor(IndexEntries[CHOOSE i \in Indexed : RefidAt(i) = refid])
    ELSE [name |-> <<>>, cls |-> cls]

InnerMembers(refid, tag, cls) ==
    LET inner == FileOf(refid).fields[tag]
    IN  [i \in 1..Len(inner) |-> InnerMember(RefidOf(inner[i]), cls)]

OwnMembers(cls, refid) ==
    IF cls = "DoxyGroup"
    THEN (InnerMembers(refid, "innergroup", "DoxyGroup")
            \o InnerMembers(refid, "innerclass", "DoxyClass")) \o DefMembers(refid)
    ELSE DefMembers(refid)

(***************************************************************************)
(* The members of the index.                                               *)
(***************************************************************************)
EntryMembers(i) ==
    IF ReadAtOnce(IndexEntries[i])
    THEN DefMembers(RefidAt(i)) \o <<MemberFor(IndexEntries[i])>>
    ELSE IF ClassAt(i) = "DoxyFile" THEN <<>>
    ELSE <<MemberFor(IndexEntries[i])>>

IndexMembers == FlattenSeq([i \in 1..Len(IndexEntries) |-> EntryMembers(i)])

(***************************************************************************)
(* The members that an object has.  One made from a refid has no name.     *)
(***************************************************************************)
NameFor(h, m) ==
    IF h.objs[m].source.kind = "none" THEN <<>>
    ELSE StringField(ParseData(h, m), "name")

Showing(h, m) ==
    IF m = NONE THEN NoMember ELSE [name |-> NameFor(h, m), cls |-> h.objs[m].cls]

Seen(h, o) ==
    LET mems == h.objs[o].members
    IN  [i \in 1..Len(mems) |-> Showing(h, mems[i])]

(***************************************************************************)
(* An object that has been read has the members that it should have.       *)
(***************************************************************************)
Compounds == {"DoxyClass", "DoxyFile", "DoxyNamespace", "DoxyGroup"}

MembersComplete(h, o) ==
    LET x == h.objs[o]
    IN  IF o = Top
        THEN x.parsed /\ (\A i \in 1..Len(IndexEntries) : Passes(i))
               => Seen(h, Top) = IndexMembers
        ELSE x.parsed /\ x.cls \in Compounds /\ x.refid \in DOMAIN project.files
               => Seen(h, o) = OwnMembers(x.cls, x.refid)

(***************************************************************************)
(* The caches of an object hold what would be found anew: the members of   *)
(* the category, and from each name among them the one member that has it, *)
(* or Duplicate.  (The categories of update_pydoc.py are left aside.)      *)
(***************************************************************************)
InCat(h, o, cat) ==
    LET mems == h.objs[o].members
    IN  IF cat = ALL THEN mems
        ELSE FlattenSeq([i \in 1..Len(mems) |->
               IF mems[i] # NONE /\ h.objs[mems[i]].cls = cat THEN <<mems[i]>> ELSE <<>>])

DictTrue(h, o, cat) ==
    LET found   == InCat(h, o, cat)
        dict    == h.objs[o].dicts[cat]
        Name(i) == NameFor(h, found[i])
    IN  /\ DOMAIN dict = {Name(i) : i \in 1..Len(found)}
        /\ \A i \in 1..Len(found) :
              dict[Name(i)] = IF \E j \in 1..Len(found) : j # i /\ Name(j) = Name(i)
                              THEN DUPLICATE ELSE found[i]

CachesTrue(h, o) ==
    /\ \A cat \in DOMAIN h.objs[o].cats \ {"Block", "Block2"} :
          h.objs[o].cats[cat] = InCat(h, o, cat)
    /\ \A cat \in DOMAIN h.objs[o].dicts : DictTrue(h, o, cat)

(***************************************************************************)
(* Laziness does not show: whatever was called before and in which order,  *)
(* whatever raised an exception on the way, an object that has been read   *)
(* has all its members in their order, and a cache holds what would be     *)
(* found anew.                                                             *)
(***************************************************************************)
LazinessHidden ==
    \A o \in Objects : MembersComplete(heap, o) /\ CachesTrue(heap, o)

=============================================================================
