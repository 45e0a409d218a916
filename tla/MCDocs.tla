------------------------------- MODULE MCDocs -------------------------------
(***************************************************************************)
(* What cmake runs for the Python package and its documentation: the       *)
(* documentation pipeline on small outputs of Doxygen, with a client of    *)
(* doxyxml that calls what it likes, update_pydoc.py and swig_doc.py, each *)
(* on each of the projects below; and the scripts that keep a binding in   *)
(* step with its header.                                                   *)
(***************************************************************************)
EXTENDS SwigDoc

CONSTANTS Values, MaxVersion  \* of Bindings

VARIABLES header, binding, wanted, silenced, library

bindingVars == <<header, binding, wanted, silenced, library>>

B == INSTANCE Bindings

(***************************************************************************)
(* Documents, written down briefly.                                        *)
(***************************************************************************)
None == [a \in {} |-> ""]
E(tag, attrs, kids) == [tag |-> tag, attrs |-> attrs, kids |-> kids]
T(words) == [text |-> words]
Leaf(tag, words) == E(tag, None, <<T(words)>>)
Described(tag, kids) == E(tag, None, <<E("para", None, kids)>>)
Brief(words) == Described("briefdescription", <<T(words)>>)
Blank == E("detaileddescription", None, <<>>)

Entry(kind, refid, n) ==
    E("compound", [kind |-> kind, refid |-> refid], <<Leaf("name", n)>>)
Index(entries) == E("doxygenindex", None, entries)
Section(defs) == E("sectiondef", [kind |-> "public-func"], defs)
File(kids) == E("doxygen", None, <<E("compounddef", [kind |-> "class"], kids)>>)

Member(kind, n, brief) ==
    E("memberdef", [kind |-> kind],
      <<Leaf("definition", <<"void", " ">> \o n), Leaf("name", n), Brief(brief), Blank>>)
Function(n, definition, kids, brief) ==
    E("memberdef", [kind |-> "function"],
      kids \o <<Leaf("definition", definition), Leaf("name", n), Brief(brief), Blank>>)
Param(n) == E("param", None, <<Leaf("declname", <<n>>)>>)
ParamDoc(n, words) ==
    E("parameterlist", [kind |-> "param"],
      <<E("parameteritem", None,
          <<E("parameternamelist", None, <<Leaf("parametername", <<n>>)>>),
            Described("parameterdescription", <<T(words)>>)>>)>>)

(***************************************************************************)
(* A block of today: a namespace, a header, a class with make and sptr,    *)
(* an overloaded method, a conversion operator, words in bold and in       *)
(* references, and characters that have to be escaped.                     *)
(***************************************************************************)
Enc == <<"gr", "::", "c", "::", "enc">>

Today ==
  [index |-> Index(<<Entry("class", "enc", Enc),
                     Entry("namespace", "gr", <<"gr">>),
                     Entry("file", "h", <<"enc", ".h">>),
                     Entry("file", "cc", <<"enc", ".cc">>)>>),
   files |->
     [enc |-> File(<<
        Section(<<Member("typedef", <<"sptr">>, <<>>),
                  Function(<<"make">>, <<"sptr", " ">> \o Enc \o <<"::", "make">>,
                           <<Param("level")>>, <<"makes">>),
                  Member("function", <<"work">>, <<"works">>)>>),
        Section(<<Member("function", <<"work">>, <<"overload">>),
                  Member("function", <<"operator", " ", "bool">>, <<"converts">>)>>),
        Brief(<<Quote, "zips", Backslash>>),
        Described("detaileddescription",
          <<T(<<"see">>), Leaf("ref", <<"dec">>), Leaf("bold", <<"not">>), T(<<NonAscii>>),
            ParamDoc("level", <<"effort">>)>>)>>),
      gr |-> File(<<
        Section(<<Function(<<"open">>, <<"void", " ", "gr", "::", "open">>, <<>>,
                           <<"opens">>)>>),
        Brief(<<>>), Blank>>),
      h |-> File(<<Brief(<<"header">>), Blank>>)],
   malformed |-> {}]

(***************************************************************************)
(* A block of old: a class with a make function beside it, described in    *)
(* the class, in the function and in the header; a class of std, a group   *)
(* around the class, and a class that cannot be read.                      *)
(***************************************************************************)
OldFile(makes) ==
    File(<<Section(makes), Brief(<<"about">>), Blank>>)

CMakeA == <<"c", "_", "make", "_", "a">>
MakesA == Function(CMakeA, <<"sptr", " ">> \o CMakeA, <<Param("n")>>, <<"makes">>)
ClassA ==
    File(<<Section(<<Member("function", <<"run">>, <<"runs">>)>>),
           Brief(<<"block">>),
           Described("detaileddescription", <<ParamDoc("n", <<"count">>)>>)>>)

Old ==
  [index |-> Index(<<Entry("group", "g", <<"grp">>),
                     Entry("class", "ca", <<"c", "_", "a">>),
                     Entry("class", "bad", <<"b">>),
                     Entry("class", "sv", <<"std", "::", "v">>),
                     Entry("file", "h", <<"c", "_", "a", ".h">>)>>),
   files |-> [ca |-> ClassA, h |-> OldFile(<<MakesA>>),
              sv |-> File(<<Brief(<<"vector">>), Blank>>),
              g  |-> File(<<Leaf("title", <<"blocks">>),
                            E("innerclass", [refid |-> "ca"], <<>>),
                            E("innerclass", [refid |-> "lost"], <<>>),
                            E("innergroup", [refid |-> "g2"], <<>>),
                            Brief(<<>>), Blank>>)],
   malformed |-> {"bad"}]

(***************************************************************************)
(* Docstrings that the substitution meets in the wrong way: two names that *)
(* become one key, a parenthesis, digits at the beginning.                 *)
(***************************************************************************)
PlainClass(n, words) ==
    File(<<Section(<<Member("function", n, words)>>), Brief(words), Blank>>)

Awkward ==
  [index |-> Index(<<Entry("class", "x", <<"gr", "::", "c", "::", "enc", "_", "a">>),
                     Entry("class", "y", <<"gr", "::", "c", "::", "enc">>),
                     Entry("class", "z", <<"gr", "::", "c", "::", "enc", "2">>)>>),
   files |-> [x |-> PlainClass(<<"b">>, <<"first", "(", ")">>),
              y |-> PlainClass(<<"a", "_", "b">>, <<"second">>),
              z |-> PlainClass(<<"b">>, <<"3rd", "word">>)],
   malformed |-> {}]

Digits ==
  [index |-> Index(<<Entry("class", "y", Enc)>>),
   files |-> [y |-> PlainClass(<<"b">>, <<"12-bit", "samples">>)],
   malformed |-> {}]

(***************************************************************************)
(* Output that stops the programs: a header that is malformed, a class     *)
(* whose file is missing, a kind of compound that no class takes, and      *)
(* blocks whose make function is declared as a friend only, or twice.      *)
(***************************************************************************)
BadHeader ==
  [Old EXCEPT !.malformed = {"bad", "h"},
              !.files = [r \in DOMAIN @ \ {"h"} |-> @[r]]]

MissingClass ==
  [Old EXCEPT !.files = [r \in DOMAIN @ \ {"ca"} |-> @[r]]]

UnknownKind ==
  [Old EXCEPT !.index.kids = <<@[2], @[5], Entry("concept", "k", <<"k">>), @[3]>>]

FriendOnly ==
  [Old EXCEPT !.files = [@ EXCEPT
     !.h = OldFile(<<>>),
     !.ca = File(<<Section(<<Member("friend", CMakeA, <<>>)>>), Brief(<<"block">>), Blank>>)]]

MadeTwice ==
  [Old EXCEPT !.index.kids = Append(@, Entry("file", "h2", <<"b", ".h">>)),
              !.files = ("h2" :> OldFile(<<MakesA>>)) @@ @]

(***************************************************************************)
(* Doxygen gives every compound and member an id, and lists the members of *)
(* a compound in its entry of the index.                                   *)
(***************************************************************************)
WithId(id, node) == [node EXCEPT !.attrs = ("id" :> id) @@ @]

SectionWithIds(prefix, node) ==
    [node EXCEPT !.kids = [j \in DOMAIN @ |-> WithId(prefix \o ToString(j), @[j])]]

FileWithIds(refid, file) ==
    LET def == file.kids[1]
        kids == [i \in DOMAIN def.kids |->
                   IF def.kids[i].tag # "sectiondef" THEN def.kids[i]
                   ELSE SectionWithIds(refid \o "_" \o ToString(i), def.kids[i])]
    IN  [file EXCEPT !.kids = <<WithId(refid, [def EXCEPT !.kids = kids])>>]

EntryWithMembers(files, entry) ==
    IF entry.attrs.refid \notin DOMAIN files THEN entry
    ELSE LET def      == files[entry.attrs.refid].kids[1]
             sections == SelectSeq(def.kids, LAMBDA k : k.tag = "sectiondef")
             defs     == FlattenSeq([i \in DOMAIN sections |-> sections[i].kids])
             named(d) == SelectSeq(d.kids, LAMBDA k : k.tag = "name")[1]
         IN  [entry EXCEPT !.kids = @ \o
                [i \in DOMAIN defs |->
                   E("member", [kind |-> defs[i].attrs.kind, refid |-> defs[i].attrs.id],
                     <<named(defs[i])>>)]]

Listed(p) ==
    LET files == [r \in DOMAIN p.files |-> FileWithIds(r, p.files[r])]
    IN  [p EXCEPT !.files = files,
                  !.index.kids = [i \in DOMAIN @ |-> EntryWithMembers(files, @[i])]]

Outputs ==
    <<Today, Old, Awkward, Digits, BadHeader, MissingClass, UnknownKind, FriendOnly, MadeTwice>>

\* With what was parsed the document itself, for the properties.
Parsed(doc) ==
    [index     |-> ParseIndex(doc.index),
     files     |-> [r \in DOMAIN doc.files |-> Parse(doc.files[r])],
     malformed |-> doc.malformed,
     doc       |-> doc]

MCProjects == {Parsed(Listed(p)) : p \in ToSet(Outputs)}

MCTemplates ==
    [enc |-> <<<<"gr", "_", "c", "_", "enc">>,
               <<"gr", "_", "c", "_", "enc", "_", "make">>,
               <<"gr", "_", "c", "_", "enc", "_", "work">>,
               <<"gr", "_", "c", "_", "enc", "_", "a", "_", "b">>,
               <<"gr", "_", "c", "_", "enc", "_", "b">>>>,
     dec |-> <<<<"gr", "_", "c", "_", "dec">>>>]

MCFilter == <<"gr", "::", "c">>

MCWanted == {<<"make">>, Enc}
MCCats == {ALL, "DoxyFunction"}

(***************************************************************************)
(* What the documents say, read without the library.                       *)
(***************************************************************************)
Doc == project.doc

Kids(node, tag) == SelectSeq(node.kids, LAMBDA k : "tag" \in DOMAIN k /\ k.tag = tag)
Kid(node, tag) == Kids(node, tag)[1]
TextIn(node) == Kid(node, "name").kids[1].text

\* The words that reach a docstring: of paragraphs and references in them.
RECURSIVE WordsOf(_)
WordsOf(node) ==
    IF "text" \in DOMAIN node THEN node.text
    ELSE IF node.tag \notin {"briefdescription", "detaileddescription", "para", "ref",
                             "parameterdescription"} THEN <<>>
    ELSE FlattenSeq([i \in DOMAIN node.kids |-> WordsOf(node.kids[i])])

Def(refid) == Kid(Doc.files[refid], "compounddef")
Readable(refid) == refid \in DOMAIN Doc.files
Says(node) == WordsOf(Kid(node, "briefdescription")) \o WordsOf(Kid(node, "detaileddescription"))

\* The members of a compound: of each name the first.
Defs(refid) ==
    LET sections == Kids(Def(refid), "sectiondef")
        all == FlattenSeq([i \in DOMAIN sections |-> sections[i].kids])
    IN  SelectSeq(all, LAMBDA d :
          d = CHOOSE e \in ToSet(all) :
                /\ TextIn(e) = TextIn(d)
                /\ \E i \in DOMAIN all : all[i] = e /\ \A j \in 1..(i - 1) :
                     TextIn(all[j]) # TextIn(d))

FunctionsIn(refid) == {d \in ToSet(Defs(refid)) : d.attrs.kind = "function"}
Has(refid, kinds, n) == \E d \in ToSet(Defs(refid)) : d.attrs.kind \in kinds /\ TextIn(d) = n

Entries == Doc.index.kids
EntriesOf(kind) == {e \in ToSet(Entries) : e.attrs.kind = kind}
IsHeader(e) == e.attrs.kind = "file" /\ Last(TextIn(e)) = ".h"
Open == {e \in ToSet(Entries) : e.attrs.kind = "namespace" \/ IsHeader(e)}
Classes == EntriesOf("class")

\* The functions outside classes that the index knows, as pairs with their home.
FreeFunctions ==
    {<<e, d>> \in Open \X UNION {FunctionsIn(e.attrs.refid) : e \in Open} :
       d \in FunctionsIn(e.attrs.refid)}

MakersOf(c) ==
    {f \in FreeFunctions : /\ ~Contains(TextIn(c), "::")
                           /\ TextIn(f[2]) = make_name(TextIn(c))}
IsBlock2(c) ==
    Has(c.attrs.refid, {"function"}, <<"make">>) /\ Has(c.attrs.refid, OtherKinds, <<"sptr">>)
IsBlock(c) ==
    MakersOf(c) # {} \/ Has(c.attrs.refid, {"friend"}, make_name(TextIn(c)))

(***************************************************************************)
(* What stops a program: output of Doxygen that cannot be read, apart from *)
(* a malformed class or group, or a block whose make function is not one   *)
(* function that the index knows.                                          *)
(***************************************************************************)
Flawed ==
    \/ \E e \in Open : ~Readable(e.attrs.refid)
    \/ \E e \in Classes : ~Readable(e.attrs.refid) /\ e.attrs.refid \notin Doc.malformed
    \/ \E e \in ToSet(Entries) :
         e.attrs.kind \notin DOMAIN ClassOfKind \cup OtherKinds
    \/ \E c \in {c \in Classes : Readable(c.attrs.refid)} :
         IsBlock(c) /\ Cardinality(MakersOf(c)) # 1

(***************************************************************************)
(* The docstrings that the documents call for, before they are escaped.    *)
(***************************************************************************)
DocumentedParams(node) ==
    LET paras == Kids(Kid(node, "detaileddescription"), "para")
        lists == FlattenSeq([i \in DOMAIN paras |-> Kids(paras[i], "parameterlist")])
        items == FlattenSeq([i \in DOMAIN lists |-> lists[i].kids])
    IN  FlattenSeq([i \in DOMAIN items |->
          items[i].kids[1].kids[1].kids[1].text \o <<":">> \o WordsOf(items[i].kids[2])])

ArgsOf(node) ==
    LET documented == DocumentedParams(node)
        declared   == Kids(node, "param")
        args       == IF documented # <<>> THEN documented
                      ELSE FlattenSeq([i \in DOMAIN declared |->
                             Kid(declared[i], "declname").kids[1].text \o <<":">>])
    IN  IF args = <<>> THEN <<>> ELSE <<"Args:">> \o args

HeaderSays(c) ==
    LET h == {e \in Open : IsHeader(e) /\ TextIn(e) = TextIn(c) \o <<".h">>}
    IN  IF h = {} THEN <<>> ELSE Says(Def((CHOOSE e \in h : TRUE).attrs.refid))

MakeOf(c) ==
    IF IsBlock2(c) THEN CHOOSE d \in FunctionsIn(c.attrs.refid) : TextIn(d) = <<"make">>
    ELSE (CHOOSE f \in MakersOf(c) : TRUE)[2]

ClassText(c) ==
    LET def == Def(c.attrs.refid)
    IN  CASE IsBlock2(c) -> Says(def) \o <<"Constructor">> \o Says(MakeOf(c)) \o ArgsOf(MakeOf(c))
          [] IsBlock(c) /\ ~IsBlock2(c) ->
               Says(def) \o Says(MakeOf(c)) \o HeaderSays(c) \o ArgsOf(def)
          [] OTHER -> Says(def) \o ArgsOf(def)

OfClass(c) ==
    LET n == TextIn(c)
        makekey == IF IsBlock2(c) THEN n \o <<"::", "make">> ELSE make_name(n)
        methods == {d \in FunctionsIn(c.attrs.refid) :
                      /\ TextIn(d)[1] # "operator"
                      /\ ~(IsBlock2(c) /\ TextIn(d) = <<"make">>)}
    IN  {[key |-> n, doc |-> ClassText(c)]}
          \cup {[key |-> n \o <<"::">> \o TextIn(d), doc |-> Says(d)] : d \in methods}
          \cup (IF IsBlock(c) \/ IsBlock2(c) THEN {[key |-> makekey, doc |-> ClassText(c)]}
                ELSE {})

Expected ==
    LET classes == {c \in Classes : /\ Readable(c.attrs.refid)
                                    /\ TextIn(c)[1] # "std"}
        makers  == UNION {MakersOf(c) : c \in classes}
    IN  UNION {OfClass(c) : c \in classes}
          \cup {[key |-> Last(Split(Kid(f[2], "definition").kids[1].text, " ")),
                 doc |-> Says(f[2])] : f \in FreeFunctions \ makers}

Escaped(set) == {[key |-> e.key, doc |-> utoascii(e.doc)] : e \in set}

(***************************************************************************)
(* The members of a compound and of the index, as the documents give them. *)
(***************************************************************************)
ClassFor(kind) ==
    IF kind \in DOMAIN ClassOfKind THEN ClassOfKind[kind] ELSE "DoxyOther"

WrittenDefs(refid) ==
    [i \in 1..Len(Defs(refid)) |->
       [name |-> TextIn(Defs(refid)[i]), cls |-> ClassFor(Defs(refid)[i].attrs.kind)]]

WrittenIndex ==
    FlattenSeq([i \in 1..Len(Entries) |->
      LET e == Entries[i]
          own == <<[name |-> TextIn(e), cls |-> ClassFor(e.attrs.kind)]>>
      IN  CASE e \in Open -> WrittenDefs(e.attrs.refid) \o own
            [] e.attrs.kind = "file" /\ ~IsHeader(e) -> <<>>
            [] OTHER -> own])

WrittenInner(refid, tag, cls) ==
    [i \in DOMAIN Kids(Def(refid), tag) |->
       LET id == Kids(Def(refid), tag)[i].attrs.refid
           known == {e \in ToSet(Entries) : e.attrs.refid = id}
       IN  IF known = {} THEN [name |-> <<>>, cls |-> cls]
           ELSE LET e == CHOOSE e \in known : TRUE
                IN  [name |-> TextIn(e), cls |-> ClassFor(e.attrs.kind)]]

(***************************************************************************)
(* The dictionary that scrape writes has a docstring for every class and   *)
(* function that it should have one for, with the words of the documents   *)
(* in their order, and none besides; and scrape fails only on output that  *)
(* is flawed.                                                              *)
(***************************************************************************)
DocstringsAsWritten ==
    /\ pc \in {"sub", "done"} /\ json # <<>> => ToSet(json) = Escaped(Expected)
    /\ \A i, j \in DOMAIN json : json[i].key = json[j].key => i = j
    /\ pc = "aborted" => Flawed
    /\ pc = "sub" => ~Flawed

(***************************************************************************)
(* The headers that sub writes: a placeholder gets the docstring whose     *)
(* name, with _ for ::, it has, one of them when there are several, and    *)
(* its characters come out of the two escapes, that of utoascii and that   *)
(* of the regular expression, as they went in.  It stays blank only when   *)
(* there is none, when the docstring begins with a digit, or when the      *)
(* templates are only copied; and the placeholder itself is lost only to a *)
(* docstring that begins with two octal digits.                            *)
(***************************************************************************)
Shown(text) ==
    FlattenSeq([i \in DOMAIN text |->
      CASE text[i] = NonAscii  -> <<"?">>
        [] text[i] = Backslash -> <<Backslash, Backslash>>
        [] text[i] = Quote     -> <<Backslash, Quote>>
        [] OTHER               -> <<text[i]>>])

CandidatesFor(file, key) ==
    {e \in Expected : /\ IsPrefix(Filter \o <<"::", file>>, e.key)
                      /\ Join(Split(e.key, "::"), "_") = key}

PlaceholdersFilled ==
    \A file \in DOMAIN out : \A i \in DOMAIN Templates[file] :
      LET key == Templates[file][i]
          candidates == CandidatesFor(file, key)
          plain == {e \in candidates : ~LeadingWord(e.doc, Digit)}
      IN  IF out[file][i].key # key
          THEN \E e \in candidates : LeadingWord(e.doc, TwoOctalDigits)
          ELSE IF json = <<>> \/ plain = {} THEN out[file][i].doc = <<>>
               ELSE \E e \in plain : out[file][i].doc = Shown(e.doc)

(***************************************************************************)
(* The parser keeps what the documents list: the members that an object    *)
(* should have are those that its document gives it.  And what the index   *)
(* lists is found where it says: find_compounds_and_members finds every    *)
(* member by its id in the entry of its compound, and find finds it again  *)
(* in the file of the compound, with the same kind and name, overloads and *)
(* all sections included.  (All of this only reads: asked = 0 spares TLC   *)
(* from asking again after each call.)                                     *)
(***************************************************************************)
MembersAsWritten ==
    /\ ~Flawed => IndexMembers = WrittenIndex
    /\ \A refid \in DOMAIN Doc.files :
         /\ DefMembers(refid) = WrittenDefs(refid)
         /\ InnerMembers(refid, "innergroup", "DoxyGroup")
              = WrittenInner(refid, "innergroup", "DoxyGroup")
         /\ InnerMembers(refid, "innerclass", "DoxyClass")
              = WrittenInner(refid, "innerclass", "DoxyClass")

FoundWhereListed ==
    LET Found(id) == find_compounds_and_members(project.index, [refid |-> id])
    IN  asked = 0 =>
          /\ MembersAsWritten
          /\ \A c \in ToSet(Entries) : \A m \in ToSet(Kids(c, "member")) :
               LET found == Found(m.attrs.refid)
                   there == Find(FileOf(found[1].compound.attrs["refid"]), m.attrs.refid)
               IN  /\ Len(found) = 1 /\ Len(found[1].members) = 1 /\ Len(there) = 1
                   /\ found[1].compound.attrs["refid"] = c.attrs.refid
                   /\ there[1].attrs["kind"] = m.attrs.kind
                   /\ StringField(there[1], "name") = TextIn(m)

(***************************************************************************)
(* swig_doc.py fails where update_pydoc.py has failed, and writes the same *)
(* docstrings: the entries that have text, the functions outside classes   *)
(* by their unqualified name.  (An update_pydoc.py that has not failed has *)
(* found something to document in each of the projects.)                   *)
(***************************************************************************)
AsSwig(key) ==
    IF \E f \in FreeFunctions : key = Last(Split(Kid(f[2], "definition").kids[1].text, " "))
    THEN Last(Split(key, "::")) ELSE key

SwigAgrees ==
    /\ pc = "swigaborted" => json = <<>>
    /\ pc = "swigdone" =>
         /\ json # <<>>
         /\ {<<e.key, e.doc>> : e \in ToSet(swigdoc)}
              = {<<AsSwig(e.key), e.doc>> : e \in {x \in ToSet(json) : x.doc # <<>>}}

(***************************************************************************)
(* A binding that is made automatically stays so, however often its header *)
(* changes, and the library is never built from code for another header,   *)
(* unless somebody noted that header's hash without its code.              *)
(***************************************************************************)
NeverStale == B!NeverStale

(***************************************************************************)
(* A behaviour is a client, scrape and sub and then swig_doc.py on what    *)
(* they read, copy, or cmake with a developer at a binding, which does not *)
(* depend on what is documented.                                           *)
(***************************************************************************)
MCInit ==
    /\ ClientInit
    /\ pc \in {"client", "scrape", "copy", "cmake"}
    /\ B!Init
    /\ IF pc = "cmake" THEN project.doc = Listed(Today) ELSE binding = B!bind_oot_file("enc.h", "1", "0")
    /\ json = <<>>
    /\ pending = DOMAIN Templates
    /\ out = [f \in {} |-> <<>>]
    /\ status = <<>>
    /\ swigdoc = <<>>

Client == pc = "client" /\ ClientNext /\ UNCHANGED <<pydocVars, swigdoc>>

SwigFollows ==
    /\ pc = "aborted" \/ (pc = "done" /\ json # <<>>)
    /\ pc' = "swig"
    /\ heap' = NewHeap
    /\ UNCHANGED <<project, asked, json, pending, out, status, swigdoc>>

CMake == pc = "cmake" /\ B!Next /\ UNCHANGED <<docVars, pydocVars, swigdoc>>

MCNext ==
    \/ Client /\ UNCHANGED bindingVars
    \/ NextPydoc /\ UNCHANGED <<swigdoc, bindingVars>>
    \/ SwigFollows /\ UNCHANGED bindingVars
    \/ MakeSwigDoc /\ UNCHANGED bindingVars
    \/ CMake

MCSpec == MCInit /\ [][MCNext]_<<docVars, pydocVars, swigdoc, bindingVars>>

=============================================================================
