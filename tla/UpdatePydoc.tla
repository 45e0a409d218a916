----------------------------- MODULE UpdatePydoc -----------------------------
(***************************************************************************)
(* update_pydoc.py: "scrape" reads Doxygen's XML through doxyxml and makes *)
(* a dictionary from the names of classes and functions to docstrings;     *)
(* "sub", another process, puts the docstrings into the placeholders of    *)
(* the *_pydoc_template.h files, by regular expressions; "copy" leaves the *)
(* placeholders blank.                                                     *)
(*                                                                         *)
(* A dictionary is the sequence of its items, in the order of insertion.   *)
(* A header is the sequence of its placeholders; what is between them is   *)
(* left out.  Names with characters that mean something in a regular       *)
(* expression, as those of operators, are left out too.                    *)
(***************************************************************************)
EXTENDS DoxyXml, GeneratedParser

CONSTANTS
    Templates,      \* from the name of a template to the keys of its placeholders
    Filter,         \* the argument --filter, <<>> without
    Digit,          \* the words that begin with a digit
    TwoOctalDigits  \* the words that begin with two octal digits

ASSUME OctalIsDigit == TwoOctalDigits \subseteq Digit

VARIABLES
    pc,       \* what the process does
    json,     \* the dictionary that scrape wrote
    pending,  \* the templates that sub or copy has still to read
    out,      \* the headers written, from the name of the template
    status    \* the lines of docstring_status

pydocVars == <<pc, json, pending, out, status>>

(***************************************************************************)
(* Names.                                                                  *)
(***************************************************************************)
make_name(n) ==
    LET bits == Split(n, "_") IN bits[1] \o <<"_", "make", "_">> \o Join(Tail(bits), "_")

(***************************************************************************)
(* Block and Block2: the classes that look like blocks of GNU Radio, with  *)
(* a make function as a friend or beside the class, or a make and an sptr  *)
(* in the class.  A class that cannot be read is neither.                  *)
(***************************************************************************)
IfReadable(h, m, Answer(_, _)) ==
    IF m = NONE THEN Return(h, FALSE)
    ELSE IF h.objs[m].cls # "DoxyClass" THEN Return(h, FALSE)
    ELSE Then(error(h, m), LAMBDA g, failed :
           IF failed THEN Return(g, FALSE) ELSE Answer(g, m))

FriendOrFunction(h, m) ==
    Then(Do2(NoLocals(h),
             LAMBDA g, v : Let("n", name(g, m)),
             LAMBDA g, v : Let("isFriend", has_member(g, m, make_name(v.n), "DoxyFriend"))),
         LAMBDA g, v :
           IF v.isFriend THEN Return(g, TRUE)
           ELSE has_member(g, Top, make_name(v.n), "DoxyFunction"))

MakeAndSptr(h, m) ==
    Then(has_member(h, m, <<"make">>, "DoxyFunction"), LAMBDA g, makes :
      IF makes THEN has_member(g, m, <<"sptr">>, "DoxyOther") ELSE Return(g, FALSE))

BlockIncludes(h, m)  == IfReadable(h, m, FriendOrFunction)
Block2Includes(h, m) == IfReadable(h, m, MakeAndSptr)

(***************************************************************************)
(* utoascii: a character outside ASCII becomes a question mark, a          *)
(* backslash four of them, and a quote gets one in front.                  *)
(***************************************************************************)
Quote == "\""
Backslash == "\\"
NonAscii == "e-acute"

utoascii(text) ==
    FlattenSeq([i \in 1..Len(text) |->
                  CASE text[i] = NonAscii  -> <<"?">>
                    [] text[i] = Backslash -> <<Backslash, Backslash, Backslash, Backslash>>
                    [] text[i] = Quote     -> <<Backslash, Quote>>
                    [] OTHER               -> <<text[i]>>])

(***************************************************************************)
(* The texts of an object: the descriptions of the element that its class  *)
(* takes them from.                                                        *)
(***************************************************************************)
DescribedBy(h, o) ==
    IF h.objs[o].cls = "DoxyFunction" THEN ParseData(h, o) ELSE RetrievedData(h, o)

TextOf(fields) ==
    utoascii(description(fields["briefdescription"])
               \o description(fields["detaileddescription"]))

combine_descriptions(h, o) ==
    AndThen(AndThen(data(h, o, "brief_description"),
                    LAMBDA g : data(g, o, "detailed_description")),
            LAMBDA g : Return(g, TextOf(DescribedBy(g, o).fields)))

(***************************************************************************)
(* params: the items of the parameter lists of the detailed description,   *)
(* each with the first of its names; for a function that has none, its     *)
(* parameters as they are declared.                                        *)
(***************************************************************************)
\* A DoxyParameterItem: the first of its names, and its description.
DocumentedParam(item) ==
    LET lists == item.fields["parameternamelist"]
        names == FlattenSeq([i \in 1..Len(lists) |-> lists[i].fields["parametername"]])
    IN  [name        |-> description_bit(names[1]),
         description |-> description(item.fields["parameterdescription"])]

ParameterItems(object) ==
    LET detailed == object.fields["detaileddescription"]
        paras    == IF detailed = <<>> THEN <<>>
                    ELSE SelectSeq(detailed[1].content_,
                                   LAMBDA c : c.value.cls = "docParaType")
        lists    == FlattenSeq([i \in 1..Len(paras) |->
                                  paras[i].value.fields["parameterlist"]])
        items    == FlattenSeq([i \in 1..Len(lists) |-> lists[i].fields["parameteritem"]])
    IN  [i \in 1..Len(items) |-> DocumentedParam(items[i])]

DeclaredParams(function) ==
    LET prms == function.fields["param"]
    IN  [i \in 1..Len(prms) |->
           [name        |-> StringField(prms[i], "declname"),
            description |-> description(prms[i].fields["briefdescription"])]]

params(h, o) ==
    AndThen(data(h, o, "params"), LAMBDA g :
      LET object == DescribedBy(g, o)
          items  == ParameterItems(object)
      IN  Return(g, IF g.objs[o].cls = "DoxyFunction" /\ items = <<>>
                    THEN DeclaredParams(object) ELSE items))

format_params(parameteritems) ==
    <<"Args:">> \o
    FlattenSeq([i \in 1..Len(parameteritems) |->
                  parameteritems[i].name \o <<":">> \o parameteritems[i].description])

(***************************************************************************)
(* make_entry: no entry for a conversion operator.  The name of an entry   *)
(* is given, or is the last word of the definition of a function, or the   *)
(* name of a class.                                                        *)
(***************************************************************************)
IsOperator(n) == \E i \in 1..(Len(n) - 1) : n[i] = "operator" /\ n[i + 1] = " "

EntryName(h, o) ==
    IF h.objs[o].source.kind = "memberdef"
    THEN Return(h, Last(Split(StringField(ParseData(h, o), "definition"), " ")))
    ELSE name(h, o)

Docstring(text, prms) ==
    text \o (IF prms = <<>> THEN <<>> ELSE utoascii(format_params(prms)))

EntryOf(n, text, prms) ==
    IF IsOperator(n) THEN <<>> ELSE <<[key |-> n, doc |-> Docstring(text, prms)]>>

make_entry(h, o, n) ==
    IF IsOperator(n) THEN Return(h, <<>>)
    ELSE Then(combine_descriptions(h, o), LAMBDA g, text : Return(g, EntryOf(n, text, <<>>)))

(***************************************************************************)
(* dict.update.                                                            *)
(***************************************************************************)
Update(dict, entries) ==
    FoldLeft(LAMBDA d, e :
               LET at == SelectInSeq(d, LAMBDA x : x.key = e.key)
               IN  IF at = 0 THEN Append(d, e) ELSE ReplaceAt(d, at, e),
             dict, entries)

(***************************************************************************)
(* The entries of the methods of a class but the ignored ones.             *)
(***************************************************************************)
MethodEntry(h, klass, func, ignored) ==
    Then(Do2(NoLocals(h), LAMBDA g, v : Let("method", name(g, func)),
                       LAMBDA g, v : Let("klass", name(g, klass))),
         LAMBDA g, v :
           IF v.method \in ignored THEN Return(g, <<>>)
           ELSE make_entry(g, func, v.klass \o <<"::">> \o v.method))

Updated(result, entries) ==
    Then(result, LAMBDA h, more : Return(h, Update(entries, more)))

MethodEntries(h, klass, ignored) ==
    Then(in_category(h, klass, "DoxyFunction"), LAMBDA g, funcs :
      Loop(g, funcs, <<>>, LAMBDA f, entries, func :
        Updated(MethodEntry(f, klass, func, ignored), entries)))

make_class_entry(h, klass, text, ignored, prms) ==
    Then(Do2(NoLocals(h), LAMBDA g, v : Let("n", EntryName(g, klass)),
                       LAMBDA g, v : Let("methods", MethodEntries(g, klass, ignored))),
         LAMBDA g, v : Return(g, Update(EntryOf(v.n, text, prms), v.methods)))

(***************************************************************************)
(* make_block_entry: the descriptions of the class, of its make function   *)
(* and of the header of its name, if there is one, together.               *)
(***************************************************************************)
IfFound(result, Step(_, _)) ==
    IF result.exc = "NoSuchMember" THEN Return(result.heap, <<>>) ELSE Then(result, Step)

FileDescription(h, n) ==
    IfFound(get_member(h, Top, n \o <<".h">>, "DoxyFile"), combine_descriptions)

\* What make_block_entry knows of a block, in the order in which it asks.
BlockParts(h, block) ==
    Do2(Do4(NoLocals(h),
          LAMBDA g, v : Let("class_desc", combine_descriptions(g, block)),
          LAMBDA g, v : Let("n", name(g, block)),
          LAMBDA g, v : Let("make_func", get_member(g, Top, make_name(v.n), "DoxyFunction")),
          LAMBDA g, v : Let("make_func_desc", combine_descriptions(g, v.make_func))),
        LAMBDA g, v : Let("file_desc", FileDescription(g, v.n)),
        LAMBDA g, v : Let("prms", params(g, block)))

super_description(v) == v.class_desc \o v.make_func_desc \o v.file_desc

make_block_entry(h, block) ==
    Then(Do2(BlockParts(h, block),
           LAMBDA g, v : Let("entries",
             make_class_entry(g, block, super_description(v), {}, v.prms)),
           LAMBDA g, v : Let("makename", EntryName(g, v.make_func))),
         LAMBDA g, v :
           Return(g, Update(v.entries, EntryOf(v.makename, super_description(v), v.prms))))

\* The same for make_block2_entry.
Block2Parts(h, block) ==
    Do4(NoLocals(h),
      LAMBDA g, v : Let("class_desc", combine_descriptions(g, block)),
      LAMBDA g, v : Let("make_func", get_member(g, block, <<"make">>, "DoxyFunction")),
      LAMBDA g, v : Let("make_desc", combine_descriptions(g, v.make_func)),
      LAMBDA g, v : Let("prms", params(g, v.make_func)))

block2_description(v) == v.class_desc \o <<"Constructor">> \o v.make_desc

make_block2_entry(h, block) ==
    Then(Do2(Block2Parts(h, block),
           LAMBDA g, v : Let("entries",
             make_class_entry(g, block, block2_description(v), {<<"make">>}, v.prms)),
           LAMBDA g, v : Let("n", name(g, block))),
         LAMBDA g, v :
           Return(g, Update(v.entries,
             EntryOf(v.n \o <<"::", "make">>, block2_description(v), v.prms))))

(***************************************************************************)
(* get_docstrings_dict.  acc holds the dictionary and the make functions   *)
(* that are documented with their block.                                   *)
(***************************************************************************)
AddToDict(result, acc) ==
    Then(result, LAMBDA h, entries : Return(h, [acc EXCEPT !.dict = Update(@, entries)]))

WithMake(acc, makename) == [acc EXCEPT !.made = @ \cup {makename}]

DocumentBlock(h, acc, block) ==
    Then(Also(Do2(NoLocals(h),
                LAMBDA g, v : Let("n", name(g, block)),
                LAMBDA g, v : Let("make_func",
                  get_member(g, Top, make_name(v.n), "DoxyFunction"))),
              LAMBDA g, v : Let("makename", name(g, v.make_func))),
         LAMBDA g, v :
           IF v.makename \in acc.made THEN Return(g, acc)
           ELSE AddToDict(make_block_entry(g, block), WithMake(acc, v.makename)))

DocumentBlock2(h, acc, block) ==
    Then(Do2(NoLocals(h),
           LAMBDA g, v : Let("make_func", get_member(g, block, <<"make">>, "DoxyFunction")),
           LAMBDA g, v : Let("n", name(g, block))),
         LAMBDA g, v :
           IF v.n \o <<"::", "make">> \in acc.made THEN Return(g, acc)
           ELSE AddToDict(make_block2_entry(g, block),
                          WithMake(acc, v.n \o <<"::", "make">>)))

\* What cannot be read is left out.
IfParsed(result, acc) ==
    IF result.exc = "ParsingError" THEN Return(result.heap, acc) ELSE result

FunctionEntry(h, func) ==
    Then(EntryName(h, func), LAMBDA g, n : make_entry(g, func, n))

DocumentFunction(h, acc, func) == IfParsed(AddToDict(FunctionEntry(h, func), acc), acc)

ClassEntry(h, klass) ==
    Then(Do2(NoLocals(h), LAMBDA g, v : Let("prms", params(g, klass)),
                       LAMBDA g, v : Let("text", combine_descriptions(g, klass))),
         LAMBDA g, v : make_class_entry(g, klass, v.text, {}, v.prms))

DocumentClass(h, acc, klass) == IfParsed(AddToDict(ClassEntry(h, klass), acc), acc)

(***************************************************************************)
(* The members of a category of the index whose name is not among the      *)
(* taken ones and not in the namespace std.                                *)
(***************************************************************************)
NameIn(result, names) == Then(result, LAMBDA h, n : Return(h, names \cup {n}))

NamesOf(h, list) ==
    Loop(h, list, {}, LAMBDA g, names, m : NameIn(name(g, m), names))

OtherThan(result, rest, m, taken) ==
    Then(result, LAMBDA h, n :
      Return(h, IF n \in taken \/ IsPrefix(<<"std", "::">>, n) THEN rest
                ELSE Append(rest, m)))

\* A mutant: what was documented with its block is documented again.
Others_TakenToo(h, cat, taken) ==
    Then(in_category(h, Top, cat), LAMBDA g, all :
      Loop(g, all, <<>>, LAMBDA f, rest, m : OtherThan(name(f, m), rest, m, {})))

Others(h, cat, taken) ==
    Then(in_category(h, Top, cat), LAMBDA g, all :
      Loop(g, all, <<>>, LAMBDA f, rest, m : OtherThan(name(f, m), rest, m, taken)))

Nothing == [made |-> {}, dict |-> <<>>]

get_docstrings_dict(h) ==
    Then(Do4(Do4(NoLocals(h),
             LAMBDA g, v : Let("blocks", InCategoryBy(g, Top, "Block", BlockIncludes)),
             LAMBDA g, v : Let("blocks2", InCategoryBy(g, Top, "Block2", Block2Includes)),
             LAMBDA g, v : Let("acc", Loop(g, v.blocks, Nothing, DocumentBlock)),
             LAMBDA g, v : Let("acc2", Loop(g, v.blocks2, v.acc, DocumentBlock2))),
           LAMBDA g, v : Let("funcs", Others(g, "DoxyFunction", v.acc2.made)),
           LAMBDA g, v : Let("acc3", Loop(g, v.funcs, v.acc2, DocumentFunction)),
           LAMBDA g, v : Let("names", NamesOf(g, v.blocks \o v.blocks2)),
           LAMBDA g, v : Let("klasses", Others(g, "DoxyClass", v.names))),
         LAMBDA g, v : Loop(g, v.klasses, v.acc3, DocumentClass))

(***************************************************************************)
(* re.subn with r'\1' + value + r'\2'.  A pair of backslashes stands for   *)
(* one, and a backslash before a quote for itself.  Digits at the          *)
(* beginning of the value become part of the \1: of two octal ones and the *)
(* 1 a character is made, and the text that the group had matched is lost; *)
(* others name a group that is not there, which is an error whether or not *)
(* the pattern is found.                                                   *)
(***************************************************************************)
RECURSIVE Unescaped(_)
Unescaped(value) ==
    CASE Len(value) < 2 -> value
      [] value[1] = Backslash /\ value[2] = Backslash ->
           <<Backslash>> \o Unescaped(SubSeq(value, 3, Len(value)))
      [] OTHER -> <<value[1]>> \o Unescaped(Tail(value))

LeadingWord(value, words) == value # <<>> /\ value[1] \in words

Garbled == <<"garbled">>

Placeholder(key) == [key |-> key, doc |-> <<>>]

\* A mutant: the separators stay.
doc_key_Kept(key) == key

doc_key(key) ==
    [i \in 1..Len(key) |-> IF key[i] = "::" THEN "_" ELSE key[i]]

\* [^)]* finds the end of a text without a parenthesis only.
Substitute(file, entry) ==
    LET at == SelectInSeq(file.lines, LAMBDA x :
                x.key = doc_key(entry.key) /\ ~Contains(x.doc, ")"))
        value == entry.doc
    IN  CASE LeadingWord(value, Digit \ TwoOctalDigits) ->
               [file EXCEPT !.status = Append(@, "FAIL")]
          [] at = 0 /\ ~LeadingWord(value, Digit \ TwoOctalDigits) -> file
          [] OTHER ->
               [lines  |-> ReplaceAt(file.lines, at,
                             [key |-> IF LeadingWord(value, TwoOctalDigits) THEN Garbled
                                      ELSE file.lines[at].key,
                              doc |-> Unescaped(value)]),
                status |-> Append(file.status, "PASS")]

(***************************************************************************)
(* The docstrings that are tried in a file: with a filter those whose name *)
(* begins with the filter and the name of the file.                        *)
(***************************************************************************)
Filtered(dict, file) ==
    IF Filter = <<>> THEN dict
    ELSE SelectSeq(dict, LAMBDA e : IsPrefix(Filter \o <<"::", file>>, e.key))

TemplateLines(file) ==
    [i \in 1..Len(Templates[file]) |-> Placeholder(Templates[file][i])]

SubstituteIn(file, dict) ==
    FoldLeft(Substitute, [lines |-> TemplateLines(file), status |-> <<>>],
             Filtered(dict, file))

(***************************************************************************)
(* The processes.                                                          *)
(***************************************************************************)
InitPydoc ==
    /\ pc \in {"scrape", "copy"}
    /\ json = <<>>
    /\ pending = DOMAIN Templates
    /\ out = [f \in {} |-> <<>>]
    /\ status = <<>>

Scraped(result) ==
    /\ heap' = result.heap
    /\ IF result.exc = ""
       THEN pc' = "sub" /\ json' = result.ret.dict
       ELSE pc' = "aborted" /\ UNCHANGED json

Scrape ==
    /\ pc = "scrape"
    /\ Scraped(get_docstrings_dict(heap))
    /\ UNCHANGED <<project, asked, pending, out, status>>

\* glob gives the templates in any order.
sub_docstring_in_pydoc_h ==
    /\ pc = "sub"
    /\ \E file \in pending :
         LET result == SubstituteIn(file, json)
         IN  /\ out' = (file :> result.lines) @@ out
             /\ status' = status \o [i \in 1..Len(result.status) |->
                                       [file |-> file, line |-> result.status[i]]]
             /\ pending' = pending \ {file}
             /\ pc' = IF pending' = {} THEN "done" ELSE "sub"
    /\ UNCHANGED <<project, asked, heap, json>>

copy_docstring_templates ==
    /\ pc = "copy"
    /\ \E file \in pending :
         /\ out' = (file :> TemplateLines(file)) @@ out
         /\ pending' = pending \ {file}
         /\ pc' = IF pending' = {} THEN "done" ELSE "copy"
    /\ UNCHANGED <<project, asked, heap, json, status>>

NextPydoc == Scrape \/ sub_docstring_in_pydoc_h \/ copy_docstring_templates

=============================================================================
