------------------------------- MODULE SwigDoc -------------------------------
(***************************************************************************)
(* swig_doc.py, the older program that writes the docstrings as an         *)
(* interface file of SWIG.  It is a second copy of update_pydoc.py: what   *)
(* the two have in common is taken from UpdatePydoc, what differs is here: *)
(* entries are a list in which a name may come twice, an entry without     *)
(* text is not made, and a function goes by its name, not by its           *)
(* definition.                                                             *)
(***************************************************************************)
EXTENDS UpdatePydoc

VARIABLE swigdoc   \* the entries written, <<>> before

(***************************************************************************)
(* The parts that are copies of those of update_pydoc.py.                  *)
(***************************************************************************)
SwigBlockIncludes(h, m)          == BlockIncludes(h, m)
SwigBlock2Includes(h, m)         == Block2Includes(h, m)
SwigCombineDescriptions(h, o)    == combine_descriptions(h, o)
SwigMakeName(n)                  == make_name(n)
SwigUtoascii(text)               == utoascii(text)
SwigFormatParams(parameteritems) == SwigUtoascii(format_params(parameteritems))

(***************************************************************************)
(* make_entry and make_func_entry.                                         *)
(***************************************************************************)
SwigEntryOf(n, text, prms) ==
    LET docstring == text \o (IF prms = <<>> THEN <<>> ELSE SwigFormatParams(prms))
    IN  IF IsOperator(n) \/ docstring = <<>> THEN <<>>
        ELSE <<[key |-> n, doc |-> docstring]>>

make_func_entry(h, func, n) ==
    IF IsOperator(n) THEN Return(h, <<>>)
    ELSE Then(SwigCombineDescriptions(h, func), LAMBDA g, text :
           Return(g, SwigEntryOf(n, text, <<>>)))

Joined(result, entries) == Then(result, LAMBDA h, more : Return(h, entries \o more))

SwigMethodEntry(h, func, k, ignored) ==
    Then(name(h, func), LAMBDA g, n :
      IF n \in ignored THEN Return(g, <<>>)
      ELSE make_func_entry(g, func, k \o <<"::">> \o n))

SwigMethods(h, klass, first, k, ignored) ==
    Then(in_category(h, klass, "DoxyFunction"), LAMBDA g, funcs :
      Loop(g, funcs, first, LAMBDA f, entries, func :
        Joined(SwigMethodEntry(f, func, k, ignored), entries)))

\* A mutant: nothing is ignored.
SwigClassEntry_All(h, klass, text, ignored, prms) ==
    Then(name(h, klass), LAMBDA g, k :
      SwigMethods(g, klass, SwigEntryOf(k, text, prms), k, {}))

SwigClassEntry(h, klass, text, ignored, prms) ==
    Then(name(h, klass), LAMBDA g, k :
      SwigMethods(g, klass, SwigEntryOf(k, text, prms), k, ignored))

SwigBlockEntry(h, block) ==
    Then(Do2(BlockParts(h, block),
           LAMBDA g, v : Let("entries",
             SwigClassEntry(g, block, super_description(v), {}, v.prms)),
           LAMBDA g, v : Let("makename", name(g, v.make_func))),
         LAMBDA g, v :
           Return(g, v.entries \o SwigEntryOf(v.makename, super_description(v), v.prms)))

SwigBlock2Entry(h, block) ==
    Then(Do2(Block2Parts(h, block),
           LAMBDA g, v : Let("entries",
             SwigClassEntry(g, block, block2_description(v), {<<"make">>}, v.prms)),
           LAMBDA g, v : Let("n", name(g, block))),
         LAMBDA g, v :
           Return(g, v.entries \o
             SwigEntryOf(v.n \o <<"::", "make">>, block2_description(v), v.prms)))

(***************************************************************************)
(* make_swig_interface_file.                                               *)
(***************************************************************************)
AddToList(result, acc) ==
    Then(result, LAMBDA h, entries : Return(h, [acc EXCEPT !.dict = @ \o entries]))

SwigDocumentBlock(h, acc, block) ==
    Then(Also(Do2(NoLocals(h),
                LAMBDA g, v : Let("n", name(g, block)),
                LAMBDA g, v : Let("make_func",
                  get_member(g, Top, SwigMakeName(v.n), "DoxyFunction"))),
              LAMBDA g, v : Let("makename", name(g, v.make_func))),
         LAMBDA g, v :
           IF v.makename \in acc.made THEN Return(g, acc)
           ELSE AddToList(SwigBlockEntry(g, block), WithMake(acc, v.makename)))

SwigDocumentBlock2(h, acc, block) ==
    Then(Do2(NoLocals(h),
           LAMBDA g, v : Let("make_func", get_member(g, block, <<"make">>, "DoxyFunction")),
           LAMBDA g, v : Let("n", name(g, block))),
         LAMBDA g, v :
           IF v.n \o <<"::", "make">> \in acc.made THEN Return(g, acc)
           ELSE AddToList(SwigBlock2Entry(g, block),
                          WithMake(acc, v.n \o <<"::", "make">>)))

SwigFunctionEntry(h, func) ==
    Then(name(h, func), LAMBDA g, n : make_func_entry(g, func, n))

SwigDocumentFunction(h, acc, func) ==
    IfParsed(AddToList(SwigFunctionEntry(h, func), acc), acc)

SwigEntryOfClass(h, klass) ==
    Then(Do2(NoLocals(h), LAMBDA g, v : Let("prms", params(g, klass)),
                       LAMBDA g, v : Let("text", SwigCombineDescriptions(g, klass))),
         LAMBDA g, v : SwigClassEntry(g, klass, v.text, {}, v.prms))

SwigDocumentClass(h, acc, klass) ==
    IfParsed(AddToList(SwigEntryOfClass(h, klass), acc), acc)

make_swig_interface_file(h) ==
    Then(Do4(Do4(NoLocals(h),
             LAMBDA g, v : Let("blocks", InCategoryBy(g, Top, "Block", SwigBlockIncludes)),
             LAMBDA g, v : Let("blocks2", InCategoryBy(g, Top, "Block2", SwigBlock2Includes)),
             LAMBDA g, v : Let("acc", Loop(g, v.blocks, Nothing, SwigDocumentBlock)),
             LAMBDA g, v : Let("acc2", Loop(g, v.blocks2, v.acc, SwigDocumentBlock2))),
           LAMBDA g, v : Let("funcs", Others(g, "DoxyFunction", v.acc2.made)),
           LAMBDA g, v : Let("acc3", Loop(g, v.funcs, v.acc2, SwigDocumentFunction)),
           LAMBDA g, v : Let("names", NamesOf(g, v.blocks \o v.blocks2)),
           LAMBDA g, v : Let("klasses", Others(g, "DoxyClass", v.names))),
         LAMBDA g, v : Loop(g, v.klasses, v.acc3, SwigDocumentClass))

(***************************************************************************)
(* The process, with a DoxyIndex of its own.                               *)
(***************************************************************************)
Written(result) ==
    /\ heap' = result.heap
    /\ IF result.exc = ""
       THEN pc' = "swigdone" /\ swigdoc' = result.ret.dict
       ELSE pc' = "swigaborted" /\ UNCHANGED swigdoc

MakeSwigDoc ==
    /\ pc = "swig"
    /\ Written(make_swig_interface_file(heap))
    /\ UNCHANGED <<project, asked, json, pending, out, status>>

=============================================================================
