--------------------------- MODULE GeneratedParser ---------------------------
(***************************************************************************)
(* How an XML file of Doxygen becomes an object: the build methods of the  *)
(* generated classes, driven by the table of GeneratedTypes, with the one  *)
(* subclass of compound.py that builds more than its superclass, and the   *)
(* text that text.py draws from such an object.                            *)
(*                                                                         *)
(* A text is a sequence of words.  A node of a document is an element,     *)
(* [tag, attrs, kids], or a piece of text, [text].  The layout of a text   *)
(* (blanks, line breaks, strip) is left out, CDATA sections too: Doxygen   *)
(* writes none in the elements that are read.                              *)
(***************************************************************************)
EXTENDS GeneratedTypes, GeneratedObjects

IsText(node) == "text" \in DOMAIN node

(***************************************************************************)
(* The characters of an element: those of its text nodes, joined.          *)
(***************************************************************************)
Characters(node) ==
    LET pieces == SelectSeq(node.kids, IsText)
    IN  FlattenSeq([i \in 1..Len(pieces) |-> pieces[i].text])

ElementsOf(node, tag) ==
    SelectSeq(node.kids, LAMBDA kid : ~IsText(kid) /\ kid.tag = tag)

(***************************************************************************)
(* What an item of content_ holds is a string or an object; a container    *)
(* carries the tag it was made for.                                        *)
(***************************************************************************)
String(words) == [cls |-> "str", words |-> words]

MixedContainer(name, value) ==
    [cls |-> "MixedContainer", name |-> name, value |-> value]

(***************************************************************************)
(* An object of a class before build: lists for what it collects, None for *)
(* the rest.  Both are an empty sequence here.                             *)
(***************************************************************************)
New(type, row) ==
    [cls      |-> type,
     sub      |-> FALSE,
     attrs    |-> [a \in {} |-> ""],
     fields   |-> [tag \in {kid.tag : kid \in row.kids} |-> <<>>],
     content_ |-> <<>>,
     valueOf_ |-> <<>>]

(***************************************************************************)
(* The classes for which index.py and compound.py register a subclass, of  *)
(* what is declared and of what a text is made of.  factory makes an       *)
(* object of the subclass where there is one.                              *)
(***************************************************************************)
IndexSubclassed == {"IndexDoxygenType", "CompoundType", "MemberType"}

DeclSubclassed ==
    {"DoxygenType", "compounddefType", "listofallmembersType", "memberRefType",
     "compoundRefType", "reimplementType", "incType", "refType", "refTextType",
     "sectiondefType", "memberdefType", "descriptionType", "enumvalueType",
     "templateparamlistType", "paramType", "linkedTextType", "graphType",
     "nodeType", "childnodeType", "linkType", "listingType", "codelineType",
     "highlightType", "referenceType", "locationType"}

TextSubclassed ==
    {"docSect1Type", "docSect2Type", "docSect3Type", "docSect4Type",
     "docInternalType", "docInternalS1Type", "docInternalS2Type",
     "docInternalS3Type", "docInternalS4Type", "docURLLink", "docAnchorType",
     "docFormulaType", "docIndexEntryType", "docListType", "docListItemType",
     "docSimpleSectType", "docVarListEntryType", "docRefTextType", "docTableType",
     "docRowType", "docEntryType", "docHeadingType", "docImageType",
     "docDotFileType", "docTocItemType", "docTocListType", "docLanguageType",
     "docParamListType", "docParamListItem", "docParamNameList", "docParamName",
     "docXRefSectType", "docCopyType", "docCharType", "docParaType"}

Subclassed == IndexSubclassed \cup DeclSubclassed \cup TextSubclassed

factory(type, row) == [New(type, row) EXCEPT !.sub = (type \in Subclassed)]

(***************************************************************************)
(* build: the attributes and children the class knows, in document order.  *)
(* A paragraph is built by docParaTypeSub, which keeps the text and the    *)
(* references in a list that text.py reads in the place of content_, and   *)
(* the parameter lists and the simple sections beside it.                  *)
(***************************************************************************)
RECURSIVE Build(_, _)

ValueOf(kid, node) ==
    IF kid.type = "" THEN String(Characters(node)) ELSE Build(kid.type, node)

ContentItems(row, node) ==
    LET Kept(n)  == IsText(n) \/ \E kid \in row.kids : kid.tag = n.tag
        KidOf(n) == CHOOSE kid \in row.kids : kid.tag = n.tag
        kept     == SelectSeq(node.kids, Kept)
    IN  [i \in 1..Len(kept) |->
           IF IsText(kept[i])
           THEN MixedContainer("", String(kept[i].text))
           ELSE MixedContainer(kept[i].tag, ValueOf(KidOf(kept[i]), kept[i]))]

FieldValue(kid, node) ==
    LET elements == ElementsOf(node, kid.tag)
        kept     == IF kid.many \/ elements = <<>> THEN elements ELSE <<Last(elements)>>
    IN  [i \in 1..Len(kept) |-> ValueOf(kid, kept[i])]

ParaContent(node) ==
    LET kept == SelectSeq(node.kids, LAMBDA n : IsText(n) \/ n.tag = "ref")
    IN  [i \in 1..Len(kept) |->
           IF IsText(kept[i])
           THEN MixedContainer("", String(kept[i].text))
           ELSE Build("docRefTextType", kept[i])]

docParaTypeSub(object, node) ==
    [object EXCEPT
       !.content_ = ParaContent(node),
       !.fields   =
         [parameterlist |-> FieldValue(Many("parameterlist", "docParamListType"), node),
          simplesects   |-> FieldValue(Many("simplesect", "docSimpleSectType"), node)]]

WithDocParaTypeSub(object, node) ==
    IF object.sub /\ object.cls = "docParaType" THEN docParaTypeSub(object, node) ELSE object

BuildBy(row, object, node) ==
    [object EXCEPT
       !.attrs    = [a \in row.attrs \cap DOMAIN node.attrs |-> node.attrs[a]],
       !.content_ = IF row.mixed THEN ContentItems(row, node) ELSE <<>>,
       !.valueOf_ = IF row.chars THEN Characters(node) ELSE <<>>,
       !.fields   = [tag \in DOMAIN @ |->
                       IF row.mixed THEN <<>>
                       ELSE FieldValue(CHOOSE kid \in row.kids : kid.tag = tag, node)]]

BuildRow(type, row, node) ==
    WithDocParaTypeSub(BuildBy(row, factory(type, row), node), node)

Build(type, node) == BuildRow(type, Types[type], node)

(***************************************************************************)
(* parse: the root element of a file of a compound, and of index.xml.      *)
(***************************************************************************)
Parse(node)      == Build("DoxygenType", node)
ParseIndex(node) == Build("IndexDoxygenType", node)

(***************************************************************************)
(* description: the text of an object, which is that of what it holds.     *)
(***************************************************************************)
RECURSIVE description_bit(_)
description_bit(object) ==
    CASE object.cls = "str"            -> object.words
      [] object.cls = "MixedContainer" -> description_bit(object.value)
      [] OTHER -> FlattenSeq([i \in 1..Len(object.content_) |->
                                description_bit(object.content_[i])])

description(objects) ==
    IF objects = <<>> THEN <<>> ELSE description_bit(objects[1])

=============================================================================
