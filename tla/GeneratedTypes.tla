--------------------------- MODULE GeneratedTypes ---------------------------
(***************************************************************************)
(* The schema of Doxygen's XML as the classes of doxyxml/generated read    *)
(* it: for every class of compoundsuper.py and indexsuper.py, the          *)
(* attributes its buildAttributes keeps and the child elements its         *)
(* buildChildren keeps, in which way and as which class.  What no row      *)
(* names is dropped without a word, which decides what can reach a         *)
(* docstring: docParaType, for one, keeps the text between its elements    *)
(* and no element at all.                                                  *)
(*                                                                         *)
(* The names of classes and fields are the source's; a class that has the  *)
(* name of a common word is followed by an underscore here.  That some     *)
(* attributes are turned into integers is left out.                        *)
(***************************************************************************)

(***************************************************************************)
(* A child element: One replaces what an earlier element of the tag left,  *)
(* Many collects; Str and Strs keep the characters of the element and make *)
(* no object of it.                                                        *)
(***************************************************************************)
One(tag, type)  == [tag |-> tag, type |-> type, many |-> FALSE]
Many(tag, type) == [tag |-> tag, type |-> type, many |-> TRUE]
Str(tag)        == [tag |-> tag, type |-> "",   many |-> FALSE]
Strs(tag)       == [tag |-> tag, type |-> "",   many |-> TRUE]

(***************************************************************************)
(* A class: Fields keeps each child element in the attribute of its tag,   *)
(* Mixed keeps elements and text in their order in content_, Text keeps    *)
(* the characters in valueOf_ and MixedText in both, without any element.  *)
(***************************************************************************)
Fields(attrs, kids) == [attrs |-> attrs, kids |-> kids, mixed |-> FALSE, chars |-> FALSE]
Mixed(attrs, kids)  == [attrs |-> attrs, kids |-> kids, mixed |-> TRUE,  chars |-> FALSE]
Text(attrs)         == [attrs |-> attrs, kids |-> {},   mixed |-> FALSE, chars |-> TRUE]
MixedText(attrs)    == [attrs |-> attrs, kids |-> {},   mixed |-> TRUE,  chars |-> TRUE]

(***************************************************************************)
(* indexsuper.py: the classes of index.xml.                                *)
(***************************************************************************)
IndexDoxygenType == Fields({"version"}, {Many("compound", "CompoundType")})
CompoundType == Fields({"kind", "refid"}, {Str("name"), Many("member", "MemberType")})
MemberType == Fields({"kind", "refid"}, {Str("name")})

(***************************************************************************)
(* compoundsuper.py: the classes of the files of the compounds.            *)
(***************************************************************************)
DoxygenType == Fields({"version"}, {One("compounddef", "compounddefType")})
compounddefType ==
  Fields(
    {"kind", "prot", "id"},
    {Str("compoundname"), One("title", "docTitleType"),
    Many("basecompoundref", "compoundRefType"),
    Many("derivedcompoundref", "compoundRefType"), Many("includes", "incType"),
    Many("includedby", "incType"), One("incdepgraph", "graphType"),
    One("invincdepgraph", "graphType"), Many("innerdir", "refType"),
    Many("innerfile", "refType"), Many("innerclass", "refType"),
    Many("innernamespace", "refType"), Many("innerpage", "refType"),
    Many("innergroup", "refType"), One("templateparamlist", "templateparamlistType"),
    Many("sectiondef", "sectiondefType"), One("briefdescription", "descriptionType"),
    One("detaileddescription", "descriptionType"),
    One("inheritancegraph", "graphType"), One("collaborationgraph", "graphType"),
    One("programlisting", "listingType"), One("location", "locationType"),
    One("listofallmembers", "listofallmembersType")})
listofallmembersType == Fields({}, {Many("member", "memberRefType")})
memberRefType ==
  Fields(
    {"virt", "prot", "refid", "ambiguityscope"},
    {Str("scope"), Str("name")})
scope_ == Text({})
name_ == Text({})
compoundRefType == MixedText({"virt", "prot", "refid"})
reimplementType == MixedText({"refid"})
incType == MixedText({"local", "refid"})
refType == MixedText({"prot", "refid"})
refTextType == MixedText({"refid", "kindref", "external"})
sectiondefType ==
  Fields(
    {"kind"},
    {Str("header"), One("description", "descriptionType"),
    Many("memberdef", "memberdefType")})
memberdefType ==
  Fields(
    {"initonly", "kind", "volatile", "const", "raise", "virt", "readable", "prot",
    "explicit", "new", "final", "writable", "add", "static", "remove", "sealed",
    "mutable", "gettable", "inline", "settable", "id"},
    {One("templateparamlist", "templateparamlistType"), One("type", "linkedTextType"),
    Str("definition"), Str("argsstring"), Str("name"), Str("read"), Str("write"),
    Str("bitfield"), Many("reimplements", "reimplementType"),
    Many("reimplementedby", "reimplementType"), Many("param", "paramType"),
    Many("enumvalue", "enumvalueType"), One("initializer", "linkedTextType"),
    One("exceptions", "linkedTextType"), One("briefdescription", "descriptionType"),
    One("detaileddescription", "descriptionType"),
    One("inbodydescription", "descriptionType"), One("location", "locationType"),
    Many("references", "referenceType"), Many("referencedby", "referenceType")})
definition_ == Text({})
argsstring_ == Text({})
read_ == Text({})
write_ == Text({})
bitfield_ == Text({})
descriptionType ==
  Mixed(
    {},
    {One("title", "docTitleType"), One("para", "docParaType"),
    One("sect1", "docSect1Type"), One("internal", "docInternalType")})
enumvalueType ==
  Mixed(
    {"prot", "id"},
    {Str("name"), One("initializer", "linkedTextType"),
    One("briefdescription", "descriptionType"),
    One("detaileddescription", "descriptionType")})
templateparamlistType == Fields({}, {Many("param", "paramType")})
paramType ==
  Fields(
    {},
    {One("type", "linkedTextType"), Str("declname"), Str("defname"), Str("array"),
    One("defval", "linkedTextType"), One("briefdescription", "descriptionType")})
declname_ == Text({})
defname_ == Text({})
array_ == Text({})
linkedTextType == Mixed({}, {One("ref", "docRefTextType")})
graphType == Fields({}, {Many("node", "nodeType")})
nodeType ==
  Fields(
    {"id"},
    {Str("label"), One("link", "linkType"), Many("childnode", "childnodeType")})
label_ == Text({})
childnodeType == Fields({"relation", "refid"}, {Strs("edgelabel")})
edgelabel_ == Text({})
linkType == Text({"refid", "external"})
listingType == Fields({}, {Many("codeline", "codelineType")})
codelineType ==
  Fields(
    {"external", "lineno", "refkind", "refid"},
    {Many("highlight", "highlightType")})
highlightType == Mixed({"class"}, {Str("sp"), One("ref", "docRefTextType")})
sp_ == Text({})
referenceType == MixedText({"endline", "startline", "refid", "compoundref"})
locationType == Text({"bodystart", "line", "bodyend", "bodyfile", "file"})
docSect1Type ==
  Mixed(
    {"id"},
    {One("title", "docTitleType"), One("para", "docParaType"),
    One("sect2", "docSect2Type"), One("internal", "docInternalS1Type")})
docSect2Type ==
  Mixed(
    {"id"},
    {One("title", "docTitleType"), One("para", "docParaType"),
    One("sect3", "docSect3Type"), One("internal", "docInternalS2Type")})
docSect3Type ==
  Mixed(
    {"id"},
    {One("title", "docTitleType"), One("para", "docParaType"),
    One("sect4", "docSect4Type"), One("internal", "docInternalS3Type")})
docSect4Type ==
  Mixed(
    {"id"},
    {One("title", "docTitleType"), One("para", "docParaType"),
    One("internal", "docInternalS4Type")})
docInternalType == Mixed({}, {One("para", "docParaType"), One("sect1", "docSect1Type")})
docInternalS1Type == Mixed({}, {One("para", "docParaType"), One("sect2", "docSect2Type")})
docInternalS2Type == Mixed({}, {One("para", "docParaType"), One("sect3", "docSect3Type")})
docInternalS3Type == Mixed({}, {One("para", "docParaType"), One("sect3", "docSect4Type")})
docInternalS4Type == Mixed({}, {One("para", "docParaType")})
docTitleType == MixedText({})
docParaType == MixedText({})
docMarkupType == MixedText({})
docURLLink == MixedText({"url"})
docAnchorType == MixedText({"id"})
docFormulaType == MixedText({"id"})
docIndexEntryType == Fields({}, {Str("primaryie"), Str("secondaryie")})
docListType == Fields({}, {Many("listitem", "docListItemType")})
docListItemType == Fields({}, {Many("para", "docParaType")})
docSimpleSectType ==
  Fields(
    {"kind"},
    {One("title", "docTitleType"), Many("para", "docParaType")})
docVarListEntryType == Fields({}, {One("term", "docTitleType")})
docVariableListType == Text({})
docRefTextType == MixedText({"refid", "kindref", "external"})
docTableType ==
  Fields(
    {"rows", "cols"},
    {Many("row", "docRowType"), One("caption", "docCaptionType")})
docRowType == Fields({}, {Many("entry", "docEntryType")})
docEntryType == Fields({"thead"}, {Many("para", "docParaType")})
docCaptionType == MixedText({})
docHeadingType == MixedText({"level"})
docImageType == MixedText({"width", "type", "name", "height"})
docDotFileType == MixedText({"name"})
docTocItemType == MixedText({"id"})
docTocListType == Fields({}, {Many("tocitem", "docTocItemType")})
docLanguageType == Fields({"langid"}, {Many("para", "docParaType")})
docParamListType == Fields({"kind"}, {Many("parameteritem", "docParamListItem")})
docParamListItem ==
  Fields(
    {},
    {Many("parameternamelist", "docParamNameList"),
    One("parameterdescription", "descriptionType")})
docParamNameList == Fields({}, {Many("parametername", "docParamName")})
docParamName == Mixed({"direction"}, {One("ref", "docRefTextType")})
docXRefSectType ==
  Fields(
    {"id"},
    {Strs("xreftitle"), One("xrefdescription", "descriptionType")})
docCopyType ==
  Fields(
    {"link"},
    {Many("para", "docParaType"), Many("sect1", "docSect1Type"),
    One("internal", "docInternalType")})
docCharType == Text({"char"})
docEmptyType == Text({})

(***************************************************************************)
(* The class of each name, as the build methods look it up.                *)
(***************************************************************************)
Types ==
  [IndexDoxygenType |-> IndexDoxygenType, CompoundType |-> CompoundType,
   MemberType |-> MemberType, DoxygenType |-> DoxygenType,
   compounddefType |-> compounddefType, listofallmembersType |-> listofallmembersType,
   memberRefType |-> memberRefType, scope_ |-> scope_, name_ |-> name_,
   compoundRefType |-> compoundRefType, reimplementType |-> reimplementType,
   incType |-> incType, refType |-> refType, refTextType |-> refTextType,
   sectiondefType |-> sectiondefType, memberdefType |-> memberdefType,
   definition_ |-> definition_, argsstring_ |-> argsstring_, read_ |-> read_,
   write_ |-> write_, bitfield_ |-> bitfield_, descriptionType |-> descriptionType,
   enumvalueType |-> enumvalueType, templateparamlistType |-> templateparamlistType,
   paramType |-> paramType, declname_ |-> declname_, defname_ |-> defname_,
   array_ |-> array_, linkedTextType |-> linkedTextType, graphType |-> graphType,
   nodeType |-> nodeType, label_ |-> label_, childnodeType |-> childnodeType,
   edgelabel_ |-> edgelabel_, linkType |-> linkType, listingType |-> listingType,
   codelineType |-> codelineType, highlightType |-> highlightType, sp_ |-> sp_,
   referenceType |-> referenceType, locationType |-> locationType,
   docSect1Type |-> docSect1Type, docSect2Type |-> docSect2Type,
   docSect3Type |-> docSect3Type, docSect4Type |-> docSect4Type,
   docInternalType |-> docInternalType, docInternalS1Type |-> docInternalS1Type,
   docInternalS2Type |-> docInternalS2Type, docInternalS3Type |-> docInternalS3Type,
   docInternalS4Type |-> docInternalS4Type, docTitleType |-> docTitleType,
   docParaType |-> docParaType, docMarkupType |-> docMarkupType, docURLLink |-> docURLLink,
   docAnchorType |-> docAnchorType, docFormulaType |-> docFormulaType,
   docIndexEntryType |-> docIndexEntryType, docListType |-> docListType,
   docListItemType |-> docListItemType, docSimpleSectType |-> docSimpleSectType,
   docVarListEntryType |-> docVarListEntryType,
   docVariableListType |-> docVariableListType, docRefTextType |-> docRefTextType,
   docTableType |-> docTableType, docRowType |-> docRowType, docEntryType |-> docEntryType,
   docCaptionType |-> docCaptionType, docHeadingType |-> docHeadingType,
   docImageType |-> docImageType, docDotFileType |-> docDotFileType,
   docTocItemType |-> docTocItemType, docTocListType |-> docTocListType,
   docLanguageType |-> docLanguageType, docParamListType |-> docParamListType,
   docParamListItem |-> docParamListItem, docParamNameList |-> docParamNameList,
   docParamName |-> docParamName, docXRefSectType |-> docXRefSectType,
   docCopyType |-> docCopyType, docCharType |-> docCharType, docEmptyType |-> docEmptyType]

=============================================================================
