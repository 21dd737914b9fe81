----------------------------- MODULE ModelStreams -----------------------------
(***************************************************************************)
(* The streams of ComposeDB: models - some of them interfaces, which other *)
(* models and interfaces implement - and the documents of the models.  A   *)
(* model never changes; a document changes by JSON patches.  What the two  *)
(* handlers refuse, no node has.                                           *)
(***************************************************************************)
EXTENDS Schemas, TLC

CONSTANTS
    DocAccounts, Contexts,
    Catalogs,    \* what a behaviour's clients have: [models, contents, patches, most]: the
                 \* definitions a name may be published with, contents, kinds of patch, documents
    NoUnique

VARIABLES catalog, published, documents
streamVars == <<catalog, published, documents>>

Null == [null |-> TRUE]
FieldsOf(content) == IF content = Null THEN <<>> ELSE content.object
Deterministic == {"single", "set"}
Def(m) == published[m]

InitStreams ==
    /\ catalog \in Catalogs
    /\ published = <<>> /\ documents = <<>>

-----------------------------------------------------------------------------
(* Models *)

\* lodash.isMatch, for the relations and the views.
IsMatch(implemented, expected) ==
    DOMAIN expected \subseteq DOMAIN implemented /\ \A f \in DOMAIN expected : implemented[f] = expected[f]

\* Mutant: one of the fields is enough.
SomeImmutabilityImplements(expected, implemented) ==
    expected.immutableFields # {} => expected.immutableFields \cap implemented.immutableFields # {}

\* isValidImmutabilityImplementation
ImmutabilityImplements(expected, implemented) ==
    expected.immutableFields \subseteq implemented.immutableFields

\* validateInterfaceImplementation
ImplementsInterface(expected, implemented) ==
    /\ SchemaImplements(expected.schema, implemented.schema, expected.schema, implemented.schema)
    /\ IsMatch(implemented.relations, expected.relations)
    /\ IsMatch(implemented.views, expected.views)
    /\ ImmutabilityImplements(expected, implemented)

\* validateSetFields
SetFieldsValid(fields, schema) ==
    /\ fields # <<>>
    /\ \A k \in DOMAIN fields :
          /\ fields[k] \in DOMAIN schema.properties /\ fields[k] \in schema.required
          /\ LET s == Resolve(schema.properties[fields[k]], schema)
             IN  Has(s, "type") /\ s.type \in {"boolean", "integer", "number", "string"}

\* ModelHandler._applyGenesis, for a definition of version 2.0.  An implemented
\* model that is not there fails to load.  It need not be an interface.
ModelAccepted(def) ==
    /\ def.accountRelation.type = "set" => SetFieldsValid(def.accountRelation.fields, def.schema)
    /\ DOMAIN def.views \cap DOMAIN def.schema.properties = {}
    /\ def.interface => DOMAIN def.schema.properties \cup DOMAIN def.views # {}
    /\ \A i \in def.implements : i \in DOMAIN published /\ ImplementsInterface(Def(i), def)

PublishModel(m, def) ==
    /\ m \notin DOMAIN published
    /\ ModelAccepted(def)
    /\ published' = published @@ (m :> def)
    /\ UNCHANGED <<catalog, documents>>

\* loadAllModelInterfaces.
RECURSIVE AllInterfaces(_)
AllInterfaces(ids) == ids \cup UNION { AllInterfaces(Def(i).implements) : i \in ids }

-----------------------------------------------------------------------------
(* Documents: named by what their genesis commit holds *)

\* The "unique" of a document of a SET: its fields, a value that is falsy as no text.
Text(v) ==
    CASE TypeOf(v) = "string"  -> v.string
      [] TypeOf(v) = "number"  -> IF v.number = 0 THEN "" ELSE ToString(v.number)
      [] TypeOf(v) = "boolean" -> IF v.boolean THEN "true" ELSE ""
      [] OTHER -> ""
TextOf(fields, f) == IF f \in DOMAIN fields THEN Text(fields[f]) ELSE ""

UniqueOf(names, content) ==
    LET joined[k \in 0 .. Len(names)] ==
          IF k = 0 THEN ""
          ELSE joined[k - 1] \o (IF k = 1 THEN "" ELSE "|") \o TextOf(FieldsOf(content), names[k])
    IN  joined[Len(names)]

\* _validateHeader
HeaderAccepted(def, unique) ==
    CASE def.accountRelation.type = "single" -> unique = NoUnique
      [] def.accountRelation.type \in {"set", "list"} -> unique # NoUnique
      [] OTHER -> TRUE

\* _validateRelationsContent: a linked document has the model that is expected, or
\* one that names the expected one among those it implements.
RelationsAccepted(def, fields) ==
    \A f \in DOMAIN def.relations :
       f \in DOMAIN fields /\ TypeOf(fields[f]) # "null" /\ def.relations[f] # "account" =>
          /\ TypeOf(fields[f]) = "link" /\ fields[f].link \in DOMAIN documents
          /\ LET found == fields[f].link.model
             IN  \/ def.relations[f] \in {"any", found}
                 \/ def.relations[f] \in Def(found).implements

\* _validateContent, but for the content of a genesis commit of a SINGLE or a SET.
ContentAccepted(def, content) ==
    Valid(content, def.schema, def.schema, TRUE) /\ RelationsAccepted(def, FieldsOf(content))

\* ModelInstanceDocumentHandler._applyGenesis
GenesisAccepted(def, content, unique) ==
    /\ ~def.interface
    /\ IF def.accountRelation.type \in Deterministic THEN content = Null
       ELSE ContentAccepted(def, content)
    /\ HeaderAccepted(def, unique)

\* ModelInstanceDocument.create draws random bytes, single and set draw none.
\* A stream that is already there is loaded.
Create(m, account, ctx, content, unique) ==
    LET id == [model |-> m, account |-> account, context |-> ctx, unique |-> unique]
    IN  /\ m \in DOMAIN published
        /\ id \notin DOMAIN documents /\ Cardinality(DOMAIN documents) < catalog.most
        /\ GenesisAccepted(Def(m), content, unique)
        /\ documents' = documents @@ (id :> [content |-> content, written |-> FALSE])
        /\ UNCHANGED <<catalog, published>>

\* The fields in which two contents differ.
Differing(old, new) ==
    { f \in DOMAIN old \cup DOMAIN new :
        ~(f \in DOMAIN old /\ f \in DOMAIN new /\ old[f] = new[f]) }

\* The names at the front of the paths of a JSON patch from old to new.  "compare":
\* one operation for every field that differs, which is what replace() sends.
\* "move": fields go elsewhere, the path of a move is where they go.  "root": one
\* operation whose path is empty.
PathsOf(kind, old, new) ==
    CASE kind = "compare" -> Differing(old, new)
      [] kind = "move"    -> Differing(old, new) \cap DOMAIN new
      [] kind = "root"    -> {""}

\* _validateUnique
UniqueAccepted(def, unique, content) ==
    def.accountRelation.type = "set" => unique = UniqueOf(def.accountRelation.fields, content)

\* ModelInstanceDocumentHandler._applySigned, on the tip of the document.
Update(id, content, kind) ==
    LET def == Def(id.model)
        old == FieldsOf(documents[id].content)
        new == IF content = Null THEN [object |-> <<>>] ELSE content
        exempt == def.accountRelation.type \in Deterministic /\ ~documents[id].written
    IN  /\ ContentAccepted(def, new)
        /\ ~exempt => def.immutableFields \cap PathsOf(kind, old, FieldsOf(new)) = {}
        /\ UniqueAccepted(def, id.unique, new)
        /\ documents' = [documents EXCEPT ![id] = [content |-> new, written |-> TRUE]]
        /\ UNCHANGED <<catalog, published>>

NextStreams ==
    \/ \E m \in DOMAIN catalog.models : \E def \in catalog.models[m] : PublishModel(m, def)
    \/ \E m \in DOMAIN catalog.models, account \in DocAccounts, ctx \in Contexts, content \in catalog.contents,
          unique \in catalog.uniques : Create(m, account, ctx, content, unique)
    \/ \E id \in DOMAIN documents, content \in catalog.contents, kind \in catalog.patches :
          Update(id, content, kind)

SpecStreams == InitStreams /\ [][NextStreams]_streamVars

-----------------------------------------------------------------------------
(* Properties *)

InterfacesOf(m) == AllInterfaces(Def(m).implements)
HasContent(id) == documents[id].content # Null

\* Who reads a document through an interface finds what the interface promises:
\* the content keeps to the schema of every interface that the model implements,
\* or that one of these implements, and links to documents of the models that
\* the relations of the interface name.  The handler of models compares a model
\* with the interfaces it names only, and schema by schema, never values.
DocumentsConform ==
    \A id \in DOMAIN documents : HasContent(id) =>
      \A i \in InterfacesOf(id.model) :
        LET fields == FieldsOf(documents[id].content)  r == Def(i).relations
        IN  /\ Valid(documents[id].content, Def(i).schema, Def(i).schema, FALSE)
            /\ \A f \in DOMAIN r \cap DOMAIN fields :
                 r[f] \notin {"any", "account"} /\ TypeOf(fields[f]) = "link" =>
                    r[f] \in {fields[f].link.model} \cup InterfacesOf(fields[f].link.model)

\* A field that an interface of the model makes immutable keeps the value of the
\* first content of the document, over every later commit that is accepted.
ImmutableFieldsStay ==
    [][\A id \in DOMAIN documents : HasContent(id) =>
         LET old == FieldsOf(documents[id].content)  new == FieldsOf(documents'[id].content)
         IN  \A i \in {id.model} \cup InterfacesOf(id.model) :
                Def(i).immutableFields \cap Differing(old, new) = {}]_streamVars

=============================================================================
