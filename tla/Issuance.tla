------------------------------ MODULE Issuance ------------------------------
(***************************************************************************)
(* From mapping rules to a pass: set_mappings and publish of               *)
(* services/templates.py, and what a render call does between its version  *)
(* and its pass (services/render.py, engine/, clients/): it asks the data  *)
(* provider for the fields that required rules map, binds every rule,      *)
(* fetches pictures, and writes the values into the pass, while the person *)
(* and the field catalogue change.                                         *)
(*                                                                         *)
(* One version of one variant; its status is checked and its rules are     *)
(* replaced in one step (TemplateVersions takes that step apart).  A rule   *)
(* is what it maps and where to; values are told apart by what can happen  *)
(* to them.  Value types no catalogue field has, number and boolean, are   *)
(* left out.                                                               *)
(***************************************************************************)
EXTENDS Integers, Sequences

CONSTANTS
    Field,          \* fields of the data provider
    Key,            \* keys of fields in pass.json, also of those it lacks
    File,           \* names of assets
    Pointer,        \* JSON pointers
    Dangling,       \* one of them, through a node that is not there
    Icon,           \* icon.png
    RuleLists,      \* what callers send to set_mappings, in the order of the
                    \* rules' positions
    Catalogues,     \* what a refresh can bring
    Persons,        \* what the provider can have of the person
    Contents,       \* the versions imported: see Content
    None

TypeOfKind ==
    [STRING |-> "text", TEXT |-> "text", NFC |-> "text", BARCODE |-> "text",
     DATETIME |-> "date", LINK |-> "uri", IMAGE |-> "image"]

Type == {"text", "date", "uri", "image"}

\* A value of the provider: an ordinary text, one of more than 64 characters, an
\* address below that of the image service, or a JSON null.
Datum == {"plain", "long", "reference", "null"}

\* What a rule binds: a text, the bytes of a picture, or the few bytes that stand
\* for one in a preview.
Value == {"plain", "long", "reference", "picture", "sample"}

FieldTargets == {"field_value", "field_label"}

TargetKind ==
    FieldTargets \cup {"barcode_message", "barcode_alt_text", "image",
                       "nfc_payload", "json_pointer"}

Rule ==
    [kind : TargetKind, target : Key \cup File \cup Pointer,
     field : Field, type : Type, required : BOOLEAN,
     default : (Datum \ {"null"}) \cup {None}]

\* A version without its rules: the fields of pass.json and the assets, or the
\* placeholders of object_json, in order.
Content ==
    [wallet : {"apple", "google"}, keys : SUBSET Key, files : SUBSET File,
     slots : Seq([pointer : Pointer, field : Field])]

ASSUME ListsFit == RuleLists \subseteq Seq(Rule)
ASSUME ContentsFit == Contents \subseteq Content
ASSUME PersonsFit == Persons \subseteq [Field -> Datum \cup {None}]
ASSUME NoneIsNone == None \notin Value \cup Datum

VARIABLES
    content, status, rules, derived,    \* the version; its authored and derived rules
    catalogue,          \* the fields of the version's view, with their kinds
    person,             \* what the provider had of the person when it answered
    stage, tries,       \* where the call is; failed attempts of its HTTP request
    spec, checked,      \* its rules, and whether its version was published
    data, bound,        \* what the provider has answered; the value of each rule
    shown, missing      \* what its pass shows; the fields it has reported missing

version == <<content, status, rules, derived>>
call == <<stage, tries, spec, checked, person, data, bound, shown, missing>>
vars == <<version, catalogue, stage, tries, spec, checked, person, data, bound, shown,
          missing>>

Apple == content.wallet = "apple"

Empty == [f \in {} |-> None]

Unknown == [f \in Field |-> None]

Init ==
    /\ content \in Contents /\ status = "draft" /\ rules = <<>> /\ derived = <<>>
    /\ catalogue \in Catalogues /\ person = Unknown
    /\ stage = "idle" /\ tries = 0 /\ spec = <<>> /\ checked = FALSE
    /\ data = Empty /\ bound = <<>> /\ shown = Empty /\ missing = {}

-----------------------------------------------------------------------------
(* Authoring: set_mappings and publish.                                    *)

\* Kinds this service does not know are skipped.
Accepted(kinds) ==
    LET types == {TypeOfKind[k] : k \in kinds \cap DOMAIN TypeOfKind}
    IN  IF types = {} THEN {"text"} ELSE types

\* validate_mapping_rules.
Valid(r) == r.field \in DOMAIN catalogue /\ r.type \in Accepted(catalogue[r.field])

\* _check_image_rules.
PlacesPicture(r) ==
    /\ r.kind = "image" => r.type = "image" /\ Apple
    /\ r.type = "image" => r.kind = "image" \/ ~Apple

\* _check_apple_mapping_targets.
TargetExists(r) == Apple /\ r.kind \in FieldTargets => r.target \in content.keys

CatalogueOnly ==            \* mutant
    /\ \A i \in DOMAIN rules : Valid(rules[i])
    /\ Apple => Icon \in content.files

Publishable ==
    /\ \A i \in DOMAIN rules :
        Valid(rules[i]) /\ PlacesPicture(rules[i]) /\ TargetExists(rules[i])
    /\ Apple => Icon \in content.files

\* scan_placeholders, and the rules publish makes of it.
Derived ==
    IF Apple THEN <<>>
    ELSE [i \in DOMAIN content.slots |->
            [kind |-> "json_pointer", target |-> content.slots[i].pointer,
             field |-> content.slots[i].field, type |-> "text",
             required |-> FALSE, default |-> None]]

SetMappings(rs) ==
    /\ status = "draft" /\ \A i \in DOMAIN rs : Valid(rs[i])
    /\ rules' = rs
    /\ UNCHANGED <<content, status, derived, catalogue, call>>

Publish ==
    /\ status = "draft" /\ Publishable
    /\ status' = "published"
    /\ derived' = Derived
    /\ UNCHANGED <<content, rules, catalogue, call>>

-----------------------------------------------------------------------------
(* A render call.                                                          *)

\* build_render_spec: of the published version or, by its number, of any.
Begin ==
    /\ stage = "idle"
    /\ stage' = "asking"
    /\ spec' = rules \o derived
    /\ checked' = (status = "published")
    /\ UNCHANGED <<version, catalogue, tries, person, data, bound, shown, missing>>

Fail(fields) ==
    /\ stage' = "failed" /\ missing' = fields /\ tries' = 0
    /\ UNCHANGED <<version, catalogue, spec, checked, person, data, bound, shown>>

LastAttempt == tries = 1

RetryAfresh ==              \* mutant
    /\ tries' = 1 - tries
    /\ UNCHANGED <<version, catalogue, stage, spec, checked, person, data, bound,
                   shown, missing>>

\* A connection that is refused, of the provider or of the image service.
Unreachable ==
    \/ LastAttempt /\ Fail({})
    \/ /\ ~LastAttempt
       /\ tries' = 1
       /\ UNCHANGED <<version, catalogue, stage, spec, checked, person, data, bound,
                      shown, missing>>

\* required_fields.
Requested == {spec[i].field : i \in {j \in DOMAIN spec : spec[j].required}}

\* fetch_fields, answered with what there is of the person.
FetchFields ==
    /\ stage = "asking"
    /\ stage' = "fetched" /\ tries' = 0
    /\ person' \in Persons
    /\ data' = [f \in {g \in Requested : person'[g] # None} |-> person'[f]]
    /\ UNCHANGED <<version, catalogue, spec, checked, bound, shown, missing>>

\* _convert: str() makes a text of a JSON null, and of bytes that are no image.
Convert(v, type) ==
    IF v = "null" \/ (v = "sample" /\ type # "image") THEN "plain" ELSE v

\* The value of a rule, from the data d or its default.
Bound(r, d) ==
    IF r.field \in DOMAIN d THEN Convert(d[r.field], r.type) ELSE r.default

FirstMissing(d) ==          \* mutant
    LET absent == {i \in DOMAIN spec : spec[i].required /\ Bound(spec[i], d) = None}
    IN  {spec[i].field : i \in {j \in absent : \A k \in absent : j <= k}}

Missing(d) ==
    {spec[i].field : i \in {j \in DOMAIN spec :
                                spec[j].required /\ Bound(spec[j], d) = None}}

Bind ==
    /\ stage = "fetched"
    /\ IF Missing(data) # {}
         THEN Fail(Missing(data))
         ELSE /\ stage' = "bound"
              /\ bound' = [i \in DOMAIN spec |-> Bound(spec[i], data)]
              /\ UNCHANGED <<version, catalogue, tries, spec, checked, person, data,
                             shown, missing>>

\* The references still to be replaced: on Apple only, in order.
References ==
    {i \in DOMAIN spec :
        Apple /\ spec[i].type = "image" /\ bound[i] \notin {None, "picture"}}

First(S) == CHOOSE i \in S : \A j \in S : i <= j

\* resolve_image_references: only addresses below the image service's are fetched.
FetchImage ==
    /\ stage = "bound" /\ References # {}
    /\ LET i == First(References)
       IN  IF bound[i] = "reference"
             THEN /\ bound' = [bound EXCEPT ![i] = "picture"] /\ tries' = 0
                  /\ UNCHANGED <<version, catalogue, stage, spec, checked, person, data,
                                 shown, missing>>
             ELSE Fail({})

\* The place of a rule in an Apple pass.  No two pointers or keys name one place.
Place(r) ==
    [kind |-> r.kind,
     target |-> IF r.kind \in FieldTargets \cup {"image", "json_pointer"}
                  THEN r.target ELSE None]

\* What apply_apple does not write anywhere, without an error.
Lands(r, v) ==
    /\ r.kind \in FieldTargets => r.target \in content.keys
    /\ r.kind = "image" => v \in {"picture", "sample"}

Written(s, b) == {i \in DOMAIN s : b[i] # None /\ Lands(s[i], b[i])}

EarlierWins(s, b, p) ==     \* mutant
    CHOOSE i \in Written(s, b) :
        Place(s[i]) = p /\ \A j \in Written(s, b) : Place(s[j]) = p => j >= i

LaterWins(s, b, p) ==
    CHOOSE i \in Written(s, b) :
        Place(s[i]) = p /\ \A j \in Written(s, b) : Place(s[j]) = p => j <= i

ApplyApple(s, b) ==
    [p \in {Place(s[i]) : i \in Written(s, b)} |-> b[LaterWins(s, b, p)]]

\* apply_google: placeholders of fields no rule has bound stay as they are.
ApplyGoogle(s, b) ==
    [n \in {m \in DOMAIN content.slots :
                \E i \in DOMAIN s : b[i] # None /\ s[i].field = content.slots[m].field} |->
        LET of == {i \in DOMAIN s : b[i] # None /\ s[i].field = content.slots[n].field}
        IN  b[CHOOSE i \in of : \A j \in of : j <= i]]

Apply(s, b) == IF Apple THEN ApplyApple(s, b) ELSE ApplyGoogle(s, b)

PointsNowhere(r) == r.kind = "json_pointer" /\ r.target = Dangling

\* apply_apple raises at an NFC payload that is too long, as a picture's bytes are,
\* and at a pointer to a place that is not there.
Unbuildable(s, b) ==
    Apple /\ \E i \in DOMAIN s :
        \/ s[i].kind = "nfc_payload" /\ b[i] \in {"long", "picture"}
        \/ PointsNowhere(s[i]) /\ b[i] # None

Build ==
    /\ stage = "bound" /\ References = {}
    /\ IF Unbuildable(spec, bound)
         THEN Fail({})
         ELSE /\ stage' = "answered"
              /\ shown' = Apply(spec, bound)
              /\ UNCHANGED <<version, catalogue, tries, spec, checked, person, data,
                             bound, missing>>

Asking ==
    \/ stage = "asking"
    \/ stage = "bound" /\ References # {} /\ bound[First(References)] = "reference"

\* An error response, or a refused connection.
Refuse == Asking /\ (Fail({}) \/ Unreachable)

End ==
    /\ stage \in {"answered", "failed"}
    /\ stage' = "idle" /\ spec' = <<>> /\ checked' = FALSE
    /\ person' = Unknown /\ data' = Empty /\ bound' = <<>>
    /\ shown' = Empty /\ missing' = {}
    /\ UNCHANGED <<version, catalogue, tries>>

-----------------------------------------------------------------------------
(* A preview of the rules s, with the sample data d, reaches no network: a  *)
(* field without a sample gets the placeholder of the first rule that maps  *)
(* it.                                                                      *)
Sampled(s, d) ==
    [f \in DOMAIN d \cup {s[i].field : i \in DOMAIN s} |->
        IF f \in DOMAIN d THEN d[f]
        ELSE LET first == First({i \in DOMAIN s : s[i].field = f})
             IN  IF s[first].type = "image" THEN "sample" ELSE "plain"]

NoPlaceholders(s, d) == [i \in DOMAIN s |-> Bound(s[i], d)]     \* mutant

PreviewBound(s, d) == [i \in DOMAIN s |-> Bound(s[i], Sampled(s, d))]

\* The places in pass_json or object_json: pictures are files beside the former.
Visible(f) == IF Apple THEN {p \in DOMAIN f : p.kind # "image"} ELSE DOMAIN f

\* pass_json or object_json with bound_fields; nothing for a preview that fails.
Preview(s, d) ==
    LET b == PreviewBound(s, d)
        f == Apply(s, b)
    IN  IF Unbuildable(s, b) THEN {}
        ELSE {[shown |-> [p \in Visible(f) |-> f[p]],
               fields |-> {s[i].field : i \in {j \in DOMAIN s : b[j] # None}}]}

-----------------------------------------------------------------------------
\* A refresh of the field catalogue.
Refresh ==
    /\ catalogue' \in Catalogues
    /\ UNCHANGED <<version, call>>

Step == FetchFields \/ Bind \/ FetchImage \/ Build \/ End

Next ==
    \/ \E rs \in RuleLists : SetMappings(rs)
    \/ Publish \/ Begin \/ Step \/ Refuse \/ Refresh

Spec == Init /\ [][Next]_vars

\* An HTTP request ends, by an answer or by its timeout; callers owe nothing.
FairSpec == Spec /\ WF_vars(Step \/ Refuse)

(***************************************************************************)
(* Properties.                                                             *)
(***************************************************************************)
TypeOK ==
    /\ content \in Content /\ status \in {"draft", "published"}
    /\ rules \in Seq(Rule) /\ derived \in Seq(Rule) /\ spec \in Seq(Rule)
    /\ person \in [Field -> Datum \cup {None}]
    /\ stage \in {"idle", "asking", "fetched", "bound", "answered", "failed"}
    /\ tries \in 0..1 /\ checked \in BOOLEAN

\* What a rule puts into a pass.
Final(r) == IF Apple /\ r.type = "image" THEN "picture" ELSE Bound(r, data)

\* Of the rules that compete, j is the last that has a value, and p shows it.
ShowsLast(p, competing, j) ==
    /\ j \in competing /\ p \in DOMAIN shown /\ shown[p] = Final(spec[j])
    /\ \A k \in competing : Bound(spec[k], data) # None => k <= j

\* "Three ways an image rule fails silently at render time, which is why all three
\* are publish-time errors instead", and a field that is not there: in an Apple
\* pass of a published version, the place of every required rule shows the value
\* of that rule, or of the last later one for the same place that has a value.  In
\* a Google object of any version, so does every placeholder of its field.
RulesLand ==
    stage = "answered" => \A i \in DOMAIN spec : spec[i].required =>
        /\ checked /\ Apple =>
              \E j \in DOMAIN spec : j >= i /\
                  ShowsLast(Place(spec[i]),
                            {k \in DOMAIN spec : Place(spec[k]) = Place(spec[i])}, j)
        /\ ~Apple =>
              \A n \in DOMAIN content.slots : content.slots[n].field = spec[i].field =>
                  \E j \in DOMAIN spec : j >= i /\
                      ShowsLast(n, {k \in DOMAIN spec :
                                        spec[k].field = spec[i].field}, j)

\* A pass is built only if no required field is missing, and a call that fails
\* for missing fields names all of them at once.
MissingNamed ==
    LET absent == {f \in Requested \ DOMAIN data :
                      \E i \in DOMAIN spec : /\ spec[i].field = f /\ spec[i].required
                                             /\ spec[i].default = None}
    IN  /\ stage = "answered" => absent = {}
        /\ stage = "failed" /\ missing # {} => missing = absent

Mapped == {spec[i].field : i \in DOMAIN spec}

\* A preview of the rules of a pass that was answered shows a value wherever the pass
\* does, pictures apart, and names every field the rules map, with sample data for
\* any of these fields.  It fails exactly when one of the rules points nowhere, which
\* the pass survives as long as that rule has no value, or a sample is too long for
\* the NFC payload.
PreviewCovers ==
    stage = "answered" =>
        \A S \in SUBSET Mapped : \A d \in [S -> {"plain", "long"}] :
            IF Apple /\ \E i \in DOMAIN spec :
                  \/ bound[i] = None /\ PointsNowhere(spec[i])
                  \/ /\ spec[i].kind = "nfc_payload" /\ spec[i].field \in S
                     /\ d[spec[i].field] = "long"
              THEN Preview(spec, d) = {}
              ELSE \E p \in Preview(spec, d) :
                      /\ Visible(shown) \subseteq DOMAIN p.shown
                      /\ Mapped \subseteq p.fields

\* A call comes to an end, however often connections are refused.
CallEnds == stage # "idle" ~> stage = "idle"

\* Why it does, whatever the connections do: a step that does not move the call on
\* to a later stage replaces one of its pictures or uses up its one attempt more.
Ahead(s) ==
    CASE s = "asking" -> 4 [] s = "fetched" -> 3 [] s = "bound" -> 2
      [] s \in {"answered", "failed"} -> 1 [] s = "idle" -> 0

CallAdvances ==
    [][Step \/ Refuse =>
        \/ Ahead(stage') < Ahead(stage)
        \/ /\ stage' = stage
           /\ \/ /\ tries < tries' /\ tries' <= 1
                 /\ stage = "bound" => References' = References
              \/ /\ stage = "bound"
                 /\ References' \subseteq References /\ References' # References]_vars

\* "scans object_json for ${...} occurrences and resolves each one against the
\* caller's mapping": an object that is pushed shows no placeholder of a field the
\* provider had for the person when it was asked.
PlaceholdersResolved ==
    stage = "answered" /\ checked /\ ~Apple =>
        \A n \in DOMAIN content.slots :
            person[content.slots[n].field] # None => n \in DOMAIN shown

(***************************************************************************)
(* The inductive invariant: what publishing has checked of a call's rules, *)
(* and what each stage of a call has made of them.                         *)
(***************************************************************************)
Checked(rs) == \A i \in DOMAIN rs : PlacesPicture(rs[i]) /\ TargetExists(rs[i])

PublishedChecked ==
    /\ status = "published" /\ Apple => Checked(rules)
    /\ status = "draft" \/ Apple => derived = <<>>
    /\ checked /\ Apple => Checked(spec)

\* The value of rule i is what the data gives, or the picture it refers to.
BoundFromData ==
    stage \in {"bound", "answered"} =>
        /\ DOMAIN bound = DOMAIN spec
        /\ \A i \in DOMAIN spec :
            LET v == Bound(spec[i], data)
            IN  /\ \/ bound[i] = v
                   \/ v # None /\ Apple /\ spec[i].type = "image" /\ bound[i] = "picture"
                /\ spec[i].required => v # None

OnlyAsked ==
    /\ data \in [DOMAIN data -> Datum] /\ DOMAIN data \subseteq Requested
    /\ stage \in {"idle", "asking"} => DOMAIN data = {}
    /\ stage = "failed" /\ missing # {} => missing = Missing(data)

ShownBuilt ==
    stage = "answered" =>
        References = {} /\ ~Unbuildable(spec, bound) /\ shown = Apply(spec, bound)

IndInv ==
    /\ TypeOK /\ PublishedChecked /\ BoundFromData /\ OnlyAsked /\ ShownBuilt
=============================================================================
