SPECIFICATION Spec
CONSTANTS
    None = None
    Field = {"a", "b"}
    Key = {"k1", "k2"}
    File = {"icon", "photo"}
    Pointer = {"/title", "/photo", "/dangling"}
    Dangling = "/dangling"
    Icon = "icon"
    RuleLists <- MCRuleLists
    Catalogues <- MCCatalogues
    Persons <- OnePerson
    Contents <- MCContents
INVARIANT PlaceholdersResolved
