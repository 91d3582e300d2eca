SPECIFICATION FairSpec
CONSTANTS
    None = None
    Field = {"a", "b"}
    Key = {"k1", "k2"}
    File = {"icon", "photo"}
    Pointer = {"/title", "/photo", "/dangling"}
    Dangling = "/dangling"
    Icon = "icon"
    RuleLists <- MCRuleLists
    Catalogues <- MCCatalogues
    Persons <- MCPersons
    Contents <- MCContents
INVARIANTS IndInv RulesLand MissingNamed PreviewCovers
PROPERTY CallEnds
