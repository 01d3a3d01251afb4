SPECIFICATION Spec
CONSTANTS
  ColumnScope <- MCColumnScope
  TableRows <- MCTableRows
  Catalog <- MCCatalog
  Verb <- MCVerb
  CommandKeys <- MCCommandKeys
  FilterKeys <- MCFilterKeys
  StreamLines <- MCStreamLines
  YamlLines <- MCYamlLines
  Streams <- MCStreams
  WindowSize = 2
  Discoveries <- MCDiscoveries
  Expressions <- MCExpressions
  Needles <- MCNeedles
  Heights = {2, 3}
  Types <- MCTypes
  Schemas <- MCSchemas
  MaxNesting = 2
  Unmarked <- MCUnmarked
  Documented <- MCDocumented
  FieldOrder <- MCFieldOrder
  MaxKeys <- MCMaxKeys
INVARIANTS ScreenFollowsLine FilterSound  
PROPERTIES KeysAct
