CONSTANTS
  Char <- MCChar
  LowerOf <- MCLowerOf
  Width <- MCWidth
  KeywordChar <- MCKeywordChar
  Keyword <- MCKeyword
  Queries <- MCQueries
  Term <- MCTerm
  MaxKeywordLength = 4
  MaxUint8 = 5
  MaxUint16 = 7
  ID = {1, 2}
  MaxWords = 2
  MaxDistance = 1
  Nil = Nil

SPECIFICATION Spec

INVARIANTS
  
  PartialFindsSubstrings
  StoredKeywordsFound
  
  EntryRoundTrip
