SPECIFICATION Spec
CONSTANTS
  c1 = c1
  c2 = c2
  c3 = c3
  NoCtx = NoCtx
  Ctx <- MC_Ctx
  NumAS = 2
  MaxRefs = 3
SYMMETRY Perms
INVARIANTS TypeOK OwnersAgree TranslationCurrent ListsAgree
PROPERTIES LeaseSpec
