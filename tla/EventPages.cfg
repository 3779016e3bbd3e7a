\* Two hosts save up to four times while two pages read; the form with
\* hours around a change of the clocks; two tabs that save twice; one guest's
\* page with its panel, media and languages.
SPECIFICATION PartsSpec
CONSTANTS
  None = None
  Form = {f1, f2, f3}
  Locale = {en, es}
  Save = {s1, s2}
  Read = {r1, r2}
  MaxRevision = 4
  MaxHour = 7
  Value = {0, 1}
  MaxSave = 2
  MaxPatches = 1
  Note = {}
  Parties <- MCParties
  MaxCount = 1
  MaxTasks = 4
  MaxPicks = 3
CHECK_DEADLOCK FALSE
SYMMETRY Interchangeable
INVARIANTS
  RevisionsInv
  DraftInv
  TypedTimeIsShown
  EditorsInv
  PanelInv
  ControlsShowMedia
  LanguageIsKept
PROPERTIES
  FreshSavesStayNarrow
  GoodFormsAreAccepted
