SPECIFICATION Spec
CONSTANTS
  Effects <- MC_Effects
  EffectName <- MC_EffectName
  EffectColors <- MC_EffectColors
  Names <- MC_Names
  NoName = ""
  Queries <- MC_Queries
  Equal <- MC_Equal
  Part <- MC_Part
  None = None
  Writers = {home, cli}
  Homes = {home}
  Pages <- MC_Pages
  Folded <- MC_Folded
  Stripped <- MC_Stripped
  Kept <- MC_Kept
  MaxDownloads = 2
  MaxUpsets = 1
  Slots = {1, 2}
  MaxColors = 2
  Terminal = cli
  Tokens = 3
  AppEffects = {"e3", "e4", "e5"}
  MaxJobs = 1
CHECK_DEADLOCK FALSE
INVARIANT TypeOK
PROPERTIES DownloadComplete ActsOnUnique SkipNeverDuplicates AddedIsNamed TokenKept
