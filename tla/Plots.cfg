CONSTANTS
  Tables <- AnyTable
  Styles = {"plain", "thick"}
  Plain = "plain"
  Radices = {"hex", "dec"}
  Hex = "hex"
  Queries <- Searches
  Legacy <- OldFiles
  MaxPlots = 2
  MaxBusy = 4
SPECIFICATION Spec
INVARIANTS PlotsConsistent LayoutKeepsPlots LayoutFollowsNames
