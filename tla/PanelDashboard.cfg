\* The panel against the dashboard it implements.
SPECIFICATION Spec
CONSTANTS
  Words <- FewWords
  HostEntries <- FewEntries
  Changes <- FewChanges
PROPERTIES ImplementsDashboard WordsAreShown
